------------------------- MODULE GatewayCommandsProofs -------------------------
(***************************************************************************)
(* Proofs about CommandRelay by itself and about GatewayCommands, which    *)
(* holds it: the invariants of the rules and of their file, for every set  *)
(* of devices and ends of rules and every size of the table, the rules of  *)
(* the relay under the server's commands, and the refinement of FrameSlot  *)
(* by the globals that hold the frame under construction.                  *)
(*                                                                         *)
(* The heart of the relay is that the lines of a save are what a load      *)
(* makes entries of: LineOf numbers the entries in use from 1 on, without  *)
(* a gap, because it is an injection into a set of the same size.          *)
(***************************************************************************)
EXTENDS GatewayCommands, FiniteSetTheorems, SequenceTheorems, TLAPS

-----------------------------------------------------------------------------
(* The table and its lines *)

LEMMA UsedIsFinite ==
  ASSUME NEW t
  PROVE  /\ Used(t) \subseteq Idx
         /\ IsFiniteSet(Used(t))
         /\ Cardinality(Used(t)) \in 0 .. RelayTableSize
<1>1. IsFiniteSet(Idx) /\ Cardinality(Idx) = RelayTableSize
  BY FS_Interval, RelayTableSizeAssumption DEF Idx
<1>2. Used(t) \in SUBSET Idx
  BY DEF Used
<1>3. IsFiniteSet(Used(t)) /\ Cardinality(Used(t)) <= RelayTableSize
  BY <1>1, <1>2, FS_Subset
<1>4. Cardinality(Used(t)) \in Nat
  BY <1>3, FS_CardinalityType
<1> QED
  BY <1>2, <1>3, <1>4, RelayTableSizeAssumption

\* The entries in use up to an entry.
LEMMA UpToProperties ==
  ASSUME NEW t, NEW i \in Used(t)
  PROVE  LET upto == {j \in 1 .. i : t[j] # NoRule}
         IN  /\ upto \in SUBSET Used(t)
             /\ IsFiniteSet(upto)
             /\ i \in upto
             /\ LineOf(t, i) = Cardinality(upto)
             /\ LineOf(t, i) \in 1 .. Cardinality(Used(t))
<1> DEFINE upto == {j \in 1 .. i : t[j] # NoRule}
<1>1. i \in Nat /\ 1 <= i /\ i <= RelayTableSize /\ t[i] # NoRule
  BY RelayTableSizeAssumption DEF Used, Idx
<1>2. upto \in SUBSET Used(t)
  BY <1>1, RelayTableSizeAssumption DEF Used, Idx
<1>3. i \in upto
  BY <1>1
<1>4. LineOf(t, i) = Cardinality(upto)
  BY DEF LineOf
<1> HIDE DEF upto
<1>5. IsFiniteSet(upto) /\ Cardinality(upto) <= Cardinality(Used(t))
  BY <1>2, UsedIsFinite, FS_Subset
<1>6. Cardinality(upto) \in Nat /\ Cardinality(upto) # 0
  BY <1>3, <1>5, FS_CardinalityType, FS_EmptySet
<1>7. LineOf(t, i) \in 1 .. Cardinality(Used(t))
  BY <1>4, <1>5, <1>6, UsedIsFinite
<1> QED
  BY <1>2, <1>3, <1>4, <1>5, <1>7 DEF upto

\* Each line belongs to an entry in use.
LEMMA EveryLineHasItsEntry ==
  ASSUME NEW t, NEW k \in 1 .. Cardinality(Used(t))
  PROVE  \E i \in Used(t) : LineOf(t, i) = k
<1> DEFINE n == Cardinality(Used(t))
           line == [i \in Used(t) |-> LineOf(t, i)]
<1>1. n \in Nat /\ IsFiniteSet(Used(t))
  BY UsedIsFinite
<1>2. IsFiniteSet(1 .. n) /\ Cardinality(1 .. n) = n
  BY <1>1, FS_Interval
<1>3. line \in [Used(t) -> 1 .. n]
  BY UpToProperties
<1>4. ASSUME NEW i \in Used(t), NEW j \in Used(t), i < j
      PROVE  LineOf(t, i) # LineOf(t, j)
  <2> DEFINE A == {l \in 1 .. i : t[l] # NoRule}
             B == {l \in 1 .. j : t[l] # NoRule}
  <2>1. i \in Nat /\ j \in Nat
    BY DEF Used, Idx
  <2>2. A \in SUBSET B /\ j \notin A
    BY <1>4, <2>1
  <2>3. IsFiniteSet(B) /\ j \in B
    BY UpToProperties
  <2>4. LineOf(t, i) = Cardinality(A) /\ LineOf(t, j) = Cardinality(B)
    BY DEF LineOf
  <2> HIDE DEF A, B
  <2>5. Cardinality(A) # Cardinality(B)
    BY <2>2, <2>3, FS_Subset
  <2> QED
    BY <2>4, <2>5
<1>5. \A i, j \in Used(t) : line[i] = line[j] => i = j
  <2>1. \A i \in Used(t) : i \in Nat
    BY DEF Used, Idx
  <2> QED
    BY <1>4, <2>1
<1> HIDE DEF line
<1>6. line \in Injection(Used(t), 1 .. n)
  BY <1>3, <1>5 DEF Injection, IsInjective
<1>7. line \in Surjection(Used(t), 1 .. n)
  BY <1>1, <1>2, <1>6, FS_Injection
<1>8. PICK i \in Used(t) : line[i] = k
  BY <1>7 DEF Surjection
<1> QED
  BY <1>8 DEF line

\* A save writes rules, and no more of them than the table has entries.
LEMMA LinesType ==
  ASSUME NEW t \in [Idx -> Rules \cup {NoRule}]
  PROVE  Lines(t) \in Seq(Rules) /\ Len(Lines(t)) <= RelayTableSize
<1> DEFINE n == Cardinality(Used(t))
           entry(k) == CHOOSE i \in Used(t) : LineOf(t, i) = k
<1>1. n \in Nat /\ n <= RelayTableSize
  BY UsedIsFinite, RelayTableSizeAssumption
<1>2. ASSUME NEW k \in 1 .. n PROVE t[entry(k)] \in Rules
  <2>1. entry(k) \in Used(t)
    BY EveryLineHasItsEntry
  <2> HIDE DEF entry
  <2> QED
    BY <2>1 DEF Used
<1>3. Lines(t) = [k \in 1 .. n |-> t[entry(k)]]
  BY DEF Lines
<1> HIDE DEF n, entry
<1>4. Lines(t) \in [1 .. n -> Rules]
  BY <1>2, <1>3
<1> QED
  BY <1>1, <1>4

LEMMA LoadedType ==
  ASSUME NEW file \in Seq(Rules)
  PROVE  Loaded(file) \in [Idx -> Rules \cup {NoRule}]
<1>1. ASSUME NEW i \in Idx, i <= Len(file) PROVE file[i] \in Rules
  BY <1>1 DEF Idx
<1> QED
  BY <1>1 DEF Loaded

\* A load loses no line and keeps their order: a save of the loaded table
\* would write the file as it is.
LEMMA LinesOfLoaded ==
  ASSUME NEW file \in Seq(Rules), Len(file) <= RelayTableSize
  PROVE  Lines(Loaded(file)) = file
<1> DEFINE t == Loaded(file)
           m == Len(file)
<1>1. m \in Nat /\ m <= RelayTableSize
  OBVIOUS
<1>2. ASSUME NEW i \in Idx PROVE t[i] # NoRule <=> i <= m
  BY NoRuleAssumption, RelayTableSizeAssumption DEF Loaded, Idx
<1>3. \A i \in 1 .. m : t[i] = file[i]
  BY <1>1, RelayTableSizeAssumption DEF Loaded, Idx
<1> HIDE DEF t
<1>4. Used(t) = 1 .. m
  BY <1>1, <1>2, RelayTableSizeAssumption DEF Used, Idx
<1>5. Cardinality(Used(t)) = m
  BY <1>1, <1>4, FS_Interval
<1>6. ASSUME NEW i \in 1 .. m PROVE LineOf(t, i) = i
  <2>1. {j \in 1 .. i : t[j] # NoRule} = 1 .. i
    BY <1>1, <1>2, RelayTableSizeAssumption DEF Idx
  <2>2. Cardinality(1 .. i) = i
    BY <1>1, FS_Interval
  <2> QED
    BY <2>1, <2>2 DEF LineOf
<1>7. ASSUME NEW k \in 1 .. m
      PROVE  (CHOOSE i \in Used(t) : LineOf(t, i) = k) = k
  BY <1>4, <1>6
<1>8. Lines(t) = [k \in 1 .. m |-> file[k]]
  BY <1>3, <1>5, <1>7 DEF Lines
<1>9. file = [k \in 1 .. m |-> file[k]]
  OBVIOUS
<1> QED
  BY <1>8, <1>9 DEF t

-----------------------------------------------------------------------------
(* The steps *)

RelayInv == TypeOK /\ FileHoldsTheRules

TableOK == /\ relayTable \in [Idx -> Rules \cup {NoRule}]
           /\ relayFile \in Seq(Rules) /\ Len(relayFile) <= RelayTableSize
           /\ FileHoldsTheRules

LEMMA WithoutType ==
  ASSUME NEW t \in [Idx -> Rules \cup {NoRule}], NEW gone
  PROVE  Without(t, gone) \in [Idx -> Rules \cup {NoRule}]
BY DEF Without

LEMMA SavedStep ==
  ASSUME NEW t \in [Idx -> Rules \cup {NoRule}], Saved(t)
  PROVE  TableOK'
BY LinesType DEF Saved, TableOK, FileHoldsTheRules

LEMMA LoadStep ==
  ASSUME TableOK, Load
  PROVE  TableOK'
<1>1. relayTable' = Loaded(relayFile) /\ relayFile' = relayFile
  BY DEF Load
<1>2. relayTable' \in [Idx -> Rules \cup {NoRule}]
  BY <1>1, LoadedType DEF TableOK
<1>3. Lines(relayTable') = relayFile'
  BY <1>1, LinesOfLoaded DEF TableOK
<1> QED
  BY <1>1, <1>2, <1>3 DEF TableOK, FileHoldsTheRules

LEMMA KeptStep ==
  ASSUME TableOK, UNCHANGED <<relayTable, relayFile>>
  PROVE  TableOK'
BY DEF TableOK, FileHoldsTheRules

LEMMA OperatorStep ==
  ASSUME TableOK, Operator
  PROVE  TableOK'
<1>1. CASE \E rule \in Rules : Add(rule)
  <2>1. PICK rule \in Rules : Add(rule)
    BY <1>1
  <2> DEFINE t == [relayTable EXCEPT ![Min(Idx \ Used(relayTable))] = rule]
  <2>2. t \in [Idx -> Rules \cup {NoRule}]
    BY DEF TableOK
  <2>3. Saved(t)
    BY <2>1 DEF Add
  <2> QED
    BY <2>2, <2>3, SavedStep
<1>2. CASE \E rule \in Rules : Remove(rule)
  <2>1. PICK rule \in Rules : Remove(rule)
    BY <1>2
  <2> DEFINE t == Without(relayTable, {i \in Idx : relayTable[i] = rule})
  <2>2. t \in [Idx -> Rules \cup {NoRule}]
    BY WithoutType DEF TableOK
  <2>3. Saved(t)
    BY <2>1 DEF Remove
  <2> QED
    BY <2>2, <2>3, SavedStep
<1>3. CASE Clear
  <2>1. EmptyTable \in [Idx -> Rules \cup {NoRule}]
    BY DEF EmptyTable
  <2> QED
    BY <1>3, <2>1, SavedStep DEF Clear
<1>4. CASE Load
  BY <1>4, LoadStep
<1>5. CASE SaveCommand
  BY <1>5, SavedStep DEF SaveCommand, TableOK
<1> QED
  BY <1>1, <1>2, <1>3, <1>4, <1>5 DEF Operator

\* A rule that is served is a rule of the table, and the sender has an end.
LEMMA CommandStep ==
  ASSUME TypeOK, CommandReceived
  PROVE  /\ running' \in BOOLEAN
         /\ \A f \in forwarded' : f.sender \in Devices /\ f.rule \in Rules
<1>1. PICK end \in Ends : \E seen \in SeenAs(end.eui64) :
         LET matching == Matching(relayTable, [end EXCEPT !.eui64 = seen])
         IN  /\ forwarded' = {[sender |-> end.eui64, rule |-> relayTable[i]]
                                 : i \in Served(matching)}
             /\ running' = (Unreachable(matching) = {})
  BY DEF CommandReceived
<1>2. PICK seen \in SeenAs(end.eui64) :
         LET matching == Matching(relayTable, [end EXCEPT !.eui64 = seen])
         IN  /\ forwarded' = {[sender |-> end.eui64, rule |-> relayTable[i]]
                                 : i \in Served(matching)}
             /\ running' = (Unreachable(matching) = {})
  BY <1>1
<1> DEFINE matching == Matching(relayTable, [end EXCEPT !.eui64 = seen])
<1>3. \A i \in matching : i \in Idx /\ relayTable[i] # NoRule
  BY DEF Matching, Used
<1> HIDE DEF matching
<1>4. Served(matching) \subseteq matching
  BY DEF Served
<1>5. \A i \in Served(matching) : relayTable[i] \in Rules
  BY <1>3, <1>4 DEF TypeOK
<1>6. end.eui64 \in Devices
  BY EndsAssumption
<1>7. forwarded' = {[sender |-> end.eui64, rule |-> relayTable[i]]
                      : i \in Served(matching)}
  BY <1>2 DEF matching
<1>8. running' \in BOOLEAN
  BY <1>2
<1> QED
  BY <1>5, <1>6, <1>7, <1>8

LEMMA RelayInit == Init => RelayInv
<1> SUFFICES ASSUME Init PROVE RelayInv
  OBVIOUS
<1>1. TypeOK
  BY RelayTableSizeAssumption DEF Init, TypeOK, EmptyTable
<1>2. Used(EmptyTable) = {}
  BY DEF Used, EmptyTable
<1>3. Cardinality(Used(EmptyTable)) = 0
  BY <1>2, FS_EmptySet
<1>4. Lines(EmptyTable) = << >>
  BY <1>3 DEF Lines
<1> QED
  BY <1>1, <1>4 DEF RelayInv, FileHoldsTheRules, Init

LEMMA RelayStep ==
  ASSUME RelayInv, Next
  PROVE  RelayInv'
<1> USE DEF RelayInv
<1>1. TableOK
  BY DEF TypeOK, TableOK
<1>2. TableOK'
  <2>1. CASE Operator
    BY <1>1, <2>1, OperatorStep
  <2>2. CASE CommandReceived \/ DeviceJoins \/ DeviceLeaves \/ TableCleared
    BY <1>1, <2>2, KeptStep DEF CommandReceived, DeviceJoins, DeviceLeaves, TableCleared
  <2>3. CASE Restart
    BY <1>1, <2>3, LoadStep DEF Restart
  <2> QED
    BY <2>1, <2>2, <2>3 DEF Next
<1>3. known' \subseteq Devices
  BY DEF Next, Operator, CommandReceived, DeviceJoins, DeviceLeaves, TableCleared,
         Restart, TypeOK
<1>4. /\ running' \in BOOLEAN
      /\ \A f \in forwarded' : f.sender \in Devices /\ f.rule \in Rules
  <2>1. CASE CommandReceived
    BY <2>1, CommandStep
  <2>2. CASE Operator \/ DeviceJoins \/ DeviceLeaves \/ TableCleared \/ Restart
    <3>1. forwarded' = {}
      BY <2>2 DEF Operator, DeviceJoins, DeviceLeaves, TableCleared, Restart
    <3>2. running' \in BOOLEAN
      BY <2>2 DEF Operator, DeviceJoins, DeviceLeaves, TableCleared, Restart, TypeOK
    <3> QED
      BY <3>1, <3>2
  <2> QED
    BY <2>1, <2>2 DEF Next
<1>5. TypeOK' /\ FileHoldsTheRules'
  BY <1>2, <1>3, <1>4 DEF TableOK, TypeOK
<1> QED
  BY <1>5

LEMMA RelayStutter ==
  ASSUME RelayInv, UNCHANGED vars
  PROVE  RelayInv'
BY DEF RelayInv, TypeOK, FileHoldsTheRules, vars

\* A restart reads what the last save wrote.
LEMMA RestartStep ==
  ASSUME RelayInv, Restart
  PROVE  Lines(relayTable') = Lines(relayTable)
<1>1. relayTable' = Loaded(relayFile)
  BY DEF Restart, Load
<1>2. Lines(Loaded(relayFile)) = relayFile
  BY LinesOfLoaded DEF RelayInv, TypeOK
<1> QED
  BY <1>1, <1>2 DEF RelayInv, FileHoldsTheRules

-----------------------------------------------------------------------------
(* The relay by itself *)

LEMMA RelayInvariant == Spec => []RelayInv
<1>1. RelayInv /\ [Next]_vars => RelayInv'
  BY RelayStep, RelayStutter
<1> QED
  BY RelayInit, <1>1, PTL DEF Spec

\* Every variable of the relay keeps its type, and the file its bound.
THEOREM RelayTypeCorrect == Spec => []TypeOK
<1>1. RelayInv => TypeOK
  BY DEF RelayInv
<1> QED
  BY RelayInvariant, <1>1, PTL

\* command-relay.txt holds the rules of the table at every moment.
THEOREM RulesAreSaved == Spec => []FileHoldsTheRules
<1>1. RelayInv => FileHoldsTheRules
  BY DEF RelayInv
<1> QED
  BY RelayInvariant, <1>1, PTL
-----------------------------------------------------------------------------
(* The rules of the relay *)

\* To the relay, a step is one of its own, or nothing but the end of a
\* command that forwards nothing, and perhaps of the program.
LEMMA GatewaySteps ==
  ASSUME [GatewayNext]_gatewayVars
  PROVE  \/ Next
         \/ /\ UNCHANGED <<relayTable, relayFile, known>>
            /\ UNCHANGED running \/ running' = FALSE
            /\ forwarded' = {} \/ UNCHANGED forwarded
<1>1. CASE UNCHANGED gatewayVars
  BY <1>1 DEF gatewayVars, vars
<1>2. CASE ZclGlobalDirection \/ Builder \/ ZclSend \/ ZclSendNothing
  <2>1. \E f \in commandArray : Executed(f)
    BY <1>2 DEF ZclGlobalDirection, Builder, ZclSend, ZclSendNothing, ZclGlobalRead,
                ZclGlobalWrite, ZclGlobalSendMeAReport, ZclOnOff,
                ZclOnAndMoveToLevel, ZclMoveToColorTemp, ZclMoveToHueAndSat,
                ZclGroup, Executed, Called
  <2> QED
    BY <2>1 DEF Executed
<1>3. CASE FrameworkCommand
  BY <1>3 DEF FrameworkCommand
<1>4. CASE RulesCommand
  BY <1>4 DEF RulesCommand, Next
<1>5. CASE DeviceTableClear
  BY <1>5 DEF DeviceTableClear, Next
<1>6. CASE Elsewhere
  BY <1>6 DEF Elsewhere, Next
<1>7. CASE Restarted
  BY <1>7 DEF Restarted, Next
<1>8. CASE CommandLineBuilds \/ CommandLineSends
  BY <1>8 DEF CommandLineBuilds, CommandLineSends
<1> QED
  BY <1>1, <1>2, <1>3, <1>4, <1>5, <1>6, <1>7, <1>8 DEF GatewayNext

LEMMA GatewayRelayStep ==
  ASSUME RelayInv, [GatewayNext]_gatewayVars
  PROVE  RelayInv'
<1>1. CASE Next
  BY <1>1, RelayStep
<1>2. CASE /\ UNCHANGED <<relayTable, relayFile, known>>
           /\ UNCHANGED running \/ running' = FALSE
           /\ forwarded' = {} \/ UNCHANGED forwarded
  <2>1. UNCHANGED <<relayTable, relayFile, known>>
    BY <1>2
  <2>2. TypeOK'
    BY <1>2, <2>1 DEF RelayInv, TypeOK
  <2>3. FileHoldsTheRules'
    BY <2>1 DEF RelayInv, FileHoldsTheRules
  <2> QED
    BY <2>2, <2>3 DEF RelayInv
<1> QED
  BY <1>1, <1>2, GatewaySteps

LEMMA GatewayRelayInvariant == GatewaySpec => []RelayInv
<1>1. GatewayInit => RelayInv
  BY RelayInit DEF GatewayInit
<1>2. RelayInv /\ [GatewayNext]_gatewayVars => RelayInv'
  BY GatewayRelayStep
<1> QED
  BY <1>1, <1>2, PTL DEF GatewaySpec

\* Every variable of the relay keeps its type, whatever the server commands.
THEOREM RelayTypeKept == GatewaySpec => []TypeOK
<1>1. RelayInv => TypeOK
  BY DEF RelayInv
<1> QED
  BY GatewayRelayInvariant, <1>1, PTL

\* command-relay.txt holds the rules of the table after every command of the
\* server, event of the network and restart.
THEOREM FileKeepsTheRules == GatewaySpec => []FileHoldsTheRules
<1>1. RelayInv => FileHoldsTheRules
  BY DEF RelayInv
<1> QED
  BY GatewayRelayInvariant, <1>1, PTL

\* A restart changes neither the rules nor their order.
THEOREM RestartKeepsTheRules == GatewaySpec => RestartKeepsRules
<1>1. RelayInv /\ [GatewayNext]_gatewayVars =>
        [Restart => Lines(relayTable') = Lines(relayTable)]_vars
  BY RestartStep
<1> QED
  BY GatewayRelayInvariant, <1>1, PTL DEF GatewaySpec, RestartKeepsRules

-----------------------------------------------------------------------------
(* The frame under construction *)

Frame == [aps |-> localApsFrame, zcl |-> appZclBuffer]

\* A frame that counts as built has the header of a frame, and it is whole -
\* header and content belong together - unless the command line has built
\* in the buffer since.
FrameInv ==
  /\ zclCmdIsBuilt \in BOOLEAN /\ foreign \in BOOLEAN
  /\ zclFrameControlDirection \in {"toServer", "toClient"}
  /\ appZclBuffer \in ZclFrames \cup {None}
  /\ globalApsFrame \in Headers
  /\ foreign => appZclBuffer # None
  /\ zclCmdIsBuilt => localApsFrame \in Headers
  /\ zclCmdIsBuilt /\ ~foreign => Frame \in Frames

\* The state function of FrameSlot under the mapping.
FrameOfSlot ==
  IF ~zclCmdIsBuilt THEN None
  ELSE [aps |-> localApsFrame, zcl |-> IF foreign THEN None ELSE appZclBuffer]

\* A whole frame in the slot has a content of its own.
LEMMA WholeFrames ==
  ASSUME NEW f \in Frames
  PROVE  /\ f.aps \in Headers /\ f.zcl \in ZclFrames
         /\ f # None /\ f.zcl # None
<1>1. PICK z \in ZclFrames : f = [aps |-> z.cluster, zcl |-> z]
  BY DEF Frames
<1>2. f \in [aps : Headers, zcl : ZclFrames \cup {None}]
  BY <1>1 DEF Headers
<1> QED
  BY <1>1, <1>2, NoneAssumption

\* A frame whose content was overwritten is still one.
LEMMA NoneIsNoRecord ==
  ASSUME NEW header \in Headers, NEW content \in ZclFrames \cup {None}
  PROVE  [aps |-> header, zcl |-> content] # None
BY NoneAssumption

\* A builder leaves the whole of a new frame.
LEMMA BuilderStep ==
  ASSUME FrameInv, Builder
  PROVE  /\ zclCmdIsBuilt' = TRUE /\ foreign' = FALSE
         /\ Frame' \in Frames
         /\ sent' = None
         /\ UNCHANGED <<globalApsFrame, zclFrameControlDirection>>
<1>1. ASSUME NEW z \in ZclFrames, SetApsFrame(z.cluster), Built(z)
      PROVE  /\ zclCmdIsBuilt' = TRUE /\ foreign' = FALSE
             /\ Frame' \in Frames
             /\ sent' = None
             /\ UNCHANGED <<globalApsFrame, zclFrameControlDirection>>
  <2>1. Frame' = [aps |-> z.cluster, zcl |-> z]
    BY <1>1 DEF Frame, SetApsFrame, Built
  <2>2. Frame' \in Frames
    BY <2>1 DEF Frames
  <2> QED
    BY <1>1, <2>2 DEF Built
<1>2. \E z \in ZclFrames : SetApsFrame(z.cluster) /\ Built(z)
  <2>1. CASE ZclGlobalRead
    <3>1. PICK c \in AttributeClusters :
            SetApsFrame(c) /\ Built(Zcl(c, zclFrameControlDirection, "read"))
      BY <2>1 DEF ZclGlobalRead
    <3>2. Zcl(c, zclFrameControlDirection, "read") \in ZclFrames
      BY DEF Zcl, ZclFrames, FrameInv
    <3> QED
      BY <3>1, <3>2 DEF Zcl
  <2>2. CASE ZclGlobalWrite
    <3>1. PICK c \in AttributeClusters, command \in {"write", "write without value"} :
            SetApsFrame(c) /\ Built(Zcl(c, zclFrameControlDirection, command))
      BY <2>2 DEF ZclGlobalWrite
    <3>2. Zcl(c, zclFrameControlDirection, command) \in ZclFrames
      BY DEF Zcl, ZclFrames, FrameInv
    <3> QED
      BY <3>1, <3>2 DEF Zcl
  <2>3. CASE ZclGlobalSendMeAReport
    <3>1. PICK c \in AttributeClusters :
            SetApsFrame(c) /\ Built(Zcl(c, zclFrameControlDirection, "report"))
      BY <2>3 DEF ZclGlobalSendMeAReport
    <3>2. Zcl(c, zclFrameControlDirection, "report") \in ZclFrames
      BY DEF Zcl, ZclFrames, FrameInv
    <3> QED
      BY <3>1, <3>2 DEF Zcl
  <2>4. CASE ZclOnOff
    <3>1. PICK command \in {"on", "off", "toggle"} :
            SetApsFrame("onOff") /\ Built(Zcl("onOff", "toServer", command))
      BY <2>4 DEF ZclOnOff
    <3>2. Zcl("onOff", "toServer", command) \in ZclFrames
      BY DEF ZclFrames
    <3> QED
      BY <3>1, <3>2 DEF Zcl
  <2>5. CASE ZclOnAndMoveToLevel
    <3>1. Zcl("level", "toServer", "move to level with on/off") \in ZclFrames
      BY DEF ZclFrames
    <3> QED
      BY <2>5, <3>1 DEF ZclOnAndMoveToLevel, Zcl
  <2>6. CASE ZclMoveToColorTemp
    <3>1. Zcl("color", "toServer", "move to color temperature") \in ZclFrames
      BY DEF ZclFrames
    <3> QED
      BY <2>6, <3>1 DEF ZclMoveToColorTemp, Zcl
  <2>7. CASE ZclMoveToHueAndSat
    <3>1. Zcl("color", "toServer", "move to hue and saturation") \in ZclFrames
      BY DEF ZclFrames
    <3> QED
      BY <2>7, <3>1 DEF ZclMoveToHueAndSat, Zcl
  <2>8. CASE ZclGroup
    <3>1. PICK third \in DOMAIN GroupCommand :
            /\ SetApsFrame("groups")
            /\ Built(Zcl("groups", "toServer", GroupCommand[third]))
      BY <2>8 DEF ZclGroup
    <3>2. Zcl("groups", "toServer", GroupCommand[third]) \in ZclFrames
      BY DEF ZclFrames
    <3> QED
      BY <3>1, <3>2 DEF Zcl
  <2> QED
    BY <2>1, <2>2, <2>3, <2>4, <2>5, <2>6, <2>7, <2>8 DEF Builder
<1> QED
  BY <1>1, <1>2

\* A send takes the frame away; the device, if any, gets what is in the buffer
\* under the header the frame was built with.
LEMMA SendStep ==
  ASSUME known \subseteq Devices, ZclSend
  PROVE  /\ zclCmdIsBuilt /\ zclCmdIsBuilt' = FALSE
         /\ \/ sent' = None
            \/ sent' \in [by : {"server"}, frame : {Frame}, device : Devices]
         /\ UNCHANGED <<zclFrameControlDirection, globalApsFrame, appZclBuffer, foreign>>
BY DEF ZclSend, Frame, SendUnder

\* The command line leaves the header and the flag of the server alone.
LEMMA CommandLineStep ==
  ASSUME CommandLineBuilds
  PROVE  /\ appZclBuffer' \in ZclFrames /\ globalApsFrame' \in Headers
         /\ foreign' = TRUE /\ sent' = None
         /\ UNCHANGED <<localApsFrame, zclCmdIsBuilt, zclFrameControlDirection>>
<1>1. PICK z \in [cluster : AttributeClusters, direction : {"toServer"},
                  command : {"read"}] :
        globalApsFrame' = z.cluster /\ appZclBuffer' = z
  BY DEF CommandLineBuilds
<1>2. z \in ZclFrames
  BY DEF ZclFrames
<1>3. z.cluster \in Headers
  BY <1>2 DEF Headers
<1> QED
  BY <1>1, <1>2, <1>3 DEF CommandLineBuilds

\* Every other step leaves the frame as it is or drops it.
LEMMA OtherStep ==
  ASSUME ZclGlobalDirection \/ ZclSendNothing \/ FrameworkCommand \/ RulesCommand
           \/ DeviceTableClear \/ Elsewhere \/ Restarted,
         FrameInv
  PROVE  /\ sent' = None
         /\ \/ UNCHANGED <<localApsFrame, appZclBuffer, zclCmdIsBuilt, foreign>>
            \/ zclCmdIsBuilt' = FALSE /\ appZclBuffer' = None /\ foreign' = FALSE
         /\ zclFrameControlDirection' \in {"toServer", "toClient"}
         /\ globalApsFrame' \in Headers
<1>1. CASE ZclGlobalDirection \/ ZclSendNothing \/ FrameworkCommand \/ RulesCommand
             \/ DeviceTableClear
  BY <1>1 DEF ZclGlobalDirection, ZclSendNothing, FrameworkCommand, RulesCommand,
              DeviceTableClear, FrameInv, slot
<1>2. CASE Elsewhere
  BY <1>2 DEF Elsewhere, FrameInv, Headers
<1>3. CASE Restarted
  BY <1>3 DEF Restarted, FrameInv, Headers
<1> QED
  BY <1>1, <1>2, <1>3

LEMMA FrameStep ==
  ASSUME FrameInv, known \subseteq Devices, [GatewayNext]_gatewayVars
  PROVE  FrameInv' /\ [Slot!Next]_<<FrameOfSlot, sent>>
<1>1. CASE Builder
  <2>1. /\ zclCmdIsBuilt' = TRUE /\ foreign' = FALSE
        /\ Frame' \in Frames
        /\ sent' = None
        /\ UNCHANGED <<globalApsFrame, zclFrameControlDirection>>
    BY <1>1, BuilderStep
  <2>2. FrameOfSlot' = Frame'
    BY <2>1 DEF FrameOfSlot, Frame
  <2>3. appZclBuffer' = Frame'.zcl /\ localApsFrame' = Frame'.aps
    BY DEF Frame
  <2>4. FrameInv'
    BY <2>1, <2>3, WholeFrames DEF FrameInv
  <2>5. Slot!Build
    BY <2>1, <2>2 DEF Slot!Build, FrameOfSlot
  <2> QED
    BY <2>4, <2>5 DEF Slot!Next
<1>2. CASE ZclSend
  <2>1. /\ zclCmdIsBuilt /\ zclCmdIsBuilt' = FALSE
        /\ \/ sent' = None
           \/ sent' \in [by : {"server"}, frame : {Frame}, device : Devices]
        /\ UNCHANGED <<zclFrameControlDirection, globalApsFrame, appZclBuffer, foreign>>
    BY <1>2, SendStep
  <2>2. FrameInv'
    BY <2>1 DEF FrameInv
  <2>3. FrameOfSlot' = None
    BY <2>1 DEF FrameOfSlot
  <2>4. CASE sent' = None
    BY <2>2, <2>3, <2>4 DEF Slot!Next, Slot!Drop, FrameOfSlot
  <2>5. CASE sent' # None /\ ~foreign
    <3>1. FrameOfSlot = Frame /\ Frame \in Frames
      BY <2>1, <2>5 DEF FrameOfSlot, Frame, FrameInv
    <3>2. Slot!Send
      BY <2>1, <2>3, <2>5, <3>1, WholeFrames DEF Slot!Send, Slot!Sent, FrameOfSlot
    <3> QED
      BY <2>2, <3>2 DEF Slot!Next
  <2>6. CASE sent' # None /\ foreign
    <3>1. FrameOfSlot = [aps |-> localApsFrame, zcl |-> None]
      BY <2>1, <2>6 DEF FrameOfSlot
    <3>2. FrameOfSlot # None
      BY <2>1, <3>1, NoneIsNoRecord DEF FrameInv
    <3>3. Frame \in [aps : {FrameOfSlot.aps}, zcl : ZclFrames]
      BY <2>6, <3>1 DEF Frame, FrameInv
    <3>4. Slot!SendMixed
      BY <2>1, <2>3, <2>6, <3>1, <3>2, <3>3 DEF Slot!SendMixed, Slot!Sent, FrameOfSlot
    <3> QED
      BY <2>2, <3>4 DEF Slot!Next
  <2> QED
    BY <2>4, <2>5, <2>6 DEF FrameInv
<1>3. CASE ZclGlobalDirection \/ ZclSendNothing \/ FrameworkCommand \/ RulesCommand
             \/ DeviceTableClear \/ Elsewhere \/ Restarted
  <2>1. /\ sent' = None
        /\ \/ UNCHANGED <<localApsFrame, appZclBuffer, zclCmdIsBuilt, foreign>>
           \/ zclCmdIsBuilt' = FALSE /\ appZclBuffer' = None /\ foreign' = FALSE
        /\ zclFrameControlDirection' \in {"toServer", "toClient"}
        /\ globalApsFrame' \in Headers
    BY <1>3, OtherStep
  <2>2. CASE UNCHANGED <<localApsFrame, appZclBuffer, zclCmdIsBuilt, foreign>>
    <3>1. FrameInv'
      BY <2>1, <2>2 DEF FrameInv, Frame
    <3>2. FrameOfSlot' = FrameOfSlot
      BY <2>2 DEF FrameOfSlot
    <3>3. Slot!Other
      BY <2>1, <3>2 DEF Slot!Other, FrameOfSlot
    <3> QED
      BY <3>1, <3>3 DEF Slot!Next
  <2>3. CASE zclCmdIsBuilt' = FALSE /\ appZclBuffer' = None /\ foreign' = FALSE
    <3>1. FrameInv'
      BY <2>1, <2>3 DEF FrameInv
    <3>2. Slot!Drop
      BY <2>1, <2>3 DEF Slot!Drop
    <3> QED
      BY <3>1, <3>2 DEF Slot!Next
  <2> QED
    BY <2>1, <2>2, <2>3
<1>4. CASE CommandLineBuilds
  <2>1. /\ appZclBuffer' \in ZclFrames /\ globalApsFrame' \in Headers
        /\ foreign' = TRUE /\ sent' = None
        /\ UNCHANGED <<localApsFrame, zclCmdIsBuilt, zclFrameControlDirection>>
    BY <1>4, CommandLineStep
  <2>2. FrameInv'
    BY <2>1, NoneAssumption DEF FrameInv
  <2>3. FrameOfSlot' = IF FrameOfSlot = None THEN None
                       ELSE [FrameOfSlot EXCEPT !.zcl = None]
    <3>1. CASE zclCmdIsBuilt
      <4>1. FrameOfSlot # None
        BY <3>1, NoneIsNoRecord DEF FrameOfSlot, FrameInv
      <4> QED
        BY <2>1, <3>1, <4>1 DEF FrameOfSlot
    <3>2. CASE ~zclCmdIsBuilt
      BY <2>1, <3>2 DEF FrameOfSlot
    <3> QED
      BY <3>1, <3>2
  <2>4. Slot!CommandLineBuilds
    BY <2>1, <2>3 DEF Slot!CommandLineBuilds, FrameOfSlot
  <2> QED
    BY <2>2, <2>4 DEF Slot!Next
<1>5. CASE CommandLineSends
  <2>1. UNCHANGED <<zclFrameControlDirection, slot>>
    BY <1>5 DEF CommandLineSends
  <2>2. FrameInv' /\ FrameOfSlot' = FrameOfSlot
    BY <2>1 DEF FrameInv, FrameOfSlot, Frame, slot
  <2>3. \/ sent' = None
        \/ sent' \in [by : {"command line"}, device : Devices,
                      frame : [aps : Headers, zcl : ZclFrames \cup {None}]]
    <3>1. ASSUME NEW device \in known,
                 SendUnder(globalApsFrame, "command line", device)
          PROVE  sent' \in [by : {"command line"}, device : Devices,
                            frame : [aps : Headers, zcl : ZclFrames \cup {None}]]
      <4>1. [aps |-> globalApsFrame, zcl |-> appZclBuffer]
              \in [aps : Headers, zcl : ZclFrames \cup {None}]
        BY DEF FrameInv
      <4>2. device \in Devices
        OBVIOUS
      <4> QED
        BY <3>1, <4>1, <4>2 DEF SendUnder
    <3> QED
      BY <1>5, <3>1 DEF CommandLineSends
  <2>4. CASE sent' = None
    BY <2>2, <2>4 DEF Slot!Next, Slot!Other, FrameOfSlot
  <2>5. CASE sent' # None
    <3>1. Slot!CommandLineSends
      BY <2>2, <2>3, <2>5 DEF Slot!CommandLineSends, Slot!Sent, FrameOfSlot
    <3> QED
      BY <2>2, <3>1 DEF Slot!Next
  <2> QED
    BY <2>4, <2>5
<1>6. CASE UNCHANGED gatewayVars
  BY <1>6 DEF gatewayVars, slot, FrameInv, Frame, FrameOfSlot
<1> QED
  BY <1>1, <1>2, <1>3, <1>4, <1>5, <1>6 DEF GatewayNext

\* Whatever commands, restarts, joins and uses of the command line come one
\* after the other, what the server sends goes out once, under the cluster it
\* was built for, and whole unless the command line has built since; the
\* command line's sends leave the slot alone.
THEOREM GatewayImplementsFrameSlot == GatewaySpec => ImplementsFrameSlot
<1>1. GatewayInit => FrameInv /\ Slot!Init
  BY DEF GatewayInit, FrameInv, Slot!Init, Headers
<1>2. FrameInv /\ TypeOK /\ [GatewayNext]_gatewayVars =>
        FrameInv' /\ [Slot!Next]_<<FrameOfSlot, sent>>
  BY FrameStep DEF TypeOK
<1> QED
  BY <1>1, <1>2, RelayTypeKept, PTL
     DEF GatewaySpec, ImplementsFrameSlot, Slot!Spec, FrameOfSlot
-----------------------------------------------------------------------------
(* The names of the commands.  The names are sequences of two to four      *)
(* words; the proof writes every one of them out, reads "begins with" off  *)
(* the words, and finds that the first three already tell the commands     *)
(* apart, but for a name that goes on where another one ends.              *)

LEMMA ConcatenatedWords ==
  /\ \A a, b, c : <<a, b>> \o <<c>> = <<a, b, c>>
  /\ \A a, b, c, d : <<a, b, c>> \o <<d>> = <<a, b, c, d>>
<1>1. ASSUME NEW a, NEW b, NEW c
      PROVE  <<a, b>> \o <<c>> = <<a, b, c>>
  <2> DEFINE W == {a, b, c}
  <2>1. <<a, b>> \in Seq(W) /\ <<c>> \in Seq(W) /\ <<a, b, c>> \in Seq(W)
    OBVIOUS
  <2>2. /\ <<a, b>> \o <<c>> \in Seq(W)
        /\ Len(<<a, b>> \o <<c>>) = 3
        /\ \A i \in 1 .. 3 : (<<a, b>> \o <<c>>)[i] = <<a, b, c>>[i]
    BY <2>1, ConcatProperties
  <2> HIDE DEF W
  <2> QED
    BY <2>1, <2>2, SeqEqual
<1>2. ASSUME NEW a, NEW b, NEW c, NEW d
      PROVE  <<a, b, c>> \o <<d>> = <<a, b, c, d>>
  <2> DEFINE W == {a, b, c, d}
  <2>1. <<a, b, c>> \in Seq(W) /\ <<d>> \in Seq(W) /\ <<a, b, c, d>> \in Seq(W)
    OBVIOUS
  <2>2. /\ <<a, b, c>> \o <<d>> \in Seq(W)
        /\ Len(<<a, b, c>> \o <<d>>) = 4
        /\ \A i \in 1 .. 4 : (<<a, b, c>> \o <<d>>)[i] = <<a, b, c, d>>[i]
    BY <2>1, ConcatProperties
  <2> HIDE DEF W
  <2> QED
    BY <2>1, <2>2, SeqEqual
<1> QED
  BY <1>1, <1>2

\* Every name, written out.
LEMMA NamesInWords ==
  /\ CommandString["StartNetwork"] = <<"plugin", "network-creator", "start">>
  /\ CommandString["StartNetworkWithParameters"]
       = <<"plugin", "network-creator", "form">>
  /\ CommandString["OpenNetwork"]
       = <<"plugin", "network-creator-security", "open-network">>
  /\ CommandString["CloseNetwork"]
       = <<"plugin", "network-creator-security", "close-network">>
  /\ CommandString["SetJoiningKey"]
       = <<"plugin", "network-creator-security", "set-joining-link-key">>
  /\ CommandString["ClearJoiningKeys"]
       = <<"plugin", "network-creator-security", "clear-joining-link-keys">>
  /\ CommandString["OpenWithKey"]
       = <<"plugin", "network-creator-security", "open-with-key">>
  /\ CommandString["ZclSend"] = <<"plugin", "device-table", "send">>
  /\ CommandString["DeviceTableClear"] = <<"plugin", "device-table", "clear">>
  /\ CommandString["CommandRelayAdd"] = <<"plugin", "command-relay", "add">>
  /\ CommandString["CommandRelayRemove"]
       = <<"plugin", "command-relay", "remove">>
  /\ CommandString["CommandRelayClear"] = <<"plugin", "command-relay", "clear">>
  /\ CommandString["OtaStorageCommonReload"]
       = <<"plugin", "ota-storage-common", "reload">>
  /\ CommandString["OtaServerPolicyQuery"]
       = <<"plugin", "ota-server", "policy", "query">>
  /\ CommandString["OtaServerNotify"] = <<"plugin", "ota-server", "notify">>
  /\ CommandString["IasZoneClientClearAll"]
       = <<"plugin", "ias-zone-client", "clear-all">>
  /\ CommandString["ZdoLeave"] = <<"zdo", "leave">>
  /\ CommandString["ZdoBind"] = <<"zdo", "bind">>
  /\ CommandString["NetworkBoardPjoin"] = <<"network", "broad-pjoin">>
  /\ CommandString["NetworkLeave"] = <<"network", "leave">>
  /\ CommandString["NetworkForm"] = <<"network", "form">>
  /\ CommandString["ZclGlobalDirection"] = <<"zcl", "global", "direction">>
  /\ CommandString["ZclGlobalRead"] = <<"zcl", "global", "read">>
  /\ CommandString["ZclGlobalWrite"] = <<"zcl", "global", "write">>
  /\ CommandString["ZclOnOff"] = <<"zcl", "on-off">>
  /\ CommandString["ZclOnAndMoveToLevel"]
       = <<"zcl", "level-control", "o-mv-to-level">>
  /\ CommandString["ZclMoveToColorTemp"]
       = <<"zcl", "color-control", "movetocolortemp">>
  /\ CommandString["ZclMoveToHueAndSat"]
       = <<"zcl", "color-control", "movetohueandsat">>
  /\ CommandString["ZclGlobalSendMeAReport"]
       = <<"zcl", "global", "send-me-a-report">>
  /\ CommandString["ZclGroup"] = <<"zcl", "groups">>
  /\ CommandString["AllowRejoin"]
       = <<"option", "security",
           "set-allow-trust-center-rejoin-using-well-known-key">>
  /\ CommandString["SetRejoinTimeout"]
       = <<"option", "security",
           "set-allow-trust-center-rejoin-using-well-known-key", "-timeout">>
  BY ConcatenatedWords DEF CommandString, Creator, Security, Rejoin

LEMMA CommandArrayElements ==
  commandArray = {
    "StartNetwork", "StartNetworkWithParameters", "OpenNetwork",
    "CloseNetwork", "SetJoiningKey", "ClearJoiningKeys", "OpenWithKey",
    "ZclSend", "DeviceTableClear", "CommandRelayAdd",
    "CommandRelayRemove", "CommandRelayClear", "OtaStorageCommonReload",
    "OtaServerPolicyQuery", "OtaServerNotify", "IasZoneClientClearAll",
    "ZdoLeave", "ZdoBind", "NetworkBoardPjoin", "NetworkLeave",
    "NetworkForm", "ZclGlobalDirection", "ZclGlobalRead",
    "ZclGlobalWrite", "ZclOnOff", "ZclOnAndMoveToLevel",
    "ZclMoveToColorTemp", "ZclMoveToHueAndSat", "ZclGlobalSendMeAReport",
    "ZclGroup", "AllowRejoin", "SetRejoinTimeout"}
  BY DEF commandArray, CommandString

LEMMA PrefixOfSequence ==
  ASSUME NEW W, NEW s \in Seq(W), NEW t \in Seq(W)
  PROVE  StartsWith(s, t) <=> /\ Len(t) <= Len(s)
                              /\ \A i \in 1 .. Len(t) : s[i] = t[i]
<1>1. CASE Len(t) <= Len(s)
  <2>1. /\ SubSeq(s, 1, Len(t)) \in Seq(W)
        /\ Len(SubSeq(s, 1, Len(t))) = Len(t)
        /\ \A i \in 1 .. Len(t) : SubSeq(s, 1, Len(t))[i] = s[i]
    BY <1>1
  <2> QED
    BY <1>1, <2>1, SeqEqual DEF StartsWith
<1>2. CASE ~(Len(t) <= Len(s))
  BY <1>2 DEF StartsWith
<1> QED
  BY <1>1, <1>2

LEMMA PrefixOfWords ==
  ASSUME NEW W, NEW s \in Seq(W), NEW t \in Seq(W),
         Len(s) \in 2 .. 4, Len(t) \in 2 .. 4
  PROVE  StartsWith(s, t) <=>
           /\ Len(t) <= Len(s)
           /\ s[1] = t[1] /\ s[2] = t[2]
           /\ Len(t) \in 3 .. 4 => s[3] = t[3]
           /\ Len(t) = 4 => s[4] = t[4]
<1>1. (\A i \in 1 .. Len(t) : s[i] = t[i]) <=>
        /\ s[1] = t[1] /\ s[2] = t[2]
        /\ Len(t) \in 3 .. 4 => s[3] = t[3]
        /\ Len(t) = 4 => s[4] = t[4]
  <2>1. CASE Len(t) = 2
    BY <2>1
  <2>2. CASE Len(t) = 3
    BY <2>2
  <2>3. CASE Len(t) = 4
    BY <2>3
  <2>4. Len(t) \in {2, 3, 4}
    OBVIOUS
  <2> QED
    BY <2>1, <2>2, <2>3, <2>4
<1>2. StartsWith(s, t) <=> /\ Len(t) <= Len(s)
                           /\ \A i \in 1 .. Len(t) : s[i] = t[i]
  BY PrefixOfSequence
<1> QED
  BY <1>1, <1>2

TupleOfWords(W) ==
  \A a, b, c, d \in W :
    /\ <<a, b>> \in Seq(W) /\ Len(<<a, b>>) = 2
    /\ <<a, b, c>> \in Seq(W) /\ Len(<<a, b, c>>) = 3
    /\ <<a, b, c, d>> \in Seq(W) /\ Len(<<a, b, c, d>>) = 4

NamesOfTwo  == {"ZdoLeave", "ZdoBind", "NetworkBoardPjoin", "NetworkLeave",
                "NetworkForm", "ZclOnOff", "ZclGroup"}
NamesOfFour == {"OtaServerPolicyQuery", "SetRejoinTimeout"}

Words == {CommandString[f][i] : f \in commandArray, i \in 1 .. 4}

LEMMA NamesAreSequences ==
  ASSUME NEW f \in commandArray
  PROVE  /\ CommandString[f] \in Seq(Words)
         /\ f \in NamesOfTwo => Len(CommandString[f]) = 2
         /\ f \in NamesOfFour => Len(CommandString[f]) = 4
         /\ f \notin NamesOfTwo \cup NamesOfFour => Len(CommandString[f]) = 3
<1> DEFINE cs == CommandString[f]
<1>1. cs[1] \in Words /\ cs[2] \in Words /\ cs[3] \in Words /\ cs[4] \in Words
  BY DEF Words
<1>2. /\ f \in NamesOfTwo => cs = <<cs[1], cs[2]>>
      /\ f \in NamesOfFour => cs = <<cs[1], cs[2], cs[3], cs[4]>>
      /\ f \notin NamesOfTwo \cup NamesOfFour => cs = <<cs[1], cs[2], cs[3]>>
  BY CommandArrayElements, NamesInWords DEF NamesOfTwo, NamesOfFour
<1>3. TupleOfWords(Words)
  BY DEF TupleOfWords
<1>4. NamesOfTwo \cap NamesOfFour = {}
  BY DEF NamesOfTwo, NamesOfFour
<1> HIDE DEF cs
<1>5. CASE f \in NamesOfTwo
  <2>1. cs = <<cs[1], cs[2]>>
    BY <1>2, <1>5
  <2>2. <<cs[1], cs[2]>> \in Seq(Words) /\ Len(<<cs[1], cs[2]>>) = 2
    BY <1>1, <1>3 DEF TupleOfWords
  <2>3. cs \in Seq(Words) /\ Len(cs) = 2
    BY <2>1, <2>2
  <2> QED
    BY <1>4, <1>5, <2>3 DEF cs
<1>6. CASE f \in NamesOfFour
  <2>1. cs = <<cs[1], cs[2], cs[3], cs[4]>>
    BY <1>2, <1>6
  <2>2. <<cs[1], cs[2], cs[3], cs[4]>> \in Seq(Words) /\ Len(<<cs[1], cs[2], cs[3], cs[4]>>) = 4
    BY <1>1, <1>3 DEF TupleOfWords
  <2>3. cs \in Seq(Words) /\ Len(cs) = 4
    BY <2>1, <2>2
  <2> QED
    BY <1>4, <1>6, <2>3 DEF cs
<1>7. CASE f \notin NamesOfTwo \cup NamesOfFour
  <2>1. cs = <<cs[1], cs[2], cs[3]>>
    BY <1>2, <1>7
  <2>2. <<cs[1], cs[2], cs[3]>> \in Seq(Words) /\ Len(<<cs[1], cs[2], cs[3]>>) = 3
    BY <1>1, <1>3 DEF TupleOfWords
  <2>3. cs \in Seq(Words) /\ Len(cs) = 3
    BY <2>1, <2>2
  <2> QED
    BY <1>4, <1>7, <2>3 DEF cs
<1> QED
  BY <1>5, <1>6, <1>7

LEMMA OnePrefix ==
  ASSUME NEW f \in commandArray, NEW g \in commandArray
  PROVE  StartsWith(CommandString[f], CommandString[g])
           <=> f = g \/ (f = "SetRejoinTimeout" /\ g = "AllowRejoin")
<1> DEFINE s == CommandString[f]
           t == CommandString[g]
<1>1. StartsWith(s, t) <=>
        /\ Len(t) <= Len(s)
        /\ s[1] = t[1] /\ s[2] = t[2]
        /\ Len(t) \in 3 .. 4 => s[3] = t[3]
        /\ Len(t) = 4 => s[4] = t[4]
  BY NamesAreSequences, PrefixOfWords
<1>2. ASSUME StartsWith(s, t), f # g
      PROVE  f = "SetRejoinTimeout" /\ g = "AllowRejoin"
  <2>1. CASE g \in NamesOfTwo
    <3>1. s[1] = t[1] /\ s[2] = t[2]
      BY <1>1, <1>2
    <3> QED
      BY <1>2, <2>1, <3>1, CommandArrayElements, NamesInWords DEF NamesOfTwo
  <2>2. CASE g \notin NamesOfTwo /\ f \notin NamesOfTwo
    <3>1. s[1] = t[1] /\ s[2] = t[2] /\ s[3] = t[3]
      BY <1>1, <1>2, <2>2, NamesAreSequences
    <3>2. {f, g} \subseteq {"AllowRejoin", "SetRejoinTimeout"}
      BY <1>2, <2>2, <3>1, CommandArrayElements, NamesInWords DEF NamesOfTwo
    <3> QED
      BY <1>1, <1>2, <3>2, NamesAreSequences DEF NamesOfTwo, NamesOfFour
  <2>3. CASE g \notin NamesOfTwo /\ f \in NamesOfTwo
    BY <1>1, <1>2, <2>3, NamesAreSequences
  <2> QED
    BY <2>1, <2>2, <2>3
<1>3. f = g => StartsWith(s, t)
  BY <1>1, NamesAreSequences
<1>4. CASE f = "SetRejoinTimeout" /\ g = "AllowRejoin"
  <2>1. Len(s) = 4 /\ Len(t) = 3
    BY <1>4, NamesAreSequences DEF NamesOfTwo, NamesOfFour
  <2>2. s[1] = t[1] /\ s[2] = t[2] /\ s[3] = t[3]
    BY <1>4, NamesInWords
  <2> QED
    BY <1>1, <1>4, <2>1, <2>2
<1> QED
  BY <1>2, <1>3, <1>4

(***************************************************************************)
(* Every command but one has a name that calls its own function alone, and *)
(* the time-out of rejoins calls exactly two, whatever the state: the      *)
(* dispatcher compares prefixes and calls every match.                     *)
(***************************************************************************)
THEOREM NamesAreUnambiguous == GatewaySpec => []OneEntryEach
<1>1. ASSUME NEW f \in commandArray
      PROVE  Dispatch(CommandString[f]) =
               IF f = "SetRejoinTimeout" THEN {f, "AllowRejoin"} ELSE {f}
  <2>1. "AllowRejoin" \in commandArray
    BY CommandArrayElements
  <2> QED
    BY <2>1, OnePrefix DEF Dispatch
<1>2. OneEntryEach
  BY <1>1 DEF OneEntryEach, NamesAreDistinct
<1> QED
  BY <1>2, PTL
=============================================================================
