------------------------- MODULE DeviceTableLemmas -------------------------
(***************************************************************************)
(* What the operators of DeviceTableOps return, for every value of the     *)
(* constants: the look-ups, the image written to devices.txt and the       *)
(* operations on the queue of discovery tasks.                             *)
(***************************************************************************)
EXTENDS DeviceTableOps, FiniteSetTheorems, SequenceTheorems,
        WellFoundedInduction, TLAPS

-----------------------------------------------------------------------------
(* Look-ups *)

\* The least-number principle, from the well-foundedness of strict inclusion
\* on the initial segments of the naturals.
LEMMA NatSetHasMinimum ==
  ASSUME NEW S \in SUBSET Nat, S # {}
  PROVE  \E i \in S : \A j \in S : i <= j
<1> DEFINE T == {0 .. i : i \in S}
<1>1. T \subseteq FiniteSubsetsOf(Nat)
  <2>1. ASSUME NEW i \in S PROVE 0 .. i \in FiniteSubsetsOf(Nat)
    <3>1. IsFiniteSet(0 .. i)
      BY FS_Interval
    <3> QED
      BY <3>1 DEF FiniteSubsetsOf
  <2> QED
    BY <2>1
<1>2. T # {}
  OBVIOUS
<1>3. PICK x \in T : \A y \in T : ~ (<<y, x>> \in StrictSubsetOrdering(Nat))
  <2> HIDE DEF T
  <2> QED
    BY <1>1, <1>2, FS_StrictSubsetOrderingWellFounded, WFMin
<1>4. PICK i \in S : x = 0 .. i
  BY <1>3
<1>5. ASSUME NEW j \in S, j < i PROVE FALSE
  <2>1. 0 .. j \in T
    OBVIOUS
  <2>2. 0 .. j \subseteq 0 .. i /\ i \in 0 .. i /\ i \notin 0 .. j
    BY <1>5
  <2>3. 0 .. j \in SUBSET Nat /\ 0 .. i \in SUBSET Nat
    OBVIOUS
  <2> QED
    BY <1>3, <1>4, <2>1, <2>2, <2>3 DEF StrictSubsetOrdering
<1> QED
  BY <1>5

\* A linear search returns the first match, or no index if nothing matches.
LEMMA FirstOfProperties ==
  ASSUME NEW S \in SUBSET Idx
  PROVE  /\ S = {} => FirstOf(S) = NullIndex
         /\ S # {} => FirstOf(S) \in S /\ \A j \in S : FirstOf(S) <= j
         /\ FirstOf(S) # NullIndex => FirstOf(S) \in S
<1>1. NullIndex \notin Idx
  BY SizesAssumption DEF Idx, NullIndex
<1>2. ASSUME S # {}
      PROVE  FirstOf(S) \in S /\ \A j \in S : FirstOf(S) <= j
  <2>1. \E i \in S : \A j \in S : i <= j
    BY <1>2, NatSetHasMinimum DEF Idx
  <2> QED
    BY <1>2, <2>1 DEF FirstOf
<1> QED
  BY <1>1, <1>2 DEF FirstOf

-----------------------------------------------------------------------------
(* Operations on the table *)

LEMMA EmptyTableType == EmptyTable \in [Idx -> Entries]
  BY SizesAssumption
     DEF EmptyTable, NullEntry, Entries, Endpoints, UnknownEndpoint,
         DeviceStates, StateNull

\* The table operations return tables; a slot they touch is set to what the
\* operation sets it to, every other slot keeps its entry.
LEMMA DeleteEntryProperties ==
  ASSUME NEW t \in [Idx -> Entries], NEW i
  PROVE  /\ DeleteEntry(t, i) \in [Idx -> Entries]
         /\ \A j \in Idx :
              DeleteEntry(t, i)[j] =
                IF i \in Idx /\ j >= i /\ t[j].eui64 = t[i].eui64
                THEN NullEntry ELSE t[j]
<1>1. NullEntry \in Entries
  BY SizesAssumption
     DEF NullEntry, Entries, Endpoints, UnknownEndpoint, DeviceStates, StateNull
<1> QED
  BY <1>1 DEF DeleteEntry, SameDeviceFrom

LEMMA UpdateNodeIdProperties ==
  ASSUME NEW t \in [Idx -> Entries], NEW old, NEW new \in NodeIds
  PROVE  LET i == IndexFromNodeId(t, old)
             u == UpdateNodeId(t, old, new)
         IN  /\ u \in [Idx -> Entries]
             /\ \A j \in Idx :
                  /\ u[j].eui64 = t[j].eui64
                  /\ u[j].endpoint = t[j].endpoint
                  /\ u[j].nodeId =
                       IF i \in Idx /\ j >= i /\ t[j].eui64 = t[i].eui64
                       THEN new ELSE t[j].nodeId
<1> DEFINE i == IndexFromNodeId(t, old)
<1>1. ASSUME NEW j \in Idx
      PROVE  /\ [t[j] EXCEPT !.nodeId = new] \in Entries
             /\ [t[j] EXCEPT !.nodeId = new].nodeId = new
             /\ [t[j] EXCEPT !.nodeId = new].eui64 = t[j].eui64
             /\ [t[j] EXCEPT !.nodeId = new].endpoint = t[j].endpoint
  <2>1. t[j] \in Entries
    OBVIOUS
  <2> QED
    BY <2>1 DEF Entries
<1>2. UpdateNodeId(t, old, new) =
        [j \in Idx |-> IF i \in Idx /\ j >= i /\ t[j].eui64 = t[i].eui64
                       THEN [t[j] EXCEPT !.nodeId = new] ELSE t[j]]
  BY DEF UpdateNodeId, SameDeviceFrom
<1> HIDE DEF i
<1>3. UpdateNodeId(t, old, new) \in [Idx -> Entries]
  BY <1>1, <1>2
<1>4. ASSUME NEW j \in Idx
      PROVE  /\ UpdateNodeId(t, old, new)[j].eui64 = t[j].eui64
             /\ UpdateNodeId(t, old, new)[j].endpoint = t[j].endpoint
             /\ UpdateNodeId(t, old, new)[j].nodeId =
                  IF i \in Idx /\ j >= i /\ t[j].eui64 = t[i].eui64
                  THEN new ELSE t[j].nodeId
  BY <1>1, <1>2
<1> QED
  BY <1>3, <1>4 DEF i

LEMMA UpdateDeviceStateProperties ==
  ASSUME NEW t \in [Idx -> Entries], NEW i, NEW s \in DeviceStates
  PROVE  /\ UpdateDeviceState(t, i, s) \in [Idx -> Entries]
         /\ \A j \in Idx :
              RecordOf(UpdateDeviceState(t, i, s)[j]) = RecordOf(t[j])
<1>1. ASSUME NEW j \in Idx
      PROVE  /\ [t[j] EXCEPT !.state = s] \in Entries
             /\ RecordOf([t[j] EXCEPT !.state = s]) = RecordOf(t[j])
  <2>1. t[j] \in Entries
    OBVIOUS
  <2> QED
    BY <2>1 DEF Entries, RecordOf
<1>2. \A j \in Idx :
        \/ UpdateDeviceState(t, i, s)[j] = t[j]
        \/ UpdateDeviceState(t, i, s)[j] = [t[j] EXCEPT !.state = s]
  BY DEF UpdateDeviceState
<1>3. UpdateDeviceState(t, i, s) \in [Idx -> Entries]
  BY <1>1 DEF UpdateDeviceState
<1> QED
  BY <1>1, <1>2, <1>3

\* A load fills the first slots from the file and frees all others, which
\* keep their EUI64.
LEMMA LoadTableProperties ==
  ASSUME NEW t \in [Idx -> Entries], NEW d \in Seq(Records),
         NEW g \in Endpoints
  PROVE  /\ LoadTable(t, d, g) \in [Idx -> Entries]
         /\ \A i \in Idx :
              /\ i < Len(d) => /\ i + 1 \in 1 .. Len(d)
                               /\ RecordOf(LoadTable(t, d, g)[i]) = d[i + 1]
              /\ i >= Len(d) => /\ LoadTable(t, d, g)[i].nodeId = NullNodeId
                                /\ LoadTable(t, d, g)[i].eui64 = t[i].eui64
<1> DEFINE u == LoadTable(t, d, g)
           r(i) == [nodeId |-> d[i + 1].nodeId, endpoint |-> d[i + 1].endpoint,
                    eui64 |-> d[i + 1].eui64, state |-> StateJoined]
<1>1. ASSUME NEW i \in Idx, i < Len(d)
      PROVE  /\ i + 1 \in 1 .. Len(d)
             /\ u[i] \in Entries
             /\ RecordOf(u[i]) = d[i + 1]
  <2>1. i + 1 \in 1 .. Len(d)
    BY <1>1 DEF Idx
  <2>2. d[i + 1] \in Records
    BY <2>1, ElementOfSeq
  <2>3. u[i] = r(i)
    BY <1>1 DEF LoadTable
  <2>4. r(i) \in Entries
    BY <2>2 DEF Records, Entries, DeviceStates
  <2>5. RecordOf(r(i)) = d[i + 1]
    BY <2>2 DEF RecordOf, Records
  <2> QED
    BY <2>1, <2>3, <2>4, <2>5
<1>2. ASSUME NEW i \in Idx, ~ (i < Len(d))
      PROVE  /\ u[i] \in Entries
             /\ u[i].nodeId = NullNodeId
             /\ u[i].eui64 = t[i].eui64
  <2>1. t[i] \in Entries
    OBVIOUS
  <2>2. PICK p \in Endpoints :
          u[i] = [t[i] EXCEPT !.nodeId = NullNodeId, !.endpoint = p]
    <3>1. t[i].endpoint \in Endpoints
      BY <2>1 DEF Entries
    <3>2. CASE i = Len(d)
      BY <1>2, <3>2 DEF LoadTable
    <3>3. CASE i # Len(d)
      BY <1>2, <3>1, <3>3 DEF LoadTable
    <3> QED
      BY <3>2, <3>3
  <2> QED
    BY <2>1, <2>2 DEF Entries
<1>3. u \in [Idx -> Entries]
  <2>1. \A i \in Idx : u[i] \in Entries
    BY <1>1, <1>2
  <2> QED
    BY <2>1 DEF LoadTable
<1>4. \A i \in Idx : i >= Len(d) <=> ~ (i < Len(d))
  BY DEF Idx
<1> QED
  BY <1>1, <1>2, <1>3, <1>4

-----------------------------------------------------------------------------
(* devices.txt *)

LEMMA OccupiedCardinality ==
  ASSUME NEW t
  PROVE  /\ IsFiniteSet(Occupied(t))
         /\ Cardinality(Occupied(t)) \in 0 .. TableSize
<1>1. IsFiniteSet(Idx) /\ Cardinality(Idx) = TableSize
  BY FS_Interval, SizesAssumption DEF Idx
<1>2. Occupied(t) \in SUBSET Idx
  BY DEF Occupied
<1>3. IsFiniteSet(Occupied(t)) /\ Cardinality(Occupied(t)) <= TableSize
  BY <1>1, <1>2, FS_Subset
<1>4. Cardinality(Occupied(t)) \in Nat
  BY <1>3, FS_CardinalityType
<1> QED
  BY <1>3, <1>4, SizesAssumption

\* The file holds exactly the occupied slots, and at most TableSize of them.
LEMMA SavedImageProperties ==
  ASSUME NEW t \in [Idx -> Entries], NEW d \in SavedImages(t)
  PROVE  /\ d \in Seq(Records) /\ Len(d) <= TableSize
         /\ \A k \in 1 .. Len(d) : \E i \in Occupied(t) : d[k] = RecordOf(t[i])
         /\ \A i \in Occupied(t) : \E k \in 1 .. Len(d) : d[k] = RecordOf(t[i])
<1> DEFINE m == Cardinality(Occupied(t))
<1>1. m \in Nat /\ m <= TableSize
  BY OccupiedCardinality, SizesAssumption
<1>2. PICK f \in Enumerations(Occupied(t)) :
             d = [k \in 1 .. m |-> RecordOf(t[f[k]])]
  BY DEF SavedImages
<1>3. /\ f \in [1 .. m -> Occupied(t)]
      /\ \A i \in Occupied(t) : \E k \in 1 .. m : f[k] = i
  BY <1>2 DEF Enumerations
<1>4. ASSUME NEW i \in Occupied(t) PROVE RecordOf(t[i]) \in Records
  <2>1. i \in Idx /\ t[i].nodeId # NullNodeId
    BY DEF Occupied
  <2>2. t[i] \in Entries
    BY <2>1
  <2> QED
    BY <2>1, <2>2 DEF Entries, RecordOf, Records
<1> HIDE DEF m
<1>5. d \in [1 .. m -> Records]
  BY <1>2, <1>3, <1>4
<1>6. d \in Seq(Records) /\ Len(d) = m
  BY <1>1, <1>5
<1> QED
  BY <1>1, <1>2, <1>3, <1>6

-----------------------------------------------------------------------------
(* The queue of discovery tasks *)

\* Every task of r is one of q.
DrawnFrom(r, q) ==
  \A a \in 1 .. Len(r) : \E b \in 1 .. Len(q) : r[a] = q[b]

\* Deleting tasks leaves a part of the queue, in the order it had.
LEMMA KeepOnlyProperties ==
  ASSUME NEW T, NEW q \in Seq(T), NEW K \in SUBSET (1 .. Len(q)),
         NEW r \in KeepOnly(q, K)
  PROVE  /\ r \in Seq(T) /\ Len(r) <= Len(q)
         /\ \A a \in 1 .. Len(r) : \E b \in K : r[a] = q[b]
         /\ \A a, b \in 1 .. Len(r) :
              a < b => \E c, d \in K : c < d /\ r[a] = q[c] /\ r[b] = q[d]
<1> DEFINE m == Cardinality(K)
<1>1. m \in Nat /\ m <= Len(q)
  <2>1. IsFiniteSet(1 .. Len(q)) /\ Cardinality(1 .. Len(q)) = Len(q)
    <3>1. 1 \in Int /\ Len(q) \in Nat
      OBVIOUS
    <3>2. /\ IsFiniteSet(1 .. Len(q))
          /\ Cardinality(1 .. Len(q)) = IF 1 > Len(q) THEN 0 ELSE Len(q) - 1 + 1
      BY <3>1, FS_Interval
    <3> QED
      BY <3>1, <3>2
  <2>2. IsFiniteSet(K) /\ m <= Len(q)
    BY <2>1, FS_Subset
  <2> QED
    BY <2>2, FS_CardinalityType
<1>2. PICK f \in Enumerations(K) : r = [j \in 1 .. m |-> q[f[j]]]
  BY DEF KeepOnly
<1>3. /\ f \in [1 .. m -> K]
      /\ \A a, b \in 1 .. m : a < b => f[a] < f[b]
  BY <1>2 DEF Enumerations
<1> HIDE DEF m
<1>4. r \in [1 .. m -> T]
  <2>1. ASSUME NEW j \in 1 .. m PROVE q[f[j]] \in T
    <3>1. f[j] \in 1 .. Len(q)
      BY <1>3
    <3> QED
      BY <3>1, ElementOfSeq
  <2> QED
    BY <1>2, <2>1
<1>5. r \in Seq(T) /\ Len(r) = m
  BY <1>1, <1>4
<1> QED
  BY <1>1, <1>2, <1>3, <1>5

\* The sort returns the same number of tasks, each one of the queue, by
\* increasing delay.
LEMMA StableSortProperties ==
  ASSUME NEW q \in Seq(Tasks), NEW r \in StableSorts(q)
  PROVE  /\ r \in Seq(Tasks) /\ Len(r) = Len(q)
         /\ DrawnFrom(r, q)
         /\ SortedByDelay(r)
<1> DEFINE n == Len(q)
<1>1. PICK f \in [1 .. n -> 1 .. n] :
        /\ r = [k \in 1 .. n |-> q[f[k]]]
        /\ \A a, b \in 1 .. n : a < b =>
             \/ q[f[a]].delay < q[f[b]].delay
             \/ q[f[a]].delay = q[f[b]].delay /\ f[a] < f[b]
  BY DEF StableSorts
<1>2. n \in Nat /\ r \in [1 .. n -> Tasks]
  BY <1>1
<1>3. r \in Seq(Tasks) /\ Len(r) = n
  BY <1>2
<1>4. DrawnFrom(r, q)
  BY <1>1, <1>3 DEF DrawnFrom
<1>5. SortedByDelay(r)
  <2> SUFFICES ASSUME NEW a \in 1 .. n, NEW b \in 1 .. n, a < b
               PROVE  r[a].delay <= r[b].delay
    BY <1>3 DEF SortedByDelay
  <2>1. r[a] = q[f[a]] /\ r[b] = q[f[b]]
    BY <1>1
  <2>2. r[a].delay \in Int /\ r[b].delay \in Int
    <3>1. r[a] \in Tasks /\ r[b] \in Tasks
      BY <1>2
    <3> QED
      BY <3>1, SizesAssumption DEF Tasks
  <2> QED
    BY <1>1, <2>1, <2>2
<1> QED
  BY <1>3, <1>4, <1>5

\* addQueueEntry keeps the queue sorted and within its bound, and adds none
\* but the new tasks; the first one is added unless the queue is full.
LEMMA EnqueueProperties ==
  ASSUME NEW q \in Seq(Tasks), Len(q) <= MaxQueueSize,
         NEW ts \in Seq(Tasks), NEW r \in Enqueue(q, ts)
  PROVE  /\ r \in Seq(Tasks) /\ Len(r) <= MaxQueueSize
         /\ SortedByDelay(r)
         /\ \A a \in 1 .. Len(r) : \/ \E b \in 1 .. Len(q) : r[a] = q[b]
                                   \/ \E b \in 1 .. Len(ts) : r[a] = ts[b]
         /\ Len(q) = 0 /\ Len(ts) = 0 => r = <<>>
<1> DEFINE m == IF Len(ts) <= MaxQueueSize - Len(q) THEN Len(ts)
                ELSE MaxQueueSize - Len(q)
           s == [k \in 1 .. Len(q) + m |->
                   IF k <= Len(q) THEN q[k] ELSE ts[k - Len(q)]]
<1>1. m \in Nat /\ m <= Len(ts) /\ Len(q) + m <= MaxQueueSize
  BY SizesAssumption
<1>2. r \in StableSorts(s)
  BY DEF Enqueue
<1>3. \A k \in 1 .. Len(q) + m :
        \/ k \in 1 .. Len(q) /\ s[k] = q[k]
        \/ k - Len(q) \in 1 .. Len(ts) /\ s[k] = ts[k - Len(q)]
  BY <1>1
<1>4. s \in [1 .. Len(q) + m -> Tasks]
  BY <1>1
<1>5. s \in Seq(Tasks) /\ Len(s) = Len(q) + m
  <2> HIDE DEF s, m
  <2> QED
    BY <1>1, <1>4
<1>6. /\ r \in Seq(Tasks) /\ Len(r) = Len(s)
      /\ DrawnFrom(r, s) /\ SortedByDelay(r)
  <2> HIDE DEF s, m
  <2> QED
    BY <1>2, <1>5, StableSortProperties
<1>7. ASSUME NEW a \in 1 .. Len(r)
      PROVE  \/ \E b \in 1 .. Len(q) : r[a] = q[b]
             \/ \E b \in 1 .. Len(ts) : r[a] = ts[b]
  <2>1. PICK k \in 1 .. Len(q) + m : r[a] = s[k]
    BY <1>5, <1>6 DEF DrawnFrom
  <2> HIDE DEF s, m
  <2> QED
    BY <1>3, <2>1
<1>8. ASSUME Len(q) = 0, Len(ts) = 0 PROVE r = <<>>
  <2>1. Len(r) = 0
    BY <1>1, <1>5, <1>6, <1>8
  <2> QED
    BY <1>6, <2>1
<1> QED
  BY <1>1, <1>5, <1>6, <1>7, <1>8

\* Deleting one task leaves the others, in their order.
LEMMA DeleteTaskProperties ==
  ASSUME NEW q \in Seq(Tasks), NEW k \in 1 .. Len(q)
  PROVE  /\ DeleteTask(q, k) \in Seq(Tasks)
         /\ Len(DeleteTask(q, k)) = Len(q) - 1
         /\ DrawnFrom(DeleteTask(q, k), q)
         /\ SortedByDelay(q) => SortedByDelay(DeleteTask(q, k))
<1> DEFINE r == DeleteTask(q, k)
<1>1. /\ Len(q) - 1 \in Nat
      /\ r \in [1 .. Len(q) - 1 -> Tasks]
  BY DEF DeleteTask
<1>2. r \in Seq(Tasks) /\ Len(r) = Len(q) - 1
  <2> HIDE DEF r
  <2> QED
    BY <1>1
<1>3. \A j \in 1 .. Len(q) - 1 :
        \/ j < k /\ r[j] = q[j]
        \/ j >= k /\ r[j] = q[j + 1]
  BY DEF DeleteTask
<1>4. DrawnFrom(r, q)
  <2> SUFFICES ASSUME NEW a \in 1 .. Len(q) - 1
               PROVE  \E b \in 1 .. Len(q) : r[a] = q[b]
    BY <1>2 DEF DrawnFrom
  <2>1. a \in 1 .. Len(q) /\ a + 1 \in 1 .. Len(q)
    BY <1>1
  <2> HIDE DEF r
  <2> QED
    BY <1>3, <2>1
<1>5. ASSUME SortedByDelay(q) PROVE SortedByDelay(r)
  <2> SUFFICES ASSUME NEW a \in 1 .. Len(q) - 1, NEW b \in 1 .. Len(q) - 1,
                      a < b
               PROVE  r[a].delay <= r[b].delay
    BY <1>2 DEF SortedByDelay
  <2>1. /\ a \in 1 .. Len(q) /\ a + 1 \in 1 .. Len(q)
        /\ b \in 1 .. Len(q) /\ b + 1 \in 1 .. Len(q)
    BY <1>1
  <2>2. \A c, d \in 1 .. Len(q) : c < d => q[c].delay <= q[d].delay
    BY <1>5 DEF SortedByDelay
  <2> HIDE DEF r
  <2> QED
    BY <1>3, <2>1, <2>2
<1> QED
  BY <1>2, <1>4, <1>5

\* The type of a task whose two clocks were set.
LEMMA ClocksType ==
  ASSUME NEW D, NEW V, NEW W,
         NEW t \in [eui64 : Euis, nodeId : NodeIds, endpoint : Endpoints,
                    state : Phases, delay : D, waitTime : V],
         NEW d \in D, NEW w \in W
  PROVE  [t EXCEPT !.waitTime = w, !.delay = d]
           \in [eui64 : Euis, nodeId : NodeIds, endpoint : Endpoints,
                state : Phases, delay : D, waitTime : W]
OBVIOUS

\* A tick keeps the queue sorted: delays that are not yet zero all shrink by
\* one. Of a task it changes nothing but the two clocks.
LEMMA AgedQueueProperties ==
  ASSUME NEW q \in Seq(Tasks), NEW r \in AgedQueues(q)
  PROVE  /\ r \in Seq(Tasks) /\ Len(r) <= Len(q)
         /\ SortedByDelay(q) => SortedByDelay(r)
         /\ \A a \in 1 .. Len(r) : \E b \in 1 .. Len(q) :
              /\ r[a].eui64 = q[b].eui64 /\ r[a].nodeId = q[b].nodeId
              /\ r[a].endpoint = q[b].endpoint /\ r[a].state = q[b].state
              /\ r[a].waitTime = q[b].waitTime + 1
<1> DEFINE n == Len(q)
           s == [k \in 1 .. n |-> AgeTask(q[k])]
           K == {k \in 1 .. n : q[k].waitTime + 1 <= MaxWaitTicks}
           Aged == [eui64 : Euis, nodeId : NodeIds, endpoint : Endpoints,
                    state : Phases, delay : 0 .. RetryTicks, waitTime : Nat]
<1>0. n \in Nat
  OBVIOUS
<1>1. ASSUME NEW k \in 1 .. n
      PROVE  /\ AgeTask(q[k]) \in Aged
             /\ k \in K => AgeTask(q[k]) \in Tasks
             /\ AgeTask(q[k]).eui64 = q[k].eui64
             /\ AgeTask(q[k]).nodeId = q[k].nodeId
             /\ AgeTask(q[k]).endpoint = q[k].endpoint
             /\ AgeTask(q[k]).state = q[k].state
             /\ AgeTask(q[k]).waitTime = q[k].waitTime + 1
             /\ AgeTask(q[k]).delay =
                  IF q[k].delay = 0 THEN 0 ELSE q[k].delay - 1
             /\ q[k].delay \in Nat
  <2>1. q[k] \in Tasks
    OBVIOUS
  <2>2. /\ q[k].delay \in 0 .. RetryTicks
        /\ q[k].waitTime \in 0 .. MaxWaitTicks
    BY <2>1 DEF Tasks
  <2>4. /\ (IF q[k].delay = 0 THEN 0 ELSE q[k].delay - 1) \in 0 .. RetryTicks
        /\ q[k].waitTime + 1 \in Nat
        /\ q[k].delay \in Nat
        /\ k \in K => q[k].waitTime + 1 \in 0 .. MaxWaitTicks
    BY <2>2, SizesAssumption
  <2>5. q[k] \in [eui64 : Euis, nodeId : NodeIds, endpoint : Endpoints,
                  state : Phases, delay : 0 .. RetryTicks,
                  waitTime : 0 .. MaxWaitTicks]
    BY <2>1 DEF Tasks
  <2> HIDE DEF K
  <2>6. AgeTask(q[k]) \in Aged
    BY <2>4, <2>5, ClocksType DEF AgeTask
  <2>7. k \in K => AgeTask(q[k]) \in Tasks
    BY <2>4, <2>5, ClocksType DEF AgeTask, Tasks
  <2>8. /\ AgeTask(q[k]).eui64 = q[k].eui64
        /\ AgeTask(q[k]).nodeId = q[k].nodeId
        /\ AgeTask(q[k]).endpoint = q[k].endpoint
        /\ AgeTask(q[k]).state = q[k].state
        /\ AgeTask(q[k]).waitTime = q[k].waitTime + 1
        /\ AgeTask(q[k]).delay = IF q[k].delay = 0 THEN 0 ELSE q[k].delay - 1
    BY <2>1 DEF AgeTask, Tasks
  <2> QED
    BY <2>4, <2>6, <2>7, <2>8
<1> HIDE DEF Aged
<1>2. s \in Seq(Aged) /\ Len(s) = n
  <2>1. s \in [1 .. n -> Aged]
    BY <1>1
  <2> HIDE DEF s
  <2> QED
    BY <1>0, <2>1
<1>3. r \in KeepOnly(s, K)
  BY DEF AgedQueues
<1>4. K \in SUBSET (1 .. Len(s))
  BY <1>2
<1>5. \A k \in 1 .. n : s[k] = AgeTask(q[k])
  OBVIOUS
<1>6. \A k \in K : k \in 1 .. n
  OBVIOUS
<1> HIDE DEF s, K
<1>7. /\ r \in Seq(Aged) /\ Len(r) <= Len(s)
      /\ \A a \in 1 .. Len(r) : \E b \in K : r[a] = s[b]
      /\ \A a, b \in 1 .. Len(r) :
           a < b => \E c, d \in K : c < d /\ r[a] = s[c] /\ r[b] = s[d]
  BY <1>2, <1>3, <1>4, KeepOnlyProperties
<1>8. \A a \in 1 .. Len(r) : r[a] \in Tasks
  BY <1>1, <1>5, <1>6, <1>7
<1>9. r \in Seq(Tasks) /\ Len(r) <= n
  <2>1. Len(r) \in Nat /\ r \in [1 .. Len(r) -> Aged]
    BY <1>7
  <2>2. r \in [1 .. Len(r) -> Tasks]
    BY <1>8, <2>1
  <2> QED
    BY <1>2, <1>7, <2>1, <2>2
<1>10. ASSUME SortedByDelay(q) PROVE SortedByDelay(r)
  <2> SUFFICES ASSUME NEW a \in 1 .. Len(r), NEW b \in 1 .. Len(r), a < b
               PROVE  r[a].delay <= r[b].delay
    BY DEF SortedByDelay
  <2>1. PICK c \in K, d \in K : c < d /\ r[a] = s[c] /\ r[b] = s[d]
    BY <1>7
  <2>2. c \in 1 .. n /\ d \in 1 .. n /\ q[c].delay <= q[d].delay
    BY <1>6, <1>10, <2>1 DEF SortedByDelay
  <2> QED
    BY <1>1, <1>5, <2>1, <2>2
<1>11. ASSUME NEW a \in 1 .. Len(r)
       PROVE  \E b \in 1 .. n :
                /\ r[a].eui64 = q[b].eui64 /\ r[a].nodeId = q[b].nodeId
                /\ r[a].endpoint = q[b].endpoint /\ r[a].state = q[b].state
                /\ r[a].waitTime = q[b].waitTime + 1
  <2>1. PICK b \in K : r[a] = s[b]
    BY <1>7
  <2> QED
    BY <1>1, <1>5, <1>6, <2>1
<1> QED
  BY <1>9, <1>10, <1>11

-----------------------------------------------------------------------------
(* What the operations on the queue keep *)

\* Deleting tasks keeps every task at one of the positions K.
LEMMA KeepOnlyKeeps ==
  ASSUME NEW T, NEW q \in Seq(T), NEW K \in SUBSET (1 .. Len(q)),
         NEW r \in KeepOnly(q, K)
  PROVE  /\ Len(r) = Cardinality(K)
         /\ \A b \in K : \E a \in 1 .. Len(r) : r[a] = q[b]
<1> DEFINE m == Cardinality(K)
<1>1. m \in Nat
  <2>1. IsFiniteSet(1 .. Len(q))
    <3>1. 1 \in Int /\ Len(q) \in Int
      OBVIOUS
    <3> QED
      BY <3>1, FS_Interval
  <2> QED
    BY <2>1, FS_Subset, FS_CardinalityType
<1>2. PICK f \in Enumerations(K) : r = [j \in 1 .. m |-> q[f[j]]]
  BY DEF KeepOnly
<1>3. \A b \in K : \E a \in 1 .. m : f[a] = b
  BY <1>2 DEF Enumerations
<1> HIDE DEF m
<1>4. Len(r) = m
  BY <1>1, <1>2
<1> QED
  BY <1>2, <1>3, <1>4 DEF m

\* An injection of the positions of a queue into themselves reaches all.
LEMMA InjectionReachesAll ==
  ASSUME NEW n \in Nat, NEW f \in [1 .. n -> 1 .. n],
         \A a, b \in 1 .. n : a # b => f[a] # f[b]
  PROVE  \A k \in 1 .. n : \E a \in 1 .. n : f[a] = k
<1>1. IsFiniteSet(1 .. n)
  BY FS_Interval
<1>2. f \in Injection(1 .. n, 1 .. n)
  BY DEF Injection, IsInjective
<1>3. f \in Surjection(1 .. n, 1 .. n)
  BY <1>1, <1>2, FS_Injection
<1> QED
  BY <1>3 DEF Surjection

\* A sort keeps every task.
LEMMA StableSortKeeps ==
  ASSUME NEW q \in Seq(Tasks), NEW r \in StableSorts(q)
  PROVE  DrawnFrom(q, r)
<1> DEFINE n == Len(q)
<1>1. PICK f \in [1 .. n -> 1 .. n] :
        /\ r = [k \in 1 .. n |-> q[f[k]]]
        /\ \A a, b \in 1 .. n : a < b =>
             \/ q[f[a]].delay < q[f[b]].delay
             \/ q[f[a]].delay = q[f[b]].delay /\ f[a] < f[b]
  BY DEF StableSorts
<1>2. n \in Nat
  OBVIOUS
<1>3. \A k \in 1 .. n : q[k].delay \in Int
  <2>1. \A k \in 1 .. n : q[k] \in Tasks
    BY ElementOfSeq
  <2> QED
    BY <2>1, SizesAssumption DEF Tasks
<1>4. ASSUME NEW a \in 1 .. n, NEW b \in 1 .. n, a # b PROVE f[a] # f[b]
  <2>1. /\ f[a] \in 1 .. n /\ f[b] \in 1 .. n
        /\ q[f[a]].delay \in Int /\ q[f[b]].delay \in Int
    BY <1>3
  <2>2. a < b \/ b < a
    BY <1>4
  <2> QED
    BY <1>1, <2>1, <2>2
<1>5. \A k \in 1 .. n : \E a \in 1 .. n : f[a] = k
  BY <1>2, <1>4, InjectionReachesAll
<1> HIDE DEF n
<1>6. Len(r) = n
  BY <1>1, <1>2
<1> QED
  BY <1>1, <1>5, <1>6 DEF DrawnFrom, n

\* addQueueEntry keeps every task of the queue, and the first of the new ones
\* goes in if there is room.
LEMMA EnqueueKeeps ==
  ASSUME NEW q \in Seq(Tasks), Len(q) <= MaxQueueSize,
         NEW ts \in Seq(Tasks), NEW r \in Enqueue(q, ts)
  PROVE  /\ DrawnFrom(q, r)
         /\ Len(q) < MaxQueueSize /\ Len(ts) > 0 =>
              \E a \in 1 .. Len(r) : r[a] = ts[1]
<1> DEFINE m == IF Len(ts) <= MaxQueueSize - Len(q) THEN Len(ts)
                ELSE MaxQueueSize - Len(q)
           s == [k \in 1 .. Len(q) + m |->
                   IF k <= Len(q) THEN q[k] ELSE ts[k - Len(q)]]
<1>1. /\ m \in Nat /\ Len(q) \in Nat /\ Len(ts) \in Nat
      /\ Len(q) < MaxQueueSize /\ Len(ts) > 0 => m > 0
  BY SizesAssumption
<1>2. r \in StableSorts(s)
  BY DEF Enqueue
<1>3. s \in [1 .. Len(q) + m -> Tasks]
  BY <1>1
<1>4. /\ \A k \in 1 .. Len(q) : k \in 1 .. Len(q) + m /\ s[k] = q[k]
      /\ m > 0 => Len(q) + 1 \in 1 .. Len(q) + m /\ s[Len(q) + 1] = ts[1]
  BY <1>1
<1> HIDE DEF s, m
<1>5. s \in Seq(Tasks) /\ Len(s) = Len(q) + m
  BY <1>1, <1>3
<1>6. \A k \in 1 .. Len(q) + m : \E a \in 1 .. Len(r) : s[k] = r[a]
  BY <1>2, <1>5, StableSortKeeps DEF DrawnFrom
<1>7. DrawnFrom(q, r)
  BY <1>4, <1>6 DEF DrawnFrom
<1>8. Len(q) < MaxQueueSize /\ Len(ts) > 0 =>
        \E a \in 1 .. Len(r) : r[a] = ts[1]
  BY <1>1, <1>4, <1>6
<1> QED
  BY <1>7, <1>8

LEMMA DeleteTaskKeeps ==
  ASSUME NEW q \in Seq(Tasks), NEW k \in 1 .. Len(q), NEW b \in 1 .. Len(q),
         b # k
  PROVE  \E a \in 1 .. Len(DeleteTask(q, k)) : DeleteTask(q, k)[a] = q[b]
<1>1. Len(DeleteTask(q, k)) = Len(q) - 1 /\ Len(q) \in Nat
  BY DeleteTaskProperties
<1>2. CASE b < k
  BY <1>1, <1>2 DEF DeleteTask
<1>3. CASE b > k
  <2>1. b - 1 \in 1 .. Len(q) - 1 /\ ~ (b - 1 < k) /\ (b - 1) + 1 = b
    BY <1>1, <1>3
  <2>2. DeleteTask(q, k)[b - 1] = q[b]
    BY <2>1 DEF DeleteTask
  <2> QED
    BY <1>1, <2>1, <2>2
<1> QED
  BY <1>1, <1>2, <1>3

\* The loops that delete the tasks of e keep every other task, and delete one
\* if there is one.
LEMMA DeleteTasksOfKeeps ==
  ASSUME NEW q \in Seq(Tasks), NEW e, NEW r \in DeleteTasksOf(q, e)
  PROVE  /\ \A b \in 1 .. Len(q) : q[b].eui64 # e =>
              \E a \in 1 .. Len(r) : r[a] = q[b]
         /\ (\E b \in 1 .. Len(q) : q[b].eui64 = e) => Len(r) < Len(q)
<1> DEFINE K == Skipped(q, e)
<1>0. Len(q) \in Nat /\ DOMAIN q = 1 .. Len(q)
  OBVIOUS
<1>1. K \in SUBSET (1 .. Len(q)) /\ r \in KeepOnly(q, K)
  BY DEF Skipped, DeleteTasksOf
<1>2. \A b \in 1 .. Len(q) : q[b].eui64 # e => b \in K
  BY <1>0 DEF Skipped
<1>3. ASSUME \E b \in 1 .. Len(q) : q[b].eui64 = e PROVE K # 1 .. Len(q)
  <2> DEFINE S == {b \in 1 .. Len(q) : q[b].eui64 = e}
  <2>1. S \in SUBSET Nat /\ S # {}
    BY <1>3
  <2>2. PICK k \in S : \A j \in S : k <= j
    BY <2>1, NatSetHasMinimum
  <2>3. k \notin K
    <3> SUFFICES ASSUME NEW s \in 1 .. k, \A j \in s .. k : q[j].eui64 = e,
                        (k - s) % 2 = 1
                 PROVE  FALSE
      BY DEF Skipped
    <3>1. s \in S
      BY <1>0
    <3>2. s = k
      BY <2>2, <3>1
    <3> QED
      BY <3>2
  <2> QED
    BY <2>3
<1> HIDE DEF K
<1>4. /\ Len(r) = Cardinality(K)
      /\ \A b \in K : \E a \in 1 .. Len(r) : r[a] = q[b]
  <2> DEFINE T == Tasks
  <2>1. q \in Seq(T)
    OBVIOUS
  <2> HIDE DEF T
  <2> QED
    BY <1>1, <2>1, KeepOnlyKeeps
<1>5. Cardinality(K) \in Nat /\ Cardinality(K) <= Len(q)
      /\ (Cardinality(K) = Len(q) => K = 1 .. Len(q))
  <2>1. IsFiniteSet(1 .. Len(q)) /\ Cardinality(1 .. Len(q)) = Len(q)
    BY <1>0, FS_Interval
  <2>2. IsFiniteSet(K) /\ Cardinality(K) <= Len(q)
        /\ (Len(q) = Cardinality(K) => 1 .. Len(q) = K)
    BY <1>1, <2>1, FS_Subset
  <2> QED
    BY <2>2, FS_CardinalityType
<1> QED
  BY <1>0, <1>2, <1>3, <1>4, <1>5

\* A tick keeps every task that has time left.
LEMMA AgedQueueKeeps ==
  ASSUME NEW q \in Seq(Tasks), NEW r \in AgedQueues(q),
         NEW b \in 1 .. Len(q), q[b].waitTime # MaxWaitTicks
  PROVE  \E a \in 1 .. Len(r) : r[a].eui64 = q[b].eui64
<1> DEFINE n == Len(q)
           s == [k \in 1 .. n |-> AgeTask(q[k])]
           K == {k \in 1 .. n : q[k].waitTime + 1 <= MaxWaitTicks}
           T == {s[k] : k \in 1 .. n}
<1>1. q[b] \in Tasks /\ n \in Nat
  BY ElementOfSeq
<1>2. b \in K
  BY <1>1, SizesAssumption DEF Tasks
<1>3. s[b].eui64 = q[b].eui64
  BY <1>1 DEF AgeTask, Tasks
<1>4. r \in KeepOnly(s, K)
  BY DEF AgedQueues
<1>5. s \in [1 .. n -> T] /\ K \in SUBSET (1 .. n)
  OBVIOUS
<1> HIDE DEF s, K, T
<1>6. s \in Seq(T) /\ Len(s) = n
  BY <1>1, <1>5
<1>7. \E a \in 1 .. Len(r) : r[a] = s[b]
  BY <1>2, <1>4, <1>5, <1>6, KeepOnlyKeeps
<1> QED
  BY <1>3, <1>7
=============================================================================
