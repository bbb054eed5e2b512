--------------------------- MODULE ServerViewProofs ---------------------------
(***************************************************************************)
(* Proofs that losses are mended, that the payloads add up to the table    *)
(* and the rules, and that the list is an Outbox, for every set of         *)
(* devices, size of table and list, and any number of changes and          *)
(* failures.                                                               *)
(***************************************************************************)
EXTENDS ServerViewOutbox, WellFoundedInduction, TLAPS

-----------------------------------------------------------------------------
(* Losses *)

\* What is still to come for a loss l: the report of a new connection, the
\* update it asks for, or the rest of an update that has begun.
ToBeMended(l) ==
  \/ ~lastStatus
  \/ due
  \/ dumping /\ l.about = "devices"

\* A loss that a new connection mends waits for one, or for the update after it.
MendInv ==
  \A l \in lost :
    /\ l.about \in {"relays", "devices"}
    /\ l.cause = "disconnected" => ToBeMended(l)
    /\ l.cause = "no server" => ~alive \/ ToBeMended(l)

LEMMA LossProperties ==
  ASSUME NEW p, NEW later, NEW cause, NEW l \in Loss(p, later, cause)
  PROVE  l.about \in {"relays", "devices"} /\ l.cause = cause
BY DEF Loss, DumpFor

\* A payload that is published may lose another; while the link is reported
\* to be up, that one waits for no new connection.
LEMMA PublishProperties ==
  ASSUME NEW p, Publish(p), NEW l \in lost'
  PROVE  \/ l \in lost /\ l.about # p.topic
         \/ /\ l.about \in {"relays", "devices"}
            /\ l.cause = IF lastStatus THEN "unnoticed" ELSE "disconnected"
BY LossProperties DEF Publish

\* Steps that publish something and leave everything else that matters alone.
LEMMA PublishStep ==
  ASSUME MendInv, NEW p, Publish(p), due => due',
         UNCHANGED <<dumping, link>>
  PROVE  MendInv'
BY PublishProperties DEF MendInv, ToBeMended, link

LEMMA ChangeStep ==
  ASSUME MendInv,
         EndpointDiscovered \/ DeviceRejoins \/ StateChanges \/ DeviceLeaves
           \/ TableCleared \/ RulesChange \/ EntryRemoved \/ StateRequested
  PROVE  MendInv'
<1>1. CASE EndpointDiscovered \/ DeviceRejoins \/ StateChanges \/ DeviceLeaves
             \/ RulesChange
  <2>1. (\E p : Publish(p)) /\ UNCHANGED <<due, dumping, link>>
    BY <1>1 DEF EndpointDiscovered, DeviceRejoins, StateChanges, DeviceLeaves,
                RulesChange, Change
  <2> QED
    BY <2>1, PublishStep
<1>2. CASE TableCleared \/ StateRequested
  BY <1>2 DEF TableCleared, StateRequested, Change, MendInv, ToBeMended, link
<1>3. CASE EntryRemoved
  <2>1. ASSUME NEW l \in lost', l \notin lost
        PROVE  l.about = "devices" /\ l.cause = "not published"
    <3>1. l = [about |-> "devices", cause |-> "not published"]
      BY <1>3, <2>1 DEF EntryRemoved
    <3> QED
      BY <3>1
  <2>2. UNCHANGED <<due, dumping, link>>
    BY <1>3 DEF EntryRemoved, Change
  <2> QED
    BY <2>1, <2>2 DEF MendInv, ToBeMended, link
<1> QED
  BY <1>1, <1>2, <1>3

LEMMA UpdateStep ==
  ASSUME MendInv, UpdateBegins \/ UpdateEnds
  PROVE  MendInv'
<1>1. CASE UpdateBegins
  <2>1. /\ Publish(RelaysPayload) /\ RelaysPayload.topic = "relays"
        /\ dumping' = TRUE /\ UNCHANGED link
    BY <1>1 DEF UpdateBegins, RelaysPayload, Payload
  <2>2. ASSUME NEW l \in lost'
        PROVE  /\ l.about \in {"relays", "devices"}
               /\ \/ l.about = "devices"
                  \/ l.cause = IF lastStatus THEN "unnoticed" ELSE "disconnected"
    BY <2>1, PublishProperties DEF MendInv
  <2> QED
    BY <2>1, <2>2 DEF MendInv, ToBeMended, link
<1>2. CASE UpdateEnds
  <2>1. /\ Publish(DevicesPayload) /\ DevicesPayload.topic = "devices"
        /\ UNCHANGED <<due, link>>
    BY <1>2 DEF UpdateEnds, DevicesPayload, Payload
  <2>2. ASSUME NEW l \in lost'
        PROVE  \/ l \in lost /\ l.about # "devices"
               \/ /\ l.about \in {"relays", "devices"}
                  /\ l.cause = IF lastStatus THEN "unnoticed" ELSE "disconnected"
    BY <2>1, PublishProperties
  <2> QED
    BY <2>1, <2>2 DEF MendInv, ToBeMended, link
<1> QED
  BY <1>1, <1>2

\* The report of a new connection switches the update on.
LEMMA LongLinkStep ==
  ASSUME MendInv, NEW notices \in BOOLEAN, LongLink(notices)
  PROVE  MendInv'
<1>1. lastStatus' => lastStatus \/ due'
  BY DEF LongLink, LinkReported
<1>2. due => due'
  BY DEF LongLink, LinkReported
<1>3. UNCHANGED <<dumping, alive, lost>>
  BY DEF LongLink
<1> QED
  BY <1>1, <1>2, <1>3 DEF MendInv, ToBeMended

LEMMA NetworkStep ==
  ASSUME MendInv, Network
  PROVE  MendInv'
<1>1. CASE Send
  <2>1. UNCHANGED <<due, dumping, lastStatus, alive>>
    BY <1>1 DEF Send, update, link
  <2>2. ASSUME NEW l \in lost'
        PROVE  \/ l \in lost
               \/ /\ ~alive
                  /\ l.about \in {"relays", "devices"} /\ l.cause = "no server"
    BY <1>1, LossProperties DEF Send
  <2> QED
    BY <2>1, <2>2 DEF MendInv, ToBeMended
<1>2. CASE GiveUp
  <2>1. UNCHANGED <<due, dumping, lastStatus, alive>>
    BY <1>2 DEF GiveUp, update, link
  <2>2. ASSUME NEW l \in lost'
        PROVE  \/ l \in lost
               \/ l.about \in {"relays", "devices"} /\ l.cause = "given up"
    BY <1>2, LossProperties DEF GiveUp
  <2> QED
    BY <2>1, <2>2 DEF MendInv, ToBeMended
<1>3. CASE WriteFails \/ SameConnection \/ SameDeadConnection
  <2>1. UNCHANGED <<due, dumping, lastStatus, alive, lost>>
    BY <1>3 DEF WriteFails, SameConnection, SameDeadConnection, Quiet, update
  <2> QED
    BY <2>1 DEF MendInv, ToBeMended
<1>4. CASE ServerGone
  BY <1>4 DEF ServerGone, Quiet, update, MendInv, ToBeMended
<1>5. CASE NewConnection
  BY <1>5 DEF NewConnection, update, MendInv, ToBeMended
<1> QED
  BY <1>1, <1>2, <1>3, <1>4, <1>5 DEF Network

LEMMA MendStep ==
  ASSUME MendInv, [Next]_vars
  PROVE  MendInv'
<1>1. CASE EndpointDiscovered \/ DeviceRejoins \/ StateChanges \/ DeviceLeaves
             \/ TableCleared \/ RulesChange \/ EntryRemoved \/ StateRequested
  BY <1>1, ChangeStep
<1>2. CASE Restart
  BY <1>2 DEF Restart, MendInv
<1>3. CASE UpdateBegins \/ UpdateEnds
  BY <1>3, UpdateStep
<1>4. CASE \E notices \in BOOLEAN : LongLink(notices)
  BY <1>4, LongLinkStep
<1>5. CASE Network
  BY <1>5, NetworkStep
<1>6. CASE UNCHANGED vars
  BY <1>6 DEF vars, update, link, MendInv, ToBeMended
<1> QED
  BY <1>1, <1>2, <1>3, <1>4, <1>5, <1>6 DEF Next

\* Once a new connection was reported and its update is through, nothing is
\* missing that was lost without a server or to a loss of the link that was
\* noticed.
THEOREM LossesAreMended == Spec => []LossIsMended
<1>1. Init => MendInv
  BY DEF Init, MendInv
<1>2. MendInv /\ [Next]_vars => MendInv'
  BY MendStep
<1>3. MendInv => LossIsMended
  BY DEF MendInv, ToBeMended, LossIsMended
<1> QED
  BY <1>1, <1>2, <1>3, PTL DEF Spec

-----------------------------------------------------------------------------
(* Induction over the numbers, and the fold of the payloads *)

LEMMA SmallestNumber ==
  ASSUME NEW T, T \subseteq Nat, T # {}
  PROVE  \E x \in T : \A y \in T : x <= y
<1> DEFINE R == {p \in Nat \X Nat : p[1] < p[2]}
<1>1. OpToRel(<, Nat) = R
  BY DEF OpToRel
<1>2. IsWellFoundedOn(R, Nat)
  BY <1>1, NatLessThanWellFounded
<1>3. \E x \in T : \A y \in T : ~ (<<y, x>> \in R)
  <2> HIDE DEF R
  <2> QED
    BY <1>2, WFMin
<1>4. PICK x \in T : \A y \in T : ~ (<<y, x>> \in R)
  BY <1>3
<1>5. ASSUME NEW y \in T PROVE x <= y
  <2>1. ~ (<<y, x>> \in R) /\ <<y, x>> \in Nat \X Nat
    BY <1>4
  <2> QED
    BY <2>1
<1> QED
  BY <1>5

LEMMA Induction ==
  ASSUME NEW S, 0 \in S, \A n \in Nat : n \in S => n + 1 \in S
  PROVE  \A n \in Nat : n \in S
<1> SUFFICES ASSUME Nat \ S # {} PROVE FALSE
  OBVIOUS
<1>1. PICK x \in Nat \ S : \A y \in Nat \ S : x <= y
  BY SmallestNumber
<1>2. x # 0 /\ x - 1 \in Nat
  OBVIOUS
<1> QED
  BY <1>1, <1>2

LEMMA MaxProperties ==
  ASSUME NEW n \in Nat, NEW s \in SUBSET (1 .. n), s # {}
  PROVE  Max(s) \in s /\ \A y \in s : y <= Max(s)
<1> DEFINE T == {n - x : x \in s}
<1>1. T \subseteq Nat /\ T # {}
  <2>1. \A x \in s : n - x \in Nat
    OBVIOUS
  <2> QED
    BY <2>1
<1>2. PICK z \in T : \A y \in T : z <= y
  BY <1>1, SmallestNumber
<1>3. PICK x \in s : z = n - x
  OBVIOUS
<1>4. ASSUME NEW y \in s PROVE x >= y
  <2>1. n - y \in T
    OBVIOUS
  <2> QED
    BY <1>2, <1>3, <2>1
<1>5. \E m \in s : \A y \in s : m >= y
  BY <1>3, <1>4
<1>6. Max(s) \in s /\ \A y \in s : Max(s) >= y
  BY <1>5 DEF Max
<1> QED
  BY <1>6

\* What the server has when the payloads ps have reached it.
Fold(v, ps) == FoldLeft(Applied, v, ps)

\* The function by which FoldLeft is defined: f folds the payloads at s.
Folds(v, ps, n, f) ==
  f = [s \in SUBSET (1 .. n) |->
         IF s = {} THEN v ELSE Applied(f[s \ {Max(s)}], ps[Max(s)])]

LEMMA FoldingExists ==
  ASSUME NEW v, NEW ps
  PROVE  \A n \in Nat : \E f : Folds(v, ps, n, f)
<1> DEFINE S == {n \in Nat : \E f : Folds(v, ps, n, f)}
<1>1. 0 \in S
  <2>1. Folds(v, ps, 0, [s \in SUBSET (1 .. 0) |-> v])
    BY DEF Folds
  <2> QED
    BY <2>1
<1>2. ASSUME NEW n \in Nat, n \in S
      PROVE  n + 1 \in S
  <2>1. PICK f : Folds(v, ps, n, f)
    BY <1>2
  <2> DEFINE g == [s \in SUBSET (1 .. n + 1) |->
                     IF n + 1 \in s THEN Applied(f[s \ {n + 1}], ps[n + 1])
                     ELSE f[s]]
  <2>2. ASSUME NEW s \in SUBSET (1 .. n + 1)
        PROVE  g[s] = IF s = {} THEN v
                      ELSE Applied(g[s \ {Max(s)}], ps[Max(s)])
    <3>1. CASE n + 1 \in s
      <4>1. Max(s) = n + 1
        <5>1. n + 1 \in Nat /\ s # {}
          BY <3>1
        <5>2. Max(s) \in s /\ \A y \in s : y <= Max(s)
          BY <5>1, MaxProperties
        <5>3. Max(s) \in 1 .. n + 1 /\ n + 1 <= Max(s)
          BY <3>1, <5>2
        <5> QED
          BY <5>3
      <4>2. s \ {n + 1} \in SUBSET (1 .. n) /\ n + 1 \notin s \ {n + 1}
        OBVIOUS
      <4>3. g[s \ {n + 1}] = f[s \ {n + 1}]
        BY <4>2
      <4> QED
        BY <3>1, <4>1, <4>3
    <3>2. CASE n + 1 \notin s
      <4>1. s \in SUBSET (1 .. n)
        BY <3>2
      <4>2. g[s] = f[s]
        BY <3>2
      <4>3. f[s] = IF s = {} THEN v ELSE Applied(f[s \ {Max(s)}], ps[Max(s)])
        BY <2>1, <4>1 DEF Folds
      <4>4. g[s \ {Max(s)}] = f[s \ {Max(s)}]
        BY <3>2
      <4> QED
        BY <4>2, <4>3, <4>4
    <3> QED
      BY <3>1, <3>2
  <2>3. Folds(v, ps, n + 1, g)
    <3>1. g = [s \in SUBSET (1 .. n + 1) |-> g[s]]
      OBVIOUS
    <3> HIDE DEF g
    <3> QED
      BY <2>2, <3>1 DEF Folds
  <2> QED
    BY <2>3
<1> HIDE DEF S
<1>3. \A n \in Nat : n \in S
  BY <1>1, <1>2, Induction
<1> QED
  BY <1>3 DEF S

\* What the server has after each of the payloads.
Steps(v, ps, f) ==
  /\ f[0] = v
  /\ \A k \in 1 .. Len(ps) : f[k] = Applied(f[k - 1], ps[k])

LEMMA FoldSteps ==
  ASSUME NEW P, NEW ps \in Seq(P), NEW v
  PROVE  \E f : Steps(v, ps, f) /\ Fold(v, ps) = f[Len(ps)]
<1> DEFINE n == Len(ps)
           h == CHOOSE f : Folds(v, ps, n, f)
           f == [k \in 0 .. n |-> h[1 .. k]]
<1>1. n \in Nat /\ DOMAIN ps = 1 .. n
  OBVIOUS
<1>2. Folds(v, ps, n, h)
  BY <1>1, FoldingExists
<1>3. Fold(v, ps) = h[1 .. n]
  BY <1>1 DEF Fold, FoldLeft, MapThenFoldSet, Folds
<1> HIDE DEF h
<1>4. f[0] = v
  BY <1>1, <1>2 DEF Folds
<1>5. ASSUME NEW k \in 1 .. n
      PROVE  f[k] = Applied(f[k - 1], ps[k])
  <2>1. 1 .. k \in SUBSET (1 .. n) /\ k \in 1 .. k
    BY <1>1
  <2>2. (1 .. k) \ {k} = 1 .. k - 1
    BY <1>1
  <2>3. Max(1 .. k) \in 1 .. k /\ k <= Max(1 .. k)
    BY <1>1, <2>1, MaxProperties
  <2>4. Max(1 .. k) = k
    BY <1>1, <2>3
  <2>5. h[1 .. k] = Applied(h[1 .. k - 1], ps[k])
    BY <1>2, <2>1, <2>2, <2>4 DEF Folds
  <2> QED
    BY <1>1, <2>5
<1>6. Fold(v, ps) = f[n]
  BY <1>1, <1>3
<1> QED
  BY <1>4, <1>5, <1>6 DEF Steps

LEMMA StepsAreUnique ==
  ASSUME NEW P, NEW ps \in Seq(P), NEW v, NEW f, NEW g,
         Steps(v, ps, f), Steps(v, ps, g)
  PROVE  f[Len(ps)] = g[Len(ps)]
<1> DEFINE S == {k \in Nat : k <= Len(ps) => f[k] = g[k]}
<1>1. 0 \in S
  BY DEF Steps
<1>2. ASSUME NEW k \in Nat, k \in S
      PROVE  k + 1 \in S
  BY <1>2 DEF Steps
<1> HIDE DEF S
<1>3. \A k \in Nat : k \in S
  BY <1>1, <1>2, Induction
<1> QED
  BY <1>3 DEF S

\* One payload more: at the end of the list, or at its head.
LEMMA FoldAppend ==
  ASSUME NEW P, NEW ps \in Seq(P), NEW v, NEW p \in P
  PROVE  Fold(v, Append(ps, p)) = Applied(Fold(v, ps), p)
<1> DEFINE n == Len(ps)
           qs == Append(ps, p)
<1>1. /\ qs \in Seq(P) /\ Len(qs) = n + 1 /\ qs[n + 1] = p
      /\ \A k \in 1 .. n : qs[k] = ps[k] /\ k \in 1 .. n + 1
      /\ n \in Nat
  OBVIOUS
<1>2. PICK f : Steps(v, qs, f) /\ Fold(v, qs) = f[n + 1]
  BY <1>1, FoldSteps
<1>3. PICK g : Steps(v, ps, g) /\ Fold(v, ps) = g[n]
  BY FoldSteps
<1>4. Steps(v, ps, f)
  BY <1>1, <1>2 DEF Steps
<1>5. f[n] = g[n]
  BY <1>3, <1>4, StepsAreUnique
<1>6. f[n + 1] = Applied(f[n], p)
  BY <1>1, <1>2 DEF Steps
<1> QED
  BY <1>2, <1>3, <1>5, <1>6

LEMMA FoldHead ==
  ASSUME NEW P, NEW ps \in Seq(P), NEW v, ps # << >>
  PROVE  Fold(v, ps) = Fold(Applied(v, Head(ps)), Tail(ps))
<1> DEFINE n == Len(ps) - 1
           qs == Tail(ps)
           w == Applied(v, Head(ps))
<1>1. /\ qs \in Seq(P) /\ Len(qs) = n /\ n \in Nat /\ Len(ps) = n + 1
      /\ \A k \in 1 .. n : qs[k] = ps[k + 1]
      /\ Head(ps) = ps[1]
  OBVIOUS
<1>2. PICK f : Steps(v, ps, f) /\ Fold(v, ps) = f[n + 1]
  BY <1>1, FoldSteps
<1>3. PICK g : Steps(w, qs, g) /\ Fold(w, qs) = g[n]
  BY <1>1, FoldSteps
<1> DEFINE h == [k \in 0 .. n |-> f[k + 1]]
<1>4. Steps(w, qs, h)
  <2>1. h[0] = w
    BY <1>1, <1>2 DEF Steps
  <2>2. ASSUME NEW k \in 1 .. n
        PROVE  h[k] = Applied(h[k - 1], qs[k])
    <3>1. k + 1 \in 1 .. Len(ps) /\ h[k] = f[k + 1] /\ h[k - 1] = f[k]
      BY <1>1
    <3>2. f[k + 1] = Applied(f[(k + 1) - 1], ps[k + 1])
      BY <1>2, <3>1 DEF Steps
    <3> QED
      BY <1>1, <3>1, <3>2
  <2> HIDE DEF h, w
  <2> QED
    BY <1>1, <2>1, <2>2 DEF Steps
<1>5. h[n] = g[n]
  <2> HIDE DEF h, w, qs
  <2> QED
    BY <1>1, <1>3, <1>4, StepsAreUnique
<1> QED
  BY <1>1, <1>2, <1>3, <1>5

-----------------------------------------------------------------------------
(* Views and payloads *)

Views == [nodes : SUBSET Nodes, rules : 0 .. 1]

Payloads ==
  [topic : {"relays"}, content : 0 .. 1]
    \cup [topic : {"devices"}, content : SUBSET Nodes]
    \cup [topic : {"devicejoined"}, content : Nodes]
    \cup [topic : {"deviceleft"}, content : Devices]
    \cup [topic : {"devicestatechange"}, content : [eui64 : Devices, state : States]]

\* What a payload does to the nodes of the server.
NodesAfter(N, p) ==
  CASE p.topic = "relays"  -> N
    [] p.topic = "devices" -> p.content
    [] p.topic = "devicejoined" ->
         {n \in N : n.eui64 # p.content.eui64 \/ n.endpoint # p.content.endpoint}
           \cup {p.content}
    [] p.topic = "deviceleft" -> {n \in N : n.eui64 # p.content}
    [] p.topic = "devicestatechange" ->
         {IF n.eui64 = p.content.eui64 THEN [n EXCEPT !.state = p.content.state]
                                       ELSE n : n \in N}

LEMMA AppliedProperties ==
  ASSUME NEW v \in Views, NEW p \in Payloads
  PROVE  /\ Applied(v, p) \in Views
         /\ Applied(v, p).rules = IF p.topic = "relays" THEN p.content ELSE v.rules
         /\ Applied(v, p).nodes = NodesAfter(v.nodes, p)
<1>1. CASE p \in [topic : {"relays"}, content : 0 .. 1]
  BY <1>1 DEF Applied, NodesAfter, Views
<1>2. CASE p \in [topic : {"devices"}, content : SUBSET Nodes]
  BY <1>2 DEF Applied, NodesAfter, Views
<1>3. CASE p \in [topic : {"devicejoined"}, content : Nodes]
  BY <1>3 DEF Applied, NodesAfter, Views
<1>4. CASE p \in [topic : {"deviceleft"}, content : Devices]
  BY <1>4 DEF Applied, NodesAfter, Views
<1>5. CASE p \in [topic : {"devicestatechange"},
                  content : [eui64 : Devices, state : States]]
  <2>1. ASSUME NEW n \in Nodes
        PROVE  [n EXCEPT !.state = p.content.state] \in Nodes
    BY <1>5 DEF Nodes
  <2>2. NodesAfter(v.nodes, p) \in SUBSET Nodes
    BY <1>5, <2>1 DEF NodesAfter, Views
  <2> QED
    BY <1>5, <2>2 DEF Applied, NodesAfter, Views
<1> QED
  BY <1>1, <1>2, <1>3, <1>4, <1>5 DEF Payloads

\* Two servers that get the same payloads: each part of their views is the same
\* in the end if it was at the beginning, or if a payload tells all of it.
LEMMA SameAfter ==
  ASSUME NEW ps \in Seq(Payloads), NEW v \in Views, NEW w \in Views
  PROVE  /\ Fold(v, ps) \in Views
         /\ v.rules = w.rules \/ (\E p \in Range(ps) : p.topic = "relays")
              => Fold(v, ps).rules = Fold(w, ps).rules
         /\ v.nodes = w.nodes \/ (\E p \in Range(ps) : p.topic = "devices")
              => Fold(v, ps).nodes = Fold(w, ps).nodes
<1>1. PICK f : Steps(v, ps, f) /\ Fold(v, ps) = f[Len(ps)]
  BY FoldSteps
<1>2. PICK g : Steps(w, ps, g) /\ Fold(w, ps) = g[Len(ps)]
  BY FoldSteps
<1> DEFINE Told(k, what) == \E j \in 1 .. k : ps[j].topic = what
           Same(k) ==
             /\ f[k] \in Views /\ g[k] \in Views
             /\ v.rules = w.rules \/ Told(k, "relays") => f[k].rules = g[k].rules
             /\ v.nodes = w.nodes \/ Told(k, "devices") => f[k].nodes = g[k].nodes
           S == {k \in Nat : k <= Len(ps) => Same(k)}
<1>3. 0 \in S
  BY <1>1, <1>2 DEF Steps
<1>4. ASSUME NEW k \in Nat, k \in S
      PROVE  k + 1 \in S
  <2> SUFFICES ASSUME k + 1 <= Len(ps) PROVE Same(k + 1)
    OBVIOUS
  <2>1. Same(k) /\ k + 1 \in 1 .. Len(ps) /\ ps[k + 1] \in Payloads
    BY <1>4
  <2>2. /\ f[k + 1] = Applied(f[k], ps[k + 1])
        /\ g[k + 1] = Applied(g[k], ps[k + 1])
    BY <1>1, <1>2, <2>1 DEF Steps
  <2>3. /\ f[k + 1] \in Views /\ g[k + 1] \in Views
        /\ f[k + 1].rules = IF ps[k + 1].topic = "relays"
                            THEN ps[k + 1].content ELSE f[k].rules
        /\ g[k + 1].rules = IF ps[k + 1].topic = "relays"
                            THEN ps[k + 1].content ELSE g[k].rules
        /\ f[k + 1].nodes = NodesAfter(f[k].nodes, ps[k + 1])
        /\ g[k + 1].nodes = NodesAfter(g[k].nodes, ps[k + 1])
    BY <2>1, <2>2, AppliedProperties
  <2>4. ps[k + 1].topic = "devices" =>
          \A N : NodesAfter(N, ps[k + 1]) = ps[k + 1].content
    BY DEF NodesAfter
  <2>5. ASSUME NEW what, Told(k + 1, what)
        PROVE  Told(k, what) \/ ps[k + 1].topic = what
    BY <2>5
  <2> HIDE DEF Told
  <2> QED
    BY <2>1, <2>3, <2>4, <2>5
<1>5. \A k \in Nat : k \in S
  <2> HIDE DEF S
  <2> QED
    BY <1>3, <1>4, Induction
<1>6. Same(Len(ps))
  BY <1>5
<1>7. ASSUME NEW what, \E p \in Range(ps) : p.topic = what
      PROVE  Told(Len(ps), what)
  BY <1>7 DEF Range
<1> QED
  BY <1>1, <1>2, <1>6, <1>7

\* The loss of the head goes unnoticed if a later payload tells as much.
LEMMA HeadDropped ==
  ASSUME NEW ps \in Seq(Payloads), NEW v \in Views, ps # << >>, NEW cause,
         NEW later \in Seq(Payloads), NEW what \in {"relays", "devices"},
         \A q \in Range(later) : q.topic = what => q \in Range(Tail(ps)),
         \A l \in Loss(Head(ps), later, cause) : l.about # what
  PROVE  /\ what = "relays" => Fold(v, Tail(ps)).rules = Fold(v, ps).rules
         /\ what = "devices" => Fold(v, Tail(ps)).nodes = Fold(v, ps).nodes
<1>1. Head(ps) \in Payloads /\ Tail(ps) \in Seq(Payloads)
  OBVIOUS
<1> DEFINE w == Applied(v, Head(ps))
<1>2. /\ w \in Views
      /\ w.rules = IF Head(ps).topic = "relays" THEN Head(ps).content ELSE v.rules
      /\ w.nodes = NodesAfter(v.nodes, Head(ps))
  BY <1>1, AppliedProperties
<1>3. Fold(v, ps) = Fold(w, Tail(ps))
  BY FoldHead
<1>4. \/ DumpFor(Head(ps)) # what
      \/ \E q \in Range(Tail(ps)) : q.topic = what
  <2>1. ASSUME DumpFor(Head(ps)) = what,
               \A q \in Range(later) : q.topic # DumpFor(Head(ps))
        PROVE  FALSE
    <3>1. [about |-> DumpFor(Head(ps)), cause |-> cause]
            \in Loss(Head(ps), later, cause)
      BY <2>1 DEF Loss
    <3> QED
      BY <2>1, <3>1
  <2> QED
    BY <2>1
<1>5. CASE what = "relays"
  <2>1. v.rules = w.rules \/ \E q \in Range(Tail(ps)) : q.topic = "relays"
    BY <1>2, <1>4, <1>5 DEF DumpFor
  <2> HIDE DEF w
  <2>2. Fold(v, Tail(ps)).rules = Fold(w, Tail(ps)).rules
    BY <1>1, <1>2, <2>1, SameAfter
  <2> QED
    BY <1>3, <1>5, <2>2
<1>6. CASE what = "devices"
  <2>1. Head(ps).topic = "relays" => w.nodes = v.nodes
    BY <1>2 DEF NodesAfter
  <2>2. v.nodes = w.nodes \/ \E q \in Range(Tail(ps)) : q.topic = "devices"
    BY <1>4, <1>6, <2>1 DEF DumpFor
  <2> HIDE DEF w
  <2>3. Fold(v, Tail(ps)).nodes = Fold(w, Tail(ps)).nodes
    BY <1>1, <1>2, <2>2, SameAfter
  <2> QED
    BY <1>3, <1>6, <2>3
<1> QED
  BY <1>5, <1>6

-----------------------------------------------------------------------------
(* The table and the nodes of the server *)

Tables == [Idx -> Nodes \cup {NoDevice}]

\* Slot i holds a device e, and is the first that does.
Holds(t, e, i) == t[i] # NoDevice /\ t[i].eui64 = e
IsFirst(t, e, i) == i \in Idx /\ Holds(t, e, i) /\ \A j \in 1 .. i - 1 : ~ Holds(t, e, j)

AgreesWith(t, N) ==
  /\ N \subseteq {t[i] : i \in {j \in Idx : t[j] # NoDevice}}
  /\ \A e \in Devices, i \in Idx : IsFirst(t, e, i) => t[i] \in N

LEMMA FirstNodeProperties ==
  ASSUME NEW t, NEW e
  PROVE  /\ \A i : IsFirst(t, e, i) => FirstNode(t, e) = t[i]
         /\ (\E i \in Idx : Holds(t, e, i)) => \E i \in Idx : IsFirst(t, e, i)
<1>1. ASSUME NEW i, IsFirst(t, e, i), NEW j, IsFirst(t, e, j)
      PROVE  i = j
  BY <1>1, SizesAssumption DEF IsFirst, Idx
<1>2. ASSUME NEW i, IsFirst(t, e, i)
      PROVE  FirstNode(t, e) = t[i]
  <2> DEFINE k == CHOOSE k \in Idx :
                    /\ t[k] # NoDevice /\ t[k].eui64 = e
                    /\ \A j \in 1 .. k - 1 : t[j] = NoDevice \/ t[j].eui64 # e
  <2>1. FirstNode(t, e) = t[k]
    BY DEF FirstNode
  <2>2. IsFirst(t, e, k)
    BY <1>2 DEF IsFirst, Holds
  <2> QED
    BY <1>1, <1>2, <2>1, <2>2
<1>3. ASSUME NEW i \in Idx, Holds(t, e, i)
      PROVE  \E j \in Idx : IsFirst(t, e, j)
  <2> DEFINE T == {j \in Idx : Holds(t, e, j)}
  <2>1. T \subseteq Nat /\ T # {}
    BY <1>3 DEF Idx
  <2>2. PICK j \in T : \A k \in T : j <= k
    BY <2>1, SmallestNumber
  <2>3. \A k \in 1 .. j - 1 : k \in Idx /\ k \notin T
    BY <2>2, SizesAssumption DEF Idx
  <2> QED
    BY <2>3 DEF IsFirst
<1> QED
  BY <1>2, <1>3

LEMMA FirstNodeType ==
  ASSUME NEW t \in Tables, NEW e, NEW i \in Idx, Holds(t, e, i)
  PROVE  FirstNode(t, e) \in Nodes /\ FirstNode(t, e).eui64 = e
<1>1. PICK j \in Idx : IsFirst(t, e, j)
  BY FirstNodeProperties
<1>2. FirstNode(t, e) = t[j]
  BY <1>1, FirstNodeProperties
<1> QED
  BY <1>1, <1>2 DEF Tables, IsFirst, Holds

\* The devices of the table are all that is published of it.
LEMMA AllAgrees ==
  ASSUME NEW t
  PROVE  AgreesWith(t, {t[i] : i \in {j \in Idx : t[j] # NoDevice}})
BY DEF AgreesWith, IsFirst, Holds

\* A device e has joined: its slots may have become more, no other has changed.
LEMMA JoinedAgrees ==
  ASSUME NEW t \in Tables, NEW u \in Tables, NEW N, AgreesWith(t, N),
         NEW e \in Devices, NEW k \in Idx, Holds(u, e, k),
         \A i \in Idx : u[i] = t[i] \/ (t[i] = NoDevice /\ Holds(u, e, i))
  PROVE  AgreesWith(u, NodesAfter(N, JoinedPayload(u, e)))
<1> DEFINE c == FirstNode(u, e)
           M == {n \in N : n.eui64 # c.eui64 \/ n.endpoint # c.endpoint} \cup {c}
<1>1. NodesAfter(N, JoinedPayload(u, e)) = M
  BY DEF NodesAfter, JoinedPayload, Payload
<1>2. PICK f \in Idx : IsFirst(u, e, f) /\ c = u[f]
  BY FirstNodeProperties
<1>3. c.eui64 = e
  BY <1>2 DEF IsFirst, Holds
<1> HIDE DEF c
<1>4. M \subseteq {u[i] : i \in {j \in Idx : u[j] # NoDevice}}
  <2>1. ASSUME NEW n \in N
        PROVE  \E i \in Idx : u[i] # NoDevice /\ n = u[i]
    BY DEF AgreesWith
  <2>2. u[f] # NoDevice
    BY <1>2 DEF IsFirst, Holds
  <2> QED
    BY <1>2, <2>1, <2>2
<1>5. ASSUME NEW d \in Devices, NEW i \in Idx, IsFirst(u, d, i)
      PROVE  u[i] \in M
  <2>1. CASE d = e
    <3>1. FirstNode(u, e) = u[i]
      BY <1>5, <2>1, FirstNodeProperties
    <3> QED
      BY <3>1 DEF c
  <2>2. CASE d # e
    <3>1. \A j \in Idx : Holds(u, d, j) <=> Holds(t, d, j)
      BY <2>2 DEF Holds
    <3>2. 1 .. i - 1 \subseteq Idx
      BY SizesAssumption DEF Idx
    <3>3. IsFirst(t, d, i)
      BY <1>5, <3>1, <3>2 DEF IsFirst
    <3>4. u[i] = t[i] /\ t[i] \in N
      BY <1>5, <2>2, <3>3 DEF IsFirst, Holds, AgreesWith
    <3>5. u[i].eui64 # c.eui64
      BY <1>3, <1>5, <2>2 DEF IsFirst, Holds
    <3> QED
      BY <3>4, <3>5
  <2> QED
    BY <2>1, <2>2
<1> QED
  BY <1>1, <1>4, <1>5 DEF AgreesWith

\* All slots of a device e have got the state s.
LEMMA StateAgrees ==
  ASSUME NEW t \in Tables, NEW u \in Tables, NEW N, AgreesWith(t, N),
         NEW e \in Devices, NEW s \in States,
         \A i \in Idx : u[i] = IF Holds(t, e, i) THEN [t[i] EXCEPT !.state = s]
                                                 ELSE t[i]
  PROVE  AgreesWith(u, NodesAfter(N, StateChangePayload(e, s)))
<1> DEFINE Set(n) == IF n.eui64 = e THEN [n EXCEPT !.state = s] ELSE n
           M == {Set(n) : n \in N}
<1>1. NodesAfter(N, StateChangePayload(e, s)) = M
  BY DEF NodesAfter, StateChangePayload, Payload
<1>2. \A i \in Idx : t[i] # NoDevice => t[i] \in Nodes /\ u[i] = Set(t[i])
  BY DEF Holds, Tables
<1>3. ASSUME NEW i \in Idx
      PROVE  /\ u[i] # NoDevice <=> t[i] # NoDevice
             /\ t[i] # NoDevice => u[i].eui64 = t[i].eui64
  <2>1. CASE t[i] # NoDevice
    <3>1. t[i] \in Nodes /\ u[i] = Set(t[i])
      BY <1>2, <2>1
    <3>2. Set(t[i]) \in Nodes /\ Set(t[i]).eui64 = t[i].eui64
      BY <3>1 DEF Nodes
    <3> QED
      BY <2>1, <3>1, <3>2, DevicesAssumption
  <2>2. CASE t[i] = NoDevice
    BY <2>2 DEF Holds
  <2> QED
    BY <2>1, <2>2
<1>4. \A d, i : i \in Idx => (Holds(u, d, i) <=> Holds(t, d, i))
  BY <1>3 DEF Holds
<1>5. M \subseteq {u[i] : i \in {j \in Idx : u[j] # NoDevice}}
  <2>1. ASSUME NEW n \in N
        PROVE  \E i \in Idx : u[i] # NoDevice /\ Set(n) = u[i]
    <3>1. PICK i \in Idx : t[i] # NoDevice /\ n = t[i]
      BY DEF AgreesWith
    <3> QED
      BY <1>2, <1>3, <3>1
  <2> HIDE DEF Set
  <2> QED
    BY <2>1
<1>6. ASSUME NEW d \in Devices, NEW i \in Idx, IsFirst(u, d, i)
      PROVE  u[i] \in M
  <2>1. 1 .. i - 1 \subseteq Idx
    BY SizesAssumption DEF Idx
  <2>2. IsFirst(t, d, i)
    BY <1>4, <1>6, <2>1 DEF IsFirst
  <2>3. t[i] \in N /\ t[i] # NoDevice
    BY <2>2 DEF AgreesWith, IsFirst, Holds
  <2> QED
    BY <1>2, <2>3
<1> QED
  BY <1>1, <1>5, <1>6 DEF AgreesWith

\* The slots of a device e were cleared.
LEMMA LeftAgrees ==
  ASSUME NEW t \in Tables, NEW u, NEW N, AgreesWith(t, N), NEW e \in Devices,
         \A i \in Idx : u[i] = IF Holds(t, e, i) THEN NoDevice ELSE t[i]
  PROVE  AgreesWith(u, NodesAfter(N, LeftPayload(e)))
<1> DEFINE M == {n \in N : n.eui64 # e}
<1>1. NodesAfter(N, LeftPayload(e)) = M
  BY DEF NodesAfter, LeftPayload, Payload
<1>2. M \subseteq {u[i] : i \in {j \in Idx : u[j] # NoDevice}}
  <2>1. ASSUME NEW n \in M
        PROVE  \E i \in Idx : u[i] # NoDevice /\ n = u[i]
    BY DEF AgreesWith, Holds
  <2> QED
    BY <2>1
<1>3. ASSUME NEW d \in Devices, NEW i \in Idx, IsFirst(u, d, i)
      PROVE  u[i] \in M
  <2>1. d # e /\ u[i] = t[i]
    BY <1>3 DEF IsFirst, Holds
  <2>2. 1 .. i - 1 \subseteq Idx
    BY SizesAssumption DEF Idx
  <2>3. IsFirst(t, d, i)
    BY <1>3, <2>1, <2>2 DEF IsFirst, Holds
  <2> QED
    BY <1>3, <2>1, <2>3 DEF AgreesWith, IsFirst, Holds
<1> QED
  BY <1>1, <1>2, <1>3 DEF AgreesWith

-----------------------------------------------------------------------------
(* What the server is owed *)

ViewTypeOK ==
  /\ table \in Tables
  /\ rules \in 0 .. 1
  /\ {due, dumping, up, alive, lastStatus} \subseteq BOOLEAN
  /\ waiting \in Seq(Payloads)
  /\ view \in Views
  /\ \A l \in lost : l.about \in {"relays", "devices"}

Recorded(L, what) == \E l \in L : l.about = what

\* What is on its way brings the server's rules up to the gateway's, unless an
\* update is to come or a loss is recorded; and its nodes, too, unless they are
\* still to follow in an update that has begun.
RulesOnTheirWay ==
  lastStatus /\ ~due /\ ~Recorded(lost, "relays") =>
    Fold(view, waiting).rules = rules

NodesOnTheirWay ==
  lastStatus /\ ~due /\ ~dumping /\ ~Recorded(lost, "devices") =>
    AgreesWith(table, Fold(view, waiting).nodes)

\* Only a restart needs the file.
FileTypeOK == file \in Seq(Records)

ViewInv == ViewTypeOK /\ RulesOnTheirWay /\ NodesOnTheirWay

\* A payload that is published changes what the server will have as it says,
\* or the loss of another one is recorded.
LEMMA PublishOnTheWay ==
  ASSUME ViewTypeOK, NEW p \in Payloads, Publish(p)
  PROVE  /\ waiting' \in Seq(Payloads)
         /\ \A l \in lost' : l.about \in {"relays", "devices"}
         /\ p.topic = "relays" => Fold(view, waiting').rules = p.content
         /\ p.topic = "devices" => Fold(view, waiting').nodes = p.content
         /\ p.topic # "relays" /\ ~Recorded(lost', "relays") =>
              /\ ~Recorded(lost, "relays")
              /\ Fold(view, waiting').rules = Fold(view, waiting).rules
         /\ p.topic # "devices" /\ ~Recorded(lost', "devices") =>
              /\ ~Recorded(lost, "devices")
              /\ Fold(view, waiting').nodes = NodesAfter(Fold(view, waiting).nodes, p)
<1> DEFINE full == ~up /\ Len(waiting) >= MSG_CNT_DISCONN_MAX
           rest == IF full THEN Tail(waiting) ELSE waiting
           cause == IF lastStatus THEN "unnoticed" ELSE "disconnected"
<1>1. /\ waiting \in Seq(Payloads) /\ view \in Views
      /\ \A l \in lost : l.about \in {"relays", "devices"}
  BY DEF ViewTypeOK
<1>2. full => waiting # << >>
  BY <1>1, SizesAssumption
<1>3. /\ waiting' = Append(rest, p)
      /\ lost' = {l \in lost : l.about # p.topic}
                   \cup IF full THEN Loss(Head(waiting), waiting', cause) ELSE {}
  BY DEF Publish
<1>4. rest \in Seq(Payloads) /\ waiting' \in Seq(Payloads)
  BY <1>1, <1>2, <1>3
<1>5. \A l \in lost' : l.about \in {"relays", "devices"}
  BY <1>1, <1>3, LossProperties
<1>6. Fold(view, rest) \in Views
  BY <1>1, <1>4, SameAfter
<1>7. /\ Fold(view, waiting').rules =
           IF p.topic = "relays" THEN p.content ELSE Fold(view, rest).rules
      /\ Fold(view, waiting').nodes = NodesAfter(Fold(view, rest).nodes, p)
  <2> HIDE DEF rest
  <2>1. Fold(view, waiting') = Applied(Fold(view, rest), p)
    BY <1>3, <1>4, FoldAppend
  <2> QED
    BY <1>6, <2>1, AppliedProperties
<1>8. p.topic = "devices" => Fold(view, waiting').nodes = p.content
  BY <1>7 DEF NodesAfter
<1>9. ASSUME NEW what \in {"relays", "devices"}, p.topic # what,
             ~Recorded(lost', what)
      PROVE  /\ ~Recorded(lost, what)
             /\ what = "relays" =>
                  Fold(view, rest).rules = Fold(view, waiting).rules
             /\ what = "devices" =>
                  Fold(view, rest).nodes = Fold(view, waiting).nodes
  <2>1. ~Recorded(lost, what)
    BY <1>3, <1>9 DEF Recorded
  <2>2. CASE full
    <3>1. \A l \in Loss(Head(waiting), waiting', cause) : l.about # what
      BY <1>3, <1>9, <2>2 DEF Recorded
    <3>2. rest = Tail(waiting)
      BY <2>2
    <3>3. ASSUME NEW q \in Range(waiting'), q.topic = what
          PROVE  q \in Range(Tail(waiting))
      <4>1. PICK k \in DOMAIN waiting' : q = waiting'[k]
        BY DEF Range
      <4>2. k \in 1 .. Len(rest) + 1
        BY <1>3, <1>4, <4>1
      <4>3. k # Len(rest) + 1
        BY <1>3, <1>4, <1>9, <3>3, <4>1
      <4>4. k \in DOMAIN rest /\ q = rest[k]
        BY <1>3, <1>4, <4>1, <4>2, <4>3
      <4> QED
        BY <3>2, <4>4 DEF Range
    <3> QED
      BY <1>1, <1>2, <1>4, <2>1, <2>2, <3>1, <3>2, <3>3, HeadDropped
  <2>3. CASE ~full
    BY <2>1, <2>3
  <2> QED
    BY <2>2, <2>3
<1> QED
  <2> HIDE DEF rest, full, cause
  <2> QED
    BY <1>4, <1>5, <1>7, <1>8, <1>9

\* What the gateway publishes are payloads.
LEMMA PayloadTypes ==
  ASSUME NEW t \in Tables, NEW e \in Devices, NEW s \in States
  PROVE  /\ StateChangePayload(e, s) \in Payloads
         /\ StateChangePayload(e, s).topic = "devicestatechange"
         /\ LeftPayload(e) \in Payloads /\ LeftPayload(e).topic = "deviceleft"
         /\ JoinedPayload(t, e).topic = "devicejoined"
         /\ (\E i \in Idx : Holds(t, e, i)) => JoinedPayload(t, e) \in Payloads
<1>1. (\E i \in Idx : Holds(t, e, i)) => JoinedPayload(t, e) \in Payloads
  BY FirstNodeType DEF JoinedPayload, Payload, Payloads
<1> QED
  BY <1>1 DEF StateChangePayload, LeftPayload, JoinedPayload, Payload, Payloads

LEMMA DumpTypes ==
  ASSUME ViewTypeOK
  PROVE  /\ RelaysPayload \in Payloads
         /\ RelaysPayload.topic = "relays" /\ RelaysPayload.content = rules
         /\ DevicesPayload \in Payloads /\ DevicesPayload.topic = "devices"
         /\ DevicesPayload.content = {table[i] : i \in {j \in Idx : table[j] # NoDevice}}
BY DEF RelaysPayload, DevicesPayload, Payload, Payloads, ViewTypeOK, Tables, Used

LEMMA KnownHolds ==
  \A e : /\ e \in Known => e \in Devices /\ \E i \in Idx : Holds(table, e, i)
         /\ \A i \in Idx : i \in SlotsOf(e) <=> Holds(table, e, i)
BY DEF Known, SlotsOf, Used, Holds

\* A change of the gateway that is published, and applied to what the server
\* agrees with, agrees with the table it leaves.
LEMMA PublishedChange ==
  ASSUME ViewInv, NEW p \in Payloads, Publish(p), p.topic \notin {"relays", "devices"},
         UNCHANGED <<rules, due, dumping, link, view>>, table' \in Tables,
         \A N : AgreesWith(table, N) => AgreesWith(table', NodesAfter(N, p))
  PROVE  ViewInv'
<1>1. /\ waiting' \in Seq(Payloads)
      /\ \A l \in lost' : l.about \in {"relays", "devices"}
      /\ ~Recorded(lost', "relays") =>
           /\ ~Recorded(lost, "relays")
           /\ Fold(view, waiting').rules = Fold(view, waiting).rules
      /\ ~Recorded(lost', "devices") =>
           /\ ~Recorded(lost, "devices")
           /\ Fold(view, waiting').nodes = NodesAfter(Fold(view, waiting).nodes, p)
  BY PublishOnTheWay DEF ViewInv
<1>2. ViewTypeOK'
  BY <1>1 DEF ViewInv, ViewTypeOK, link
<1>3. view' = view /\ lastStatus' = lastStatus
  BY DEF link
<1>4. RulesOnTheirWay'
  BY <1>1, <1>3 DEF ViewInv, RulesOnTheirWay
<1>5. NodesOnTheirWay'
  BY <1>1, <1>3 DEF ViewInv, NodesOnTheirWay
<1> QED
  BY <1>2, <1>4, <1>5 DEF ViewInv

LEMMA EndpointDiscoveredOwes ==
  ASSUME ViewInv, EndpointDiscovered
  PROVE  ViewInv'
<1>1. PICK e \in Devices : \E p \in EndpointsOf[e] :
        /\ Used # Idx
        /\ table' = [table EXCEPT ![Min(Idx \ Used)] =
                       [eui64 |-> e, endpoint |-> p, state |-> "joined"]]
        /\ Publish(JoinedPayload(table', e))
  BY DEF EndpointDiscovered
<1>2. PICK p \in EndpointsOf[e] :
        /\ Used # Idx
        /\ table' = [table EXCEPT ![Min(Idx \ Used)] =
                       [eui64 |-> e, endpoint |-> p, state |-> "joined"]]
        /\ Publish(JoinedPayload(table', e))
  BY <1>1
<1> DEFINE k == Min(Idx \ Used)
           n == [eui64 |-> e, endpoint |-> p, state |-> "joined"]
<1>3. UNCHANGED <<rules, due, dumping, link, view>>
  BY DEF EndpointDiscovered, Change
<1>4. table \in Tables
  BY DEF ViewInv, ViewTypeOK
<1>5. k \in Idx /\ table[k] = NoDevice
  <2>1. Idx \ Used \subseteq Nat /\ Idx \ Used # {}
    BY <1>2 DEF Idx, Used
  <2>2. \E x \in Idx \ Used : \A y \in Idx \ Used : x =< y
    BY <2>1, SmallestNumber
  <2>3. k \in Idx \ Used
    BY <2>2 DEF Min
  <2> QED
    BY <2>3 DEF Used
<1>6. n \in Nodes /\ n # NoDevice
  BY DevicesAssumption DEF Nodes, States, Range
<1> HIDE DEF k
<1>7. table' = [table EXCEPT ![k] = n]
  BY <1>2 DEF k
<1>8. table' \in Tables
  BY <1>4, <1>6, <1>7 DEF Tables
<1>9. /\ Holds(table', e, k)
      /\ \A i \in Idx : \/ table'[i] = table[i]
                        \/ table[i] = NoDevice /\ Holds(table', e, i)
  BY <1>4, <1>5, <1>6, <1>7 DEF Holds, Tables
<1>10. /\ JoinedPayload(table', e) \in Payloads
      /\ JoinedPayload(table', e).topic = "devicejoined"
  BY <1>5, <1>8, <1>9, PayloadTypes DEF States
<1>11. \A N : AgreesWith(table, N) =>
               AgreesWith(table', NodesAfter(N, JoinedPayload(table', e)))
  BY <1>4, <1>5, <1>8, <1>9, JoinedAgrees
<1> QED
  BY <1>2, <1>3, <1>8, <1>10, <1>11, PublishedChange

LEMMA DeviceRejoinsOwes ==
  ASSUME ViewInv, DeviceRejoins
  PROVE  ViewInv'
<1>1. PICK e \in Known : Publish(JoinedPayload(table, e))
  BY DEF DeviceRejoins
<1>2. UNCHANGED <<table, rules, due, dumping, link, view>>
  BY DEF DeviceRejoins, Change, gateway
<1>3. table \in Tables
  BY DEF ViewInv, ViewTypeOK
<1>4. PICK k \in Idx : e \in Devices /\ Holds(table, e, k)
  BY KnownHolds
<1>5. /\ JoinedPayload(table, e) \in Payloads
      /\ JoinedPayload(table, e).topic = "devicejoined"
  BY <1>3, <1>4, PayloadTypes DEF States
<1>6. \A N : AgreesWith(table, N) =>
               AgreesWith(table, NodesAfter(N, JoinedPayload(table, e)))
  BY <1>3, <1>4, JoinedAgrees
<1> QED
  BY <1>1, <1>2, <1>3, <1>5, <1>6, PublishedChange

LEMMA StateChangesOwes ==
  ASSUME ViewInv, StateChanges
  PROVE  ViewInv'
<1>1. PICK e \in Known, s \in States :
        /\ table' = [i \in Idx |-> IF i \in SlotsOf(e)
                                   THEN [table[i] EXCEPT !.state = s] ELSE table[i]]
        /\ Publish(StateChangePayload(e, s))
  BY DEF StateChanges
<1>2. UNCHANGED <<rules, due, dumping, link, view>>
  BY DEF StateChanges, Change
<1>3. table \in Tables /\ e \in Devices
  BY KnownHolds DEF ViewInv, ViewTypeOK
<1>4. \A i \in Idx : table'[i] = IF Holds(table, e, i)
                                 THEN [table[i] EXCEPT !.state = s] ELSE table[i]
  BY <1>1, KnownHolds
<1>5. table' \in Tables
  BY <1>1, <1>3, <1>4 DEF Tables, Holds, Nodes
<1>6. /\ StateChangePayload(e, s) \in Payloads
      /\ StateChangePayload(e, s).topic = "devicestatechange"
  BY <1>3, PayloadTypes
<1>7. \A N : AgreesWith(table, N) =>
               AgreesWith(table', NodesAfter(N, StateChangePayload(e, s)))
  BY <1>3, <1>4, <1>5, StateAgrees
<1> QED
  BY <1>1, <1>2, <1>5, <1>6, <1>7, PublishedChange

LEMMA DeviceLeavesOwes ==
  ASSUME ViewInv, DeviceLeaves
  PROVE  ViewInv'
<1>1. PICK e \in Known :
        /\ Publish(LeftPayload(e))
        /\ table' = [i \in Idx |-> IF i \in SlotsOf(e) THEN NoDevice ELSE table[i]]
  BY DEF DeviceLeaves
<1>2. UNCHANGED <<rules, due, dumping, link, view>>
  BY DEF DeviceLeaves, Change
<1>3. table \in Tables /\ e \in Devices
  BY KnownHolds DEF ViewInv, ViewTypeOK
<1>4. \A i \in Idx : table'[i] = IF Holds(table, e, i) THEN NoDevice ELSE table[i]
  BY <1>1, KnownHolds
<1>5. table' \in Tables
  BY <1>1, <1>3, <1>4 DEF Tables
<1>6. LeftPayload(e) \in Payloads /\ LeftPayload(e).topic = "deviceleft"
  BY <1>3, PayloadTypes DEF States
<1>7. \A N : AgreesWith(table, N) =>
               AgreesWith(table', NodesAfter(N, LeftPayload(e)))
  BY <1>3, <1>4, LeftAgrees
<1> QED
  BY <1>1, <1>2, <1>5, <1>6, <1>7, PublishedChange

LEMMA RulesChangeOwes ==
  ASSUME ViewInv, RulesChange
  PROVE  ViewInv'
<1> DEFINE p == Payload("relays", rules')
<1>1. /\ rules' = 1 - rules /\ Publish(p)
      /\ UNCHANGED <<table, due, dumping, link, view>>
  BY DEF RulesChange, Change
<1>2. rules' \in 0 .. 1
  BY <1>1 DEF ViewInv, ViewTypeOK
<1>3. p \in Payloads /\ p.topic = "relays" /\ p.content = rules'
  BY <1>2 DEF Payload, Payloads
<1>4. \A N : NodesAfter(N, p) = N
  BY <1>3 DEF NodesAfter
<1> HIDE DEF p
<1>5. /\ waiting' \in Seq(Payloads)
      /\ \A l \in lost' : l.about \in {"relays", "devices"}
      /\ Fold(view, waiting').rules = rules'
      /\ ~Recorded(lost', "devices") =>
           /\ ~Recorded(lost, "devices")
           /\ Fold(view, waiting').nodes = Fold(view, waiting).nodes
  BY <1>1, <1>3, <1>4, PublishOnTheWay DEF ViewInv
<1>6. view' = view /\ lastStatus' = lastStatus
  BY <1>1 DEF link
<1>7. ViewTypeOK'
  BY <1>1, <1>2, <1>5 DEF ViewInv, ViewTypeOK, link
<1>8. RulesOnTheirWay'
  BY <1>5, <1>6 DEF RulesOnTheirWay
<1>9. NodesOnTheirWay'
  BY <1>1, <1>5, <1>6 DEF ViewInv, NodesOnTheirWay
<1> QED
  BY <1>7, <1>8, <1>9 DEF ViewInv

\* A change nobody publishes is followed by an update, or recorded.
LEMMA SilentChangeOwes ==
  ASSUME ViewInv, TableCleared \/ EntryRemoved \/ StateRequested
  PROVE  ViewInv'
<1>1. UNCHANGED <<rules, dumping, waiting, link, view>>
  BY DEF TableCleared, EntryRemoved, StateRequested, Change, gateway
<1>2. table' \in Tables /\ due' \in BOOLEAN /\ (due => due')
  <2>1. table \in Tables /\ due \in BOOLEAN
    BY DEF ViewInv, ViewTypeOK
  <2>2. CASE TableCleared
    BY <2>2 DEF TableCleared, EmptyTable, Tables
  <2>3. CASE EntryRemoved
    BY <2>1, <2>3 DEF EntryRemoved, Tables
  <2>4. CASE StateRequested
    BY <2>1, <2>4 DEF StateRequested, gateway
  <2> QED
    BY <2>2, <2>3, <2>4
<1>3. /\ \A l \in lost' : l.about \in {"relays", "devices"}
      /\ lost \subseteq lost'
      /\ ~due' => table' = table \/ Recorded(lost', "devices")
  <2>1. CASE EntryRemoved
    <3> DEFINE r == [about |-> "devices", cause |-> "not published"]
    <3>1. lost' = lost \cup {r} /\ r.about = "devices"
      BY <2>1 DEF EntryRemoved
    <3> QED
      BY <3>1 DEF ViewInv, ViewTypeOK, Recorded
  <2>2. CASE TableCleared \/ StateRequested
    BY <2>2 DEF TableCleared, StateRequested, ViewInv, ViewTypeOK
  <2> QED
    BY <2>1, <2>2
<1>4. ViewTypeOK'
  BY <1>1, <1>2, <1>3 DEF ViewInv, ViewTypeOK, link
<1>5. RulesOnTheirWay'
  BY <1>1, <1>2, <1>3 DEF ViewInv, RulesOnTheirWay, Recorded, link
<1>6. NodesOnTheirWay'
  BY <1>1, <1>2, <1>3 DEF ViewInv, NodesOnTheirWay, Recorded, link
<1> QED
  BY <1>4, <1>5, <1>6 DEF ViewInv

RecordOf(n) == [eui64 |-> n.eui64, endpoint |-> n.endpoint]

\* The loop of a save, over the first n slots.
SavesUpTo(t, n, f) ==
  f = [i \in 0 .. n |->
         IF i = 0 THEN << >>
         ELSE IF t[i] = NoDevice THEN f[i - 1]
         ELSE Append(f[i - 1], RecordOf(t[i]))]

\* A save writes the nodes of the table, and a load brings nodes back.
LEMMA SavedType ==
  ASSUME NEW t \in Tables
  PROVE  Saved(t) \in Seq(Records)
<1> DEFINE S == {n \in Nat : n <= TableSize =>
                               \E f \in [0 .. n -> Seq(Records)] : SavesUpTo(t, n, f)}
<1>1. TableSize \in Nat
  BY SizesAssumption
<1>0. \A i \in Idx : t[i] # NoDevice => RecordOf(t[i]) \in Records
  BY DEF RecordOf, Records, Nodes, Tables
<1>2. 0 \in S
  <2>1. [i \in 0 .. 0 |-> << >>] \in [0 .. 0 -> Seq(Records)]
    OBVIOUS
  <2>2. SavesUpTo(t, 0, [i \in 0 .. 0 |-> << >>])
    BY DEF SavesUpTo
  <2> QED
    BY <2>1, <2>2
<1>3. ASSUME NEW n \in Nat, n \in S
      PROVE  n + 1 \in S
  <2> SUFFICES ASSUME n + 1 <= TableSize
               PROVE  \E f \in [0 .. n + 1 -> Seq(Records)] : SavesUpTo(t, n + 1, f)
    OBVIOUS
  <2>1. PICK f \in [0 .. n -> Seq(Records)] : SavesUpTo(t, n, f)
    BY <1>1, <1>3
  <2> DEFINE x == IF t[n + 1] = NoDevice THEN f[n]
                  ELSE Append(f[n], RecordOf(t[n + 1]))
             g == [i \in 0 .. n + 1 |-> IF i = n + 1 THEN x ELSE f[i]]
  <2>2. x \in Seq(Records)
    BY <1>0, <1>1, <2>1 DEF Idx
  <2>3. g \in [0 .. n + 1 -> Seq(Records)]
    BY <2>1, <2>2
  <2>4. ASSUME NEW i \in 0 .. n + 1
        PROVE  g[i] = IF i = 0 THEN << >>
                      ELSE IF t[i] = NoDevice THEN g[i - 1]
                      ELSE Append(g[i - 1], RecordOf(t[i]))
    <3>1. CASE i = n + 1
      BY <3>1
    <3>2. CASE i # n + 1
      <4>1. i \in 0 .. n /\ g[i] = f[i] /\ (i # 0 => g[i - 1] = f[i - 1])
        BY <3>2
      <4> QED
        BY <2>1, <4>1 DEF SavesUpTo
    <3> QED
      BY <3>1, <3>2
  <2>5. g = [i \in 0 .. n + 1 |-> g[i]]
    OBVIOUS
  <2>6. SavesUpTo(t, n + 1, g)
    <3> HIDE DEF g
    <3> QED
      BY <2>4, <2>5 DEF SavesUpTo
  <2> QED
    BY <2>3, <2>6
<1>4. PICK f \in [0 .. TableSize -> Seq(Records)] : SavesUpTo(t, TableSize, f)
  <2> HIDE DEF S
  <2>1. \A n \in Nat : n \in S
    BY <1>2, <1>3, Induction
  <2> QED
    BY <1>1, <2>1 DEF S
<1> DEFINE h == CHOOSE h : SavesUpTo(t, TableSize, h)
<1>5. SavesUpTo(t, TableSize, h)
  BY <1>4
<1>6. Saved(t) = h[TableSize]
  BY DEF Saved, SavesUpTo, RecordOf
<1> HIDE DEF h
<1> DEFINE H == {i \in Nat : i <= TableSize => h[i] \in Seq(Records)}
<1>7. 0 \in H
  BY <1>1, <1>5 DEF SavesUpTo
<1>8. ASSUME NEW i \in Nat, i \in H
      PROVE  i + 1 \in H
  <2> SUFFICES ASSUME i + 1 <= TableSize PROVE h[i + 1] \in Seq(Records)
    OBVIOUS
  <2>1. /\ h[i] \in Seq(Records) /\ i + 1 \in 0 .. TableSize /\ i + 1 \in Idx
        /\ i + 1 # 0 /\ (i + 1) - 1 = i
    BY <1>1, <1>8 DEF Idx
  <2>2. h[i + 1] = IF t[i + 1] = NoDevice THEN h[(i + 1) - 1]
                   ELSE Append(h[(i + 1) - 1], RecordOf(t[i + 1]))
    BY <1>5, <2>1 DEF SavesUpTo
  <2> QED
    BY <1>0, <2>1, <2>2
<1> HIDE DEF H
<1>9. \A i \in Nat : i \in H
  BY <1>7, <1>8, Induction
<1> QED
  BY <1>1, <1>6, <1>9 DEF H

LEMMA LoadedType ==
  ASSUME NEW f \in Seq(Records)
  PROVE  Loaded(f) \in Tables
<1>1. ASSUME NEW i \in Idx, i <= Len(f)
      PROVE  [eui64 |-> f[i].eui64, endpoint |-> f[i].endpoint,
              state |-> "joined"] \in Nodes
  <2>1. f[i] \in Records
    BY <1>1 DEF Idx
  <2> QED
    BY <2>1 DEF Records, Nodes, States
<1> QED
  BY <1>1 DEF Loaded, Tables

LEMMA RestartOwes ==
  ASSUME ViewInv, FileTypeOK, Restart
  PROVE  ViewInv'
<1>1. table' \in Tables
  BY LoadedType DEF Restart, FileTypeOK
<1>2. waiting' \in Seq(Payloads)
  <2>1. RelaysPayload \in Payloads
    BY DumpTypes DEF ViewInv
  <2>2. << >> \in Seq(Payloads) /\ <<RelaysPayload>> \in Seq(Payloads)
    BY <2>1
  <2> QED
    BY <2>2 DEF Restart
<1>3. ViewTypeOK'
  BY <1>1, <1>2 DEF Restart, ViewInv, ViewTypeOK
<1> QED
  BY <1>3 DEF Restart, ViewInv, RulesOnTheirWay, NodesOnTheirWay

LEMMA UpdateBeginsOwes ==
  ASSUME ViewInv, UpdateBegins
  PROVE  ViewInv'
<1>1. /\ Publish(RelaysPayload) /\ due' = FALSE /\ dumping' = TRUE
      /\ UNCHANGED <<table, rules, link, view>>
  BY DEF UpdateBegins, gateway
<1>2. /\ waiting' \in Seq(Payloads)
      /\ \A l \in lost' : l.about \in {"relays", "devices"}
      /\ Fold(view, waiting').rules = rules
  BY <1>1, DumpTypes, PublishOnTheWay DEF ViewInv
<1>3. ViewTypeOK'
  BY <1>1, <1>2 DEF ViewInv, ViewTypeOK, link
<1>4. RulesOnTheirWay'
  BY <1>1, <1>2 DEF RulesOnTheirWay
<1>5. NodesOnTheirWay'
  BY <1>1 DEF NodesOnTheirWay
<1> QED
  BY <1>3, <1>4, <1>5 DEF ViewInv

LEMMA UpdateEndsOwes ==
  ASSUME ViewInv, UpdateEnds
  PROVE  ViewInv'
<1>1. /\ Publish(DevicesPayload) /\ dumping' = FALSE
      /\ UNCHANGED <<table, rules, due, link, view>>
  BY DEF UpdateEnds, gateway
<1>2. /\ waiting' \in Seq(Payloads)
      /\ \A l \in lost' : l.about \in {"relays", "devices"}
      /\ Fold(view, waiting').nodes = {table[i] : i \in {j \in Idx : table[j] # NoDevice}}
      /\ ~Recorded(lost', "relays") =>
           /\ ~Recorded(lost, "relays")
           /\ Fold(view, waiting').rules = Fold(view, waiting).rules
  BY <1>1, DumpTypes, PublishOnTheWay DEF ViewInv
<1>3. ViewTypeOK'
  BY <1>1, <1>2 DEF ViewInv, ViewTypeOK, link
<1>4. RulesOnTheirWay'
  BY <1>1, <1>2 DEF ViewInv, RulesOnTheirWay, link
<1>5. NodesOnTheirWay'
  BY <1>1, <1>2, AllAgrees DEF NodesOnTheirWay
<1> QED
  BY <1>3, <1>4, <1>5 DEF ViewInv

\* The report of a new connection asks for an update.
LEMMA LongLinkOwes ==
  ASSUME ViewInv, NEW notices \in BOOLEAN, LongLink(notices)
  PROVE  ViewInv'
<1>1. /\ lastStatus' /\ ~due' => lastStatus /\ ~due
      /\ up' \in BOOLEAN /\ lastStatus' \in BOOLEAN /\ due' \in BOOLEAN
  BY DEF LongLink, LinkReported, ViewInv, ViewTypeOK
<1>2. UNCHANGED <<table, rules, dumping, waiting, alive, view, lost>>
  BY DEF LongLink, gateway
<1>3. ViewTypeOK'
  BY <1>1, <1>2 DEF ViewInv, ViewTypeOK
<1> QED
  BY <1>1, <1>2, <1>3 DEF ViewInv, RulesOnTheirWay, NodesOnTheirWay

\* A payload the server gets is no longer on its way; one that nobody gets is
\* recorded, or told again by one behind it.
LEMMA SendOwes ==
  ASSUME ViewInv, Send \/ GiveUp
  PROVE  ViewInv'
<1>1. /\ waiting # << >> /\ waiting' = Tail(waiting)
      /\ UNCHANGED <<table, rules, due, dumping, link>>
  BY DEF Send, GiveUp, gateway, update
<1>2. waiting \in Seq(Payloads) /\ view \in Views
  BY DEF ViewInv, ViewTypeOK
<1>3. waiting' \in Seq(Payloads) /\ Head(waiting) \in Payloads
  BY <1>1, <1>2
<1>4. CASE view' = Applied(view, Head(waiting)) /\ lost' = lost
  <2>1. view' \in Views
    BY <1>2, <1>3, <1>4, AppliedProperties
  <2>2. Fold(view', waiting') = Fold(view, waiting)
    BY <1>1, <1>2, <1>4, FoldHead
  <2>3. ViewTypeOK'
    BY <1>1, <1>3, <1>4, <2>1 DEF ViewInv, ViewTypeOK, link
  <2>4. RulesOnTheirWay' /\ NodesOnTheirWay'
    BY <1>1, <1>4, <2>2 DEF ViewInv, RulesOnTheirWay, NodesOnTheirWay, link
  <2> QED
    BY <2>3, <2>4 DEF ViewInv
<1>5. ASSUME NEW cause, view' = view,
             lost' = lost \cup Loss(Head(waiting), waiting', cause)
      PROVE  ViewInv'
  <2>1. \A l \in lost' : l.about \in {"relays", "devices"}
    BY <1>5, LossProperties DEF ViewInv, ViewTypeOK
  <2>2. ASSUME NEW what \in {"relays", "devices"}, ~Recorded(lost', what)
        PROVE  /\ ~Recorded(lost, what)
               /\ what = "relays" =>
                    Fold(view, waiting').rules = Fold(view, waiting).rules
               /\ what = "devices" =>
                    Fold(view, waiting').nodes = Fold(view, waiting).nodes
    <3>1. /\ \A l \in Loss(Head(waiting), waiting', cause) : l.about # what
          /\ ~Recorded(lost, what)
      BY <1>5, <2>2 DEF Recorded
    <3>2. \A q \in Range(waiting') : q \in Range(Tail(waiting))
      BY <1>1
    <3> QED
      BY <1>1, <1>2, <1>3, <3>1, <3>2, HeadDropped
  <2>3. ViewTypeOK'
    BY <1>1, <1>2, <1>3, <1>5, <2>1 DEF ViewInv, ViewTypeOK, link
  <2>4. RulesOnTheirWay'
    BY <1>1, <1>5, <2>2 DEF ViewInv, RulesOnTheirWay, link
  <2>5. NodesOnTheirWay'
    BY <1>1, <1>5, <2>2 DEF ViewInv, NodesOnTheirWay, link
  <2> QED
    BY <2>3, <2>4, <2>5 DEF ViewInv
<1> QED
  BY <1>4, <1>5 DEF Send, GiveUp

\* The link changes; a new server knows nothing, but its connection was not
\* reported yet.
LEMMA LinkOwes ==
  ASSUME ViewInv, WriteFails \/ SameConnection \/ SameDeadConnection \/ ServerGone
                    \/ NewConnection
  PROVE  ViewInv'
<1>1. CASE WriteFails \/ SameConnection \/ SameDeadConnection \/ ServerGone
  <2>1. /\ UNCHANGED <<table, rules, due, dumping, waiting, lastStatus, view, lost>>
        /\ up' \in BOOLEAN /\ alive' \in BOOLEAN
    BY <1>1 DEF WriteFails, SameConnection, SameDeadConnection, ServerGone, Quiet,
                gateway, update, ViewInv, ViewTypeOK
  <2> QED
    BY <2>1 DEF ViewInv, ViewTypeOK, RulesOnTheirWay, NodesOnTheirWay
<1>2. CASE NewConnection
  <2>1. /\ UNCHANGED <<table, rules, due, dumping, waiting, lost>>
        /\ lastStatus' = FALSE /\ up' = TRUE /\ alive' = TRUE /\ view' \in Views
    BY <1>2 DEF NewConnection, gateway, update, ViewInv, ViewTypeOK, Views
  <2> QED
    BY <2>1 DEF ViewInv, ViewTypeOK, RulesOnTheirWay, NodesOnTheirWay
<1> QED
  BY <1>1, <1>2

\* What a step writes to the file is the table it leaves.
LEMMA FileStep ==
  ASSUME ViewInv', FileTypeOK, [Next]_vars
  PROVE  FileTypeOK'
<1>1. file' = file \/ file' = Saved(table')
  <2>1. CASE DeviceRejoins
    BY <2>1 DEF DeviceRejoins
  <2>2. CASE EndpointDiscovered \/ StateChanges \/ DeviceLeaves \/ TableCleared
               \/ RulesChange \/ EntryRemoved \/ StateRequested \/ Restart
    BY <2>2 DEF EndpointDiscovered, StateChanges, DeviceLeaves, TableCleared,
                RulesChange, EntryRemoved, StateRequested, Restart, gateway
  <2>3. CASE \/ UpdateBegins \/ UpdateEnds \/ Network \/ UNCHANGED vars
             \/ \E notices \in BOOLEAN : LongLink(notices)
    BY <2>3 DEF UpdateBegins, UpdateEnds, Network, Send, GiveUp, WriteFails,
                SameConnection, SameDeadConnection, ServerGone, NewConnection,
                Quiet, LongLink, vars, gateway
  <2> QED
    BY <2>1, <2>2, <2>3 DEF Next
<1>2. table' \in Tables
  BY DEF ViewInv, ViewTypeOK
<1>3. Saved(table') \in Seq(Records)
  BY <1>2, SavedType
<1> QED
  BY <1>1, <1>3 DEF FileTypeOK

LEMMA ViewInvInit == Init => ViewInv /\ FileTypeOK
<1> SUFFICES ASSUME Init PROVE ViewInv /\ FileTypeOK
  OBVIOUS
<1>1. table \in Tables
  BY FilesAssumption, LoadedType DEF Init
<1>2. waiting \in Seq(Payloads)
  BY DEF Init
<1>3. view \in Views
  BY DEF Init, Views
<1>4. rules \in 0 .. 1 /\ {due, dumping, up, alive, lastStatus} \subseteq BOOLEAN
  <2>1. rules \in 0 .. 1
    BY DEF Init
  <2>2. \A b \in {due, dumping, up, alive, lastStatus} : b \in {TRUE, FALSE}
    BY DEF Init
  <2> QED
    BY <2>1, <2>2
<1>5. ~lastStatus /\ lost = {}
  BY DEF Init
<1>6. FileTypeOK
  BY FilesAssumption DEF Init, FileTypeOK
<1> QED
  BY <1>1, <1>2, <1>3, <1>4, <1>5, <1>6
     DEF ViewInv, ViewTypeOK, RulesOnTheirWay, NodesOnTheirWay

LEMMA ViewInvStep ==
  ASSUME ViewInv, FileTypeOK, [Next]_vars
  PROVE  ViewInv'
<1>1. CASE Network
  BY <1>1, SendOwes, LinkOwes DEF Network
<1>2. CASE \E notices \in BOOLEAN : LongLink(notices)
  BY <1>2, LongLinkOwes
<1>3. CASE TableCleared \/ EntryRemoved \/ StateRequested
  BY <1>3, SilentChangeOwes
<1>4. CASE UNCHANGED vars
  <2>1. UNCHANGED <<table, rules, due, dumping, waiting, up, alive, lastStatus,
                    view, lost>>
    BY <1>4 DEF vars, gateway, update, link
  <2> QED
    BY <2>1 DEF ViewInv, ViewTypeOK, RulesOnTheirWay, NodesOnTheirWay
<1> QED
  BY <1>1, <1>2, <1>3, <1>4, EndpointDiscoveredOwes, DeviceRejoinsOwes,
     StateChangesOwes, DeviceLeavesOwes, RulesChangeOwes, RestartOwes,
     UpdateBeginsOwes, UpdateEndsOwes DEF Next

LEMMA ViewInvHolds == Spec => [](ViewInv /\ FileTypeOK)
BY ViewInvInit, ViewInvStep, FileStep, PTL DEF Spec

\* Table, file, rules, link, payloads and the server's view keep their types.
THEOREM ViewTypeCorrect == Spec => []TypeOK
<1>1. ViewInv /\ FileTypeOK => TypeOK
  BY DEF ViewInv, FileTypeOK, ViewTypeOK, TypeOK, Tables, Payloads, Views, Range
<1> QED
  BY <1>1, ViewInvHolds, PTL

\* Once the connection was reported, if no payload was lost and no update is
\* due, what the server has and what is on its way make up the table and the
\* rules of the gateway.
THEOREM PayloadsAddUp == Spec => []NothingIsOwed
<1>1. ASSUME ViewInv, lastStatus, lost = {}, ~due, ~dumping
      PROVE  Agrees(FoldLeft(Applied, view, waiting))
  <2>1. /\ Fold(view, waiting).rules = rules
        /\ AgreesWith(table, Fold(view, waiting).nodes)
    BY <1>1 DEF ViewInv, RulesOnTheirWay, NodesOnTheirWay, Recorded
  <2>2. ASSUME NEW e \in Known
        PROVE  FirstNode(table, e) \in Fold(view, waiting).nodes
    <3>1. PICK i \in Idx : e \in Devices /\ IsFirst(table, e, i)
      BY KnownHolds, FirstNodeProperties
    <3> QED
      BY <2>1, <3>1, FirstNodeProperties DEF AgreesWith
  <2>3. Agrees(Fold(view, waiting))
    BY <2>1, <2>2 DEF Agrees, AgreesWith, Used
  <2> QED
    BY <2>3 DEF Fold
<1>2. ViewInv => NothingIsOwed
  BY <1>1 DEF NothingIsOwed
<1> QED
  BY <1>2, ViewInvHolds, PTL
-----------------------------------------------------------------------------
(* The list of the transport *)

\* The numbers of a list of n payloads, the last of which was the a-th.
Recent(a, n) == [i \in 1 .. n |-> a - n + i]

LEMMA RecentSeq ==
  ASSUME NEW a \in Nat, NEW n \in Nat
  PROVE  /\ Recent(a, n) \in Seq(Int)
         /\ Len(Recent(a, n)) = n
         /\ \A i \in 1 .. n : Recent(a, n)[i] = a - n + i
BY DEF Recent

LEMMA RecentTail ==
  ASSUME NEW a \in Nat, NEW n \in Nat \ {0}
  PROVE  /\ Recent(a, n) # << >>
         /\ Head(Recent(a, n)) = a - n + 1
         /\ Tail(Recent(a, n)) = Recent(a, n - 1)
<1> DEFINE R == Recent(a, n)  S == Recent(a, n - 1)
<1>1. R \in Seq(Int) /\ Len(R) = n /\ \A i \in 1 .. n : R[i] = a - n + i
  BY RecentSeq
<1>2. /\ S \in Seq(Int) /\ Len(S) = n - 1
      /\ \A i \in 1 .. n - 1 : S[i] = a - n + 1 + i
  <2>1. n - 1 \in Nat
    OBVIOUS
  <2>2. S \in Seq(Int) /\ Len(S) = n - 1 /\ \A i \in 1 .. n - 1 : S[i] = a - (n - 1) + i
    BY <2>1, RecentSeq
  <2> HIDE DEF S
  <2> QED
    BY <2>2
<1> HIDE DEF R, S
<1>3. /\ Tail(R) \in Seq(Int) /\ Len(Tail(R)) = n - 1
      /\ \A i \in 1 .. n - 1 : Tail(R)[i] = R[i + 1]
  BY <1>1
<1>4. \A i \in 1 .. n - 1 : Tail(R)[i] = S[i]
  <2> TAKE i \in 1 .. n - 1
  <2>1. i + 1 \in 1 .. n /\ a - n + (i + 1) = a - n + 1 + i
    OBVIOUS
  <2> QED
    BY <1>1, <1>2, <1>3, <2>1
<1>5. Tail(R) = S
  <2> DEFINE T == Tail(R)
  <2>1. T \in Seq(Int) /\ S \in Seq(Int) /\ Len(T) = Len(S) /\ Len(S) = n - 1
        /\ \A i \in 1 .. Len(S) : T[i] = S[i]
    BY <1>2, <1>3, <1>4
  <2> HIDE DEF T
  <2>2. T = S
    BY <2>1
  <2> QED
    BY <2>2 DEF T
<1>6. R # << >> /\ Head(R) = a - n + 1
  BY <1>1
<1> QED
  BY <1>5, <1>6 DEF R, S

LEMMA RecentAppend ==
  ASSUME NEW a \in Nat, NEW n \in Nat
  PROVE  Append(Recent(a, n), a + 1) = Recent(a + 1, n + 1)
<1> DEFINE A == Append(Recent(a, n), a + 1)  B == Recent(a + 1, n + 1)
<1>1. /\ Recent(a, n) \in Seq(Int) /\ Len(Recent(a, n)) = n
      /\ \A i \in 1 .. n : Recent(a, n)[i] = a - n + i
  BY RecentSeq
<1>2. /\ B \in Seq(Int) /\ Len(B) = n + 1
      /\ \A i \in 1 .. n + 1 : B[i] = a - n + i
  <2>1. n + 1 \in Nat /\ a + 1 \in Nat
    OBVIOUS
  <2>2. \A i \in 1 .. n + 1 : a + 1 - (n + 1) + i = a - n + i
    OBVIOUS
  <2> QED
    BY <2>1, <2>2, RecentSeq
<1>3. /\ A \in Seq(Int) /\ Len(A) = n + 1
      /\ \A i \in 1 .. n : A[i] = Recent(a, n)[i]
      /\ A[n + 1] = a + 1
  BY <1>1
<1> HIDE DEF A, B
<1>4. \A i \in 1 .. n + 1 : A[i] = B[i]
  BY <1>1, <1>2, <1>3
<1>5. A = B
  BY <1>2, <1>3, <1>4
<1> QED
  BY <1>5 DEF A, B

\* What is published since the start of the process is counted, and what
\* waits is part of it.
CountInv == accepted \in Nat /\ Len(waiting) <= accepted

\* What publishes does not make the list shorter.
LEMMA PublishesNoSend ==
  ASSUME ViewInv, Publishes
  PROVE  ~Send
<1> SUFFICES ASSUME Send PROVE FALSE
  OBVIOUS
<1>0. waiting # << >> /\ waiting' = Tail(waiting)
  BY Zenon DEF Send
<1>1. \E p : Publish(p)
  BY DEF Publishes, EndpointDiscovered, DeviceRejoins, StateChanges, DeviceLeaves,
         RulesChange, UpdateBegins, UpdateEnds
<1>2. waiting \in Seq(Payloads)
  BY DEF ViewInv, ViewTypeOK
<1>3. Len(waiting) \in Nat /\ Len(waiting') = Len(waiting) - 1
  BY <1>0, <1>2
<1>4. PICK p : \/ waiting' = Append(waiting, p)
               \/ waiting' = Append(Tail(waiting), p)
  BY <1>1 DEF Publish
<1>5. Len(waiting') >= Len(waiting)
  BY <1>0, <1>2, <1>4
<1> QED
  BY <1>3, <1>5

LEMMA PublishCounts ==
  ASSUME ViewInv, CountInv, Publishes, Count, ~Restart, ~Send
  PROVE  CountInv' /\ Box!Accept
<1>1. (\E p : Publish(p)) /\ UNCHANGED up
  BY DEF Publishes, EndpointDiscovered, DeviceRejoins, StateChanges, DeviceLeaves,
         RulesChange, Change, UpdateBegins, UpdateEnds, link
<1>2. accepted' = accepted + 1 /\ lastSent' = lastSent
  BY DEF Count
<1>3. /\ waiting \in Seq(Payloads) /\ Len(waiting) \in Nat
      /\ accepted \in Nat /\ Len(waiting) <= accepted
  BY DEF ViewInv, ViewTypeOK, CountInv
<1> DEFINE n == Len(waiting)
           full == ~up /\ n >= MSG_CNT_DISCONN_MAX
           kept == IF full THEN n - 1 ELSE n
           W == Numbers
<1>4. W = Recent(accepted, n) /\ Len(W) = n
  BY <1>3, RecentSeq DEF Numbers, Recent
<1>5. kept \in Nat /\ (full => n \in Nat \ {0})
  BY <1>3, SizesAssumption
<1>6. Len(waiting') = kept + 1
  BY <1>1, <1>3, <1>5 DEF Publish
<1>7. (IF full THEN Tail(W) ELSE W) = Recent(accepted, kept)
  BY <1>3, <1>4, <1>5, RecentTail
<1>8. Numbers' = Recent(accepted + 1, kept + 1)
  BY <1>2, <1>6 DEF Numbers, Recent
<1>9. Numbers' = Append(Recent(accepted, kept), accepted + 1)
  BY <1>3, <1>5, <1>8, RecentAppend
<1>10. CountInv'
  BY <1>2, <1>3, <1>5, <1>6 DEF CountInv
<1>11. Box!Accept
  <2>1. (~up /\ Len(Numbers) >= MSG_CNT_DISCONN_MAX) = full
    BY <1>4
  <2> HIDE DEF full, kept, n
  <2>2. Numbers' = Append(IF ~up /\ Len(Numbers) >= MSG_CNT_DISCONN_MAX
                          THEN Tail(Numbers) ELSE Numbers, accepted + 1)
    BY <1>7, <1>9, <2>1
  <2> QED
    BY <1>1, <1>2, <2>2 DEF Box!Accept
<1> QED
  BY <1>10, <1>11

LEMMA HeadCounts ==
  ASSUME ViewInv, CountInv, Send \/ GiveUp, Count, ~Restart, ~Publishes
  PROVE  CountInv' /\ (Box!Send \/ Box!GiveUp)
<1>1. up /\ waiting # << >> /\ waiting' = Tail(waiting) /\ UNCHANGED up
  <2>1. up /\ waiting # << >> /\ waiting' = Tail(waiting) /\ UNCHANGED link
    BY Zenon DEF Send, GiveUp
  <2> QED
    BY <2>1 DEF link
<1>2. /\ accepted' = accepted
      /\ lastSent' = IF Send THEN accepted - Len(waiting) + 1 ELSE lastSent
  BY DEF Count
<1>3. /\ waiting \in Seq(Payloads) /\ Len(waiting) \in Nat \ {0}
      /\ accepted \in Nat /\ Len(waiting) <= accepted
  BY <1>1 DEF ViewInv, ViewTypeOK, CountInv
<1>4. Len(waiting') = Len(waiting) - 1
  BY <1>1, <1>3
<1>5. Numbers = Recent(accepted, Len(waiting))
  BY DEF Numbers, Recent
<1>6. Numbers' = Recent(accepted, Len(waiting) - 1)
  BY <1>2, <1>4 DEF Numbers, Recent
<1>7. /\ Numbers # << >> /\ Numbers' = Tail(Numbers)
      /\ Head(Numbers) = accepted - Len(waiting) + 1
  BY <1>3, <1>5, <1>6, RecentTail
<1>8. CountInv'
  BY <1>2, <1>3, <1>4 DEF CountInv
<1>9. CASE Send
  BY <1>1, <1>2, <1>7, <1>8, <1>9 DEF Box!Send
<1>10. CASE ~Send
  BY <1>1, <1>2, <1>7, <1>8, <1>10 DEF Box!GiveUp
<1> QED
  BY <1>9, <1>10

LEMMA RestCounts ==
  ASSUME ViewInv, CountInv, UNCHANGED waiting, up' \in BOOLEAN,
         UNCHANGED counts
  PROVE  CountInv' /\ [Box!Next]_(Box!vars)
<1>1. CountInv' /\ UNCHANGED <<Numbers, accepted, lastSent>>
  BY DEF CountInv, Numbers, counts
<1>2. up \in BOOLEAN
  BY DEF ViewInv, ViewTypeOK
<1>3. CASE up' = up
  BY <1>1, <1>3 DEF Box!vars
<1>4. CASE up' = ~up
  BY <1>1, <1>4 DEF Box!Next, Box!LinkChange
<1> QED
  BY <1>1, <1>2, <1>3, <1>4

\* The process is started again.
LEMMA RestartCounts ==
  ASSUME ViewInv, Restart, Count
  PROVE  CountInv' /\ NewList'
<1>1. waiting' \in {<< >>, <<RelaysPayload>>} /\ up' = FALSE
  BY DEF Restart
<1>2. accepted' = Len(waiting') /\ lastSent' = 0
  BY DEF Count
<1>3. Len(waiting') \in {0, 1}
  BY <1>1
<1>4. Numbers' = [i \in 1 .. accepted' |-> i]
  <2>1. \A i \in 1 .. accepted' : accepted' - Len(waiting') + i = i
    BY <1>2, <1>3
  <2> QED
    BY <1>2, <2>1 DEF Numbers
<1> QED
  BY <1>1, <1>2, <1>3, <1>4 DEF CountInv, NewList

LEMMA ListStep ==
  ASSUME ViewInv, ViewInv', CountInv, [Next]_vars, [Count]_<<vars, counts>>
  PROVE  CountInv' /\ [Box!Next \/ (Restart /\ NewList')]_(Box!vars)
<1>1. CASE UNCHANGED <<vars, counts>>
  BY <1>1, RestCounts DEF vars, link, ViewInv, ViewTypeOK
<1>2. CASE Count /\ Restart
  BY <1>2, RestartCounts
<1>3. CASE Count /\ ~Restart /\ Publishes
  <2>1. ~Send
    BY <1>3, PublishesNoSend
  <2> QED
    BY <1>3, <2>1, PublishCounts DEF Box!Next
<1>4. CASE Count /\ ~Restart /\ ~Publishes /\ (Send \/ GiveUp)
  BY <1>4, HeadCounts DEF Box!Next
<1>5. CASE Count /\ ~Restart /\ ~Publishes /\ ~Send /\ ~GiveUp
  <2>1. UNCHANGED counts
    BY <1>5 DEF Count, counts
  <2>2. up' \in BOOLEAN
    BY DEF ViewInv, ViewTypeOK
  <2>3. UNCHANGED waiting
    <3>1. \/ TableCleared \/ EntryRemoved \/ StateRequested
          \/ WriteFails \/ SameConnection \/ SameDeadConnection \/ ServerGone
          \/ NewConnection \/ UNCHANGED vars
          \/ \E notices \in BOOLEAN : LongLink(notices)
      BY <1>5 DEF Next, Publishes, Network
    <3>2. CASE TableCleared \/ EntryRemoved \/ StateRequested \/ UNCHANGED vars
      BY <3>2 DEF TableCleared, EntryRemoved, StateRequested, vars
    <3>3. CASE \/ WriteFails \/ SameConnection \/ SameDeadConnection
               \/ ServerGone \/ NewConnection
      BY <3>3 DEF WriteFails, SameConnection, SameDeadConnection, ServerGone,
                  NewConnection, Quiet
    <3>4. CASE \E notices \in BOOLEAN : LongLink(notices)
      BY <3>4 DEF LongLink
    <3> QED
      BY <3>1, <3>2, <3>3, <3>4
  <2> QED
    BY <2>1, <2>2, <2>3, RestCounts
<1> QED
  BY <1>1, <1>2, <1>3, <1>4, <1>5

LEMMA CountsHold == CountedSpec => [](ViewInv /\ CountInv)
<1>1. ViewInv /\ CountInv /\ ViewInv' /\ [Next]_vars /\ [Count]_<<vars, counts>>
        => CountInv'
  BY ListStep
<1>2. Init /\ CountInit => CountInv
  BY DEF Init, CountInit, CountInv
<1> QED
  BY <1>1, <1>2, ViewInvHolds, PTL DEF CountedSpec, Spec

\* Between one start of the process and the next, the payloads go through the
\* list in the order they were published in, each at most once, and are lost
\* only where Outbox loses one, which is what TransportImplementsOutbox says
\* of the transport itself.
THEOREM ListBehavesAsOutbox == CountedSpec => ListIsAnOutbox
<1>1. Init /\ CountInit => Box!Init
  <2> SUFFICES ASSUME Init, CountInit PROVE Box!Init
    OBVIOUS
  <2>1. Len(waiting) = 0
    BY DEF Init
  <2>2. Numbers = << >>
    BY <2>1 DEF Numbers
  <2> QED
    BY <2>2 DEF Init, CountInit, Box!Init
<1>2. ViewInv /\ CountInv /\ ViewInv' /\ [Next]_vars /\ [Count]_<<vars, counts>>
        => [Box!Next \/ (Restart /\ NewList')]_(Box!vars)
  BY ListStep
<1> QED
  BY <1>1, <1>2, CountsHold, PTL DEF CountedSpec, Spec, ListIsAnOutbox
=============================================================================
