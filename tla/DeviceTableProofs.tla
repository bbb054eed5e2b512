------------------------- MODULE DeviceTableProofs -------------------------
(***************************************************************************)
(* Proofs of the invariants of DeviceTable, for every set of devices and   *)
(* addresses and every size of the table and of the queue.                 *)
(*                                                                         *)
(* The queue of discovery tasks does not depend on the table: its          *)
(* invariants are proved first, from QueueInv alone. Those of the table    *)
(* and the file (TableInv) use the types of the queue, and the attribution *)
(* of endpoints to devices uses both.                                      *)
(***************************************************************************)
EXTENDS DeviceTableClock, DeviceTableLemmas

QueueKept == UNCHANGED <<queue, eventActive>>
TableKept == UNCHANGED <<table, fileExists, file>>

\* What a step may do to the queue.
LEMMA QueueSteps ==
  ASSUME [Next]_vars
  PROVE  \/ QueueKept
         \/ \E n \in NodeIds, e \in Euis :
              n \in Addr[e] /\ StartDiscovery(n, e)
         \/ \E n \in NodeIds, cnt \in 0 .. MaxEndpoints + 1 :
              ActiveEndpointsResponse(n, cnt)
         \/ \E n \in NodeIds, p \in Endpoints :
              SimpleDescriptorResponse(n, p)
         \/ NewDeviceEvent
         \/ \E e \in Euis : DeviceLeft(e)
         \/ Restart /\ queue' = <<>> /\ eventActive' = FALSE
<1>1. CASE UNCHANGED vars
  BY <1>1 DEF vars, QueueKept
<1>2. CASE Discovery
  <2>1. CASE \E e \in Euis, n \in NodeIds : Announce(n, e) \/ Rejoin(n, e)
    <3>1. PICK e \in Euis, n \in NodeIds : Announce(n, e) \/ Rejoin(n, e)
      BY <2>1
    <3>2. n \in Addr[e]
      BY <3>1 DEF Announce, Rejoin
    <3>3. JoinHandler(n, e) \/ QueueKept
      BY <3>1 DEF Announce, Rejoin, QueueKept
    <3>4. StartDiscovery(n, e) \/ QueueKept
      BY <3>3 DEF JoinHandler, ChangeNodeId, QueueKept, vars
    <3> QED
      BY <3>2, <3>4
  <2> QED
    BY <1>2, <2>1 DEF Discovery
<1>3. CASE Tracking \/ NetworkDown \/ Operator
  BY <1>3
     DEF Tracking, CommandReceived, MessageSentStatus, NetworkDown, Operator,
         IndexRemoveCommand, RemoveCommand, SaveCommand, LoadCommand, QueueKept
<1>4. CASE Restart
  BY <1>4 DEF Restart
<1> QED
  BY <1>1, <1>2, <1>3, <1>4 DEF Next

\* What a step may do to the table and the file.
LEMMA TableSteps ==
  ASSUME [Next]_vars
  PROVE  \/ TableKept
         \/ \E n \in NodeIds, e \in Euis :
              /\ n \in Addr[e]
              /\ FirstIndexFromEui64(table, e) # NullIndex
              /\ ChangeNodeId(FirstIndexFromEui64(table, e), n)
         \/ \E n \in NodeIds, p \in Endpoints :
              SimpleDescriptorResponse(n, p)
         \/ \E e \in Euis : DeviceLeft(e)
         \/ \E i \in Idx : IndexRemoveCommand(i)
         \/ \E e \in Euis : RemoveCommand(e)
         \/ \E n \in NodeIds, s \in DeviceStates :
              /\ table' = OptionallyChangeState(table, n, s)
              /\ UNCHANGED <<fileExists, file>>
         \/ NetworkDown
         \/ Restart
         \/ SaveCommand
         \/ LoadCommand
<1>0. /\ StateLeaveSent \in DeviceStates /\ StateJoined \in DeviceStates
      /\ StateUnresponsive \in DeviceStates
  BY DEF DeviceStates
<1>1. CASE UNCHANGED vars
  BY <1>1 DEF vars, TableKept
<1>2. CASE Discovery
  <2>1. CASE \E e \in Euis, n \in NodeIds : Announce(n, e) \/ Rejoin(n, e)
    <3>1. PICK e \in Euis, n \in NodeIds : Announce(n, e) \/ Rejoin(n, e)
      BY <2>1
    <3>2. n \in Addr[e]
      BY <3>1 DEF Announce, Rejoin
    <3>3. CASE JoinHandler(n, e)
      BY <3>2, <3>3 DEF JoinHandler, StartDiscovery, TableKept, vars
    <3>4. CASE /\ table' = OptionallyChangeState(table, n, StateLeaveSent)
               /\ UNCHANGED <<fileExists, file>>
      BY <1>0, <3>4
    <3> QED
      BY <3>1, <3>3, <3>4 DEF Announce, Rejoin
  <2>2. CASE \E n \in NodeIds, cnt \in 0 .. MaxEndpoints + 1 :
               ActiveEndpointsResponse(n, cnt)
    BY <2>2 DEF ActiveEndpointsResponse, TableKept
  <2>3. CASE NewDeviceEvent
    BY <2>3 DEF NewDeviceEvent, TableKept
  <2> QED
    BY <1>2, <2>1, <2>2, <2>3 DEF Discovery
<1>3. CASE Tracking
  <2>1. PICK n \in NodeIds :
          \/ CommandReceived(n)
          \/ \E success, leaveRequest \in BOOLEAN :
               MessageSentStatus(n, success, leaveRequest)
    BY <1>3 DEF Tracking
  <2>2. \E s \in DeviceStates :
          /\ table' = OptionallyChangeState(table, n, s)
          /\ UNCHANGED <<fileExists, file>>
    <3>1. CASE CommandReceived(n)
      BY <1>0, <3>1 DEF CommandReceived
    <3>2. ASSUME NEW success \in BOOLEAN, NEW leaveRequest \in BOOLEAN,
                 MessageSentStatus(n, success, leaveRequest)
          PROVE  \E s \in DeviceStates :
                   /\ table' = OptionallyChangeState(table, n, s)
                   /\ UNCHANGED <<fileExists, file>>
      BY <1>0, <3>2 DEF MessageSentStatus
    <3> QED
      BY <2>1, <3>1, <3>2
  <2> QED
    BY <2>2
<1>4. CASE Operator
  BY <1>4 DEF Operator
<1> QED
  BY <1>1, <1>2, <1>3, <1>4 DEF Next

\* What a deletion does to the table and the file.
LEMMA DeletionSteps ==
  ASSUME \/ \E e \in Euis : DeviceLeft(e)
         \/ \E i \in Idx : IndexRemoveCommand(i)
         \/ \E e \in Euis : RemoveCommand(e)
  PROVE  \/ TableKept
         \/ \E i : table' = DeleteEntry(table, i) /\ Save(table')
         \/ \E i : table' = DeleteEntry(table, i) /\ UNCHANGED <<fileExists, file>>
         \/ \E i, j : /\ table' = DeleteEntry(DeleteEntry(table, i), j)
                      /\ UNCHANGED <<fileExists, file>>
BY DEF DeviceLeft, IndexRemoveCommand, RemoveCommand, TableKept

-----------------------------------------------------------------------------
(* The queue of discovery tasks *)

QueueTypeOK ==
  /\ queue \in Seq(Tasks)
  /\ Len(queue) <= MaxQueueSize
  /\ eventActive \in BOOLEAN

QueueInv ==
  /\ QueueTypeOK
  /\ PendingTaskIsScheduled
  /\ HeadIsNextDue
  /\ PhaseMatchesEndpoint

\* A task in the phase that fits its endpoint.
PhaseFits(t) ==
  (t.endpoint = UnknownEndpoint) <=> (t.state \in {EndpointsSend, EndpointsWaiting})

LEMMA NewTaskType ==
  ASSUME NEW e \in Euis, NEW n \in NodeIds, NEW p \in Endpoints, NEW s \in Phases
  PROVE  NewTask(e, n, p, s) \in Tasks
  BY SizesAssumption DEF NewTask, Tasks

LEMMA TasksForProperties ==
  ASSUME NEW q \in Seq(Tasks), NEW n, NEW p, TasksFor(q, n, p) # {}
  PROVE  /\ TaskIndex(q, n, p) \in 1 .. Len(q)
         /\ q[TaskIndex(q, n, p)].nodeId = n
         /\ q[TaskIndex(q, n, p)].endpoint = p
<1>1. TasksFor(q, n, p) \in SUBSET Nat /\ TasksFor(q, n, p) \subseteq 1 .. Len(q)
  BY DEF TasksFor
<1>2. \E k \in TasksFor(q, n, p) : \A j \in TasksFor(q, n, p) : k <= j
  BY <1>1, NatSetHasMinimum
<1>3. TaskIndex(q, n, p) \in TasksFor(q, n, p)
  BY <1>2 DEF TaskIndex
<1> QED
  BY <1>1, <1>3 DEF TasksFor

\* The loops that delete the tasks of a device keep a part of the queue.
LEMMA DeleteTasksOfProperties ==
  ASSUME NEW q \in Seq(Tasks), NEW e, NEW r \in DeleteTasksOf(q, e)
  PROVE  /\ r \in Seq(Tasks) /\ Len(r) <= Len(q)
         /\ DrawnFrom(r, q)
         /\ SortedByDelay(q) => SortedByDelay(r)
<1> DEFINE K == Skipped(q, e)
<1>1. K \in SUBSET (1 .. Len(q)) /\ r \in KeepOnly(q, K)
  BY DEF Skipped, DeleteTasksOf
<1> HIDE DEF K
<1>2. /\ r \in Seq(Tasks) /\ Len(r) <= Len(q)
      /\ \A a \in 1 .. Len(r) : \E b \in K : r[a] = q[b]
      /\ \A a, b \in 1 .. Len(r) :
           a < b => \E c, d \in K : c < d /\ r[a] = q[c] /\ r[b] = q[d]
  <2> DEFINE T == Tasks
  <2>1. q \in Seq(T)
    OBVIOUS
  <2> HIDE DEF T
  <2>2. /\ r \in Seq(T) /\ Len(r) <= Len(q)
        /\ \A a \in 1 .. Len(r) : \E b \in K : r[a] = q[b]
        /\ \A a, b \in 1 .. Len(r) :
             a < b => \E c, d \in K : c < d /\ r[a] = q[c] /\ r[b] = q[d]
    BY <1>1, <2>1, KeepOnlyProperties
  <2> QED
    BY <2>2 DEF T
<1>3. DrawnFrom(r, q)
  BY <1>1, <1>2 DEF DrawnFrom
<1>4. ASSUME SortedByDelay(q) PROVE SortedByDelay(r)
  <2> SUFFICES ASSUME NEW a \in 1 .. Len(r), NEW b \in 1 .. Len(r), a < b
               PROVE  r[a].delay <= r[b].delay
    BY DEF SortedByDelay
  <2>1. PICK c \in K, d \in K : c < d /\ r[a] = q[c] /\ r[b] = q[d]
    BY <1>2
  <2> QED
    BY <1>1, <1>4, <2>1 DEF SortedByDelay
<1>5. r \in Seq(Tasks) /\ Len(r) <= Len(q)
  BY <1>2
<1> QED
  BY <1>3, <1>4, <1>5

\* What the handlers preserve: adding tasks whose phase fits to a part of the
\* queue schedules the event when it has to.
LEMMA AddTasksPreservesQueueInv ==
  ASSUME QueueInv,
         NEW q \in Seq(Tasks), Len(q) <= MaxQueueSize,
         Len(q) > 0 => eventActive,
         \A a \in 1 .. Len(q) : PhaseFits(q[a]),
         NEW ts \in Seq(Tasks), \A a \in 1 .. Len(ts) : PhaseFits(ts[a]),
         AddTasks(q, ts)
  PROVE  QueueInv'
<1>1. queue' \in Enqueue(q, ts)
  BY DEF AddTasks
<1>2. /\ queue' \in Seq(Tasks) /\ Len(queue') <= MaxQueueSize
      /\ SortedByDelay(queue')
      /\ \A a \in 1 .. Len(queue') : \/ \E b \in 1 .. Len(q) : queue'[a] = q[b]
                                     \/ \E b \in 1 .. Len(ts) : queue'[a] = ts[b]
      /\ Len(q) = 0 /\ Len(ts) = 0 => queue' = <<>>
  BY <1>1, EnqueueProperties
<1>3. eventActive' \in BOOLEAN
  BY DEF AddTasks, QueueInv, QueueTypeOK
<1>4. PendingTaskIsScheduled'
  <2>1. Len(q) \in Nat /\ Len(ts) \in Nat
    OBVIOUS
  <2>2. eventActive' <=> (eventActive \/ (Len(q) = 0 /\ Len(ts) > 0))
    BY DEF AddTasks, QueueInv, QueueTypeOK
  <2>3. CASE Len(q) = 0 /\ Len(ts) = 0
    BY <1>2, <2>3 DEF PendingTaskIsScheduled
  <2>4. CASE ~ (Len(q) = 0 /\ Len(ts) = 0)
    BY <2>1, <2>2, <2>4 DEF PendingTaskIsScheduled
  <2> QED
    BY <2>3, <2>4
<1>5. PhaseMatchesEndpoint'
  <2>1. \A a \in 1 .. Len(queue') : PhaseFits(queue'[a])
    BY <1>2
  <2> QED
    BY <2>1 DEF PhaseMatchesEndpoint, PhaseFits
<1> QED
  BY <1>2, <1>3, <1>4, <1>5 DEF QueueInv, QueueTypeOK, HeadIsNextDue

\* A handler that only deletes tasks and leaves the event alone.
LEMMA DeletingPreservesQueueInv ==
  ASSUME QueueInv,
         queue' \in Seq(Tasks), Len(queue') <= Len(queue),
         DrawnFrom(queue', queue), SortedByDelay(queue'),
         eventActive' = eventActive
  PROVE  QueueInv'
<1>1. queue \in Seq(Tasks) /\ Len(queue) \in Nat /\ Len(queue') \in Nat
  BY DEF QueueInv, QueueTypeOK
<1>2. QueueTypeOK'
  BY <1>1, SizesAssumption DEF QueueInv, QueueTypeOK
<1>3. PendingTaskIsScheduled'
  <2>1. ASSUME queue = <<>> PROVE queue' = <<>>
    BY <1>1, <2>1
  <2> QED
    BY <2>1 DEF QueueInv, PendingTaskIsScheduled
<1>4. PhaseMatchesEndpoint'
  <2>1. \A a \in 1 .. Len(queue') : PhaseFits(queue'[a])
    BY DEF DrawnFrom, QueueInv, PhaseMatchesEndpoint, PhaseFits
  <2> QED
    BY <2>1 DEF PhaseMatchesEndpoint, PhaseFits
<1> QED
  BY <1>2, <1>3, <1>4 DEF QueueInv, HeadIsNextDue

\* A served task keeps its type, whatever the sets of its two fields.
LEMMA ServedTaskType ==
  ASSUME NEW S, NEW D, NEW W,
         NEW t \in [eui64 : Euis, nodeId : NodeIds, endpoint : Endpoints,
                    state : S, delay : D, waitTime : W],
         NEW s \in S, NEW d \in D
  PROVE  [t EXCEPT !.state = s, !.delay = d]
           \in [eui64 : Euis, nodeId : NodeIds, endpoint : Endpoints,
                state : S, delay : D, waitTime : W]
OBVIOUS

\* Serving the head returns a sorted queue of the same length, whose phases
\* still fit.
LEMMA ServeHeadProperties ==
  ASSUME NEW q \in Seq(Tasks), SortedByDelay(q),
         \A a \in 1 .. Len(q) : PhaseFits(q[a]),
         NEW r \in ServeHead(q)
  PROVE  /\ r \in Seq(Tasks) /\ Len(r) = Len(q)
         /\ SortedByDelay(r)
         /\ \A a \in 1 .. Len(r) : PhaseFits(r[a])
         /\ \A a \in 1 .. Len(r) : \E b \in 1 .. Len(q) :
              /\ r[a].eui64 = q[b].eui64 /\ r[a].nodeId = q[b].nodeId
              /\ r[a].endpoint = q[b].endpoint /\ r[a].waitTime = q[b].waitTime
         /\ \A b \in 1 .. Len(q) : \E a \in 1 .. Len(r) :
              r[a].eui64 = q[b].eui64 /\ r[a].waitTime = q[b].waitTime
<1>1. CASE q # <<>> /\ q[1].delay = 0
  <2> DEFINE h == [q[1] EXCEPT !.state = NextPhase(@), !.delay = RetryTicks]
             s == [q EXCEPT ![1] = h]
  <2>1. Len(q) \in Nat \ {0} /\ 1 \in 1 .. Len(q) /\ q[1] \in Tasks
    <3>1. Len(q) \in Nat \ {0}
      BY <1>1, EmptySeq
    <3> QED
      BY <3>1, ElementOfSeq
  <2>2. /\ NextPhase(q[1].state) \in Phases
        /\ NextPhase(q[1].state) \in {EndpointsSend, EndpointsWaiting}
             <=> q[1].state \in {EndpointsSend, EndpointsWaiting}
    <3>1. q[1].state \in Phases
      BY <2>1 DEF Tasks
    <3> QED
      BY <3>1 DEF NextPhase, Phases, EndpointsSend, EndpointsWaiting,
                  SimpleSend, SimpleWaiting
  <2>3. /\ h \in Tasks
        /\ h.eui64 = q[1].eui64 /\ h.nodeId = q[1].nodeId
        /\ h.endpoint = q[1].endpoint /\ h.state = NextPhase(q[1].state)
        /\ h.waitTime = q[1].waitTime
    <3>1. RetryTicks \in 0 .. RetryTicks
      BY SizesAssumption
    <3>2. h = [q[1] EXCEPT !.state = NextPhase(q[1].state), !.delay = RetryTicks]
      OBVIOUS
    <3>3. h \in Tasks
      BY <2>1, <2>2, <3>1, <3>2, ServedTaskType DEF Tasks
    <3> QED
      BY <2>1, <3>3 DEF Tasks
  <2>4. PhaseFits(h)
    BY <2>1, <2>2, <2>3 DEF PhaseFits
  <2> HIDE DEF h
  <2>5. /\ s \in Seq(Tasks) /\ Len(s) = Len(q)
        /\ \A j \in 1 .. Len(q) : s[j] = IF j = 1 THEN h ELSE q[j]
    BY <2>1, <2>3, ExceptSeq
  <2>6. r \in StableSorts(s)
    BY <1>1 DEF ServeHead, h
  <2> HIDE DEF s
  <2>7. /\ r \in Seq(Tasks) /\ Len(r) = Len(s)
        /\ DrawnFrom(r, s) /\ DrawnFrom(s, r) /\ SortedByDelay(r)
    BY <2>5, <2>6, StableSortProperties, StableSortKeeps
  <2>8. ASSUME NEW a \in 1 .. Len(r)
        PROVE  /\ PhaseFits(r[a])
               /\ \E b \in 1 .. Len(q) :
                    /\ r[a].eui64 = q[b].eui64 /\ r[a].nodeId = q[b].nodeId
                    /\ r[a].endpoint = q[b].endpoint
                    /\ r[a].waitTime = q[b].waitTime
    <3>1. PICK c \in 1 .. Len(q) : r[a] = s[c]
      BY <2>5, <2>7 DEF DrawnFrom
    <3>2. CASE c = 1
      BY <2>1, <2>3, <2>4, <2>5, <3>1, <3>2
    <3>3. CASE c # 1
      BY <2>5, <3>1, <3>3
    <3> QED
      BY <3>2, <3>3
  <2>9. ASSUME NEW b \in 1 .. Len(q)
        PROVE  \E a \in 1 .. Len(r) :
                 r[a].eui64 = q[b].eui64 /\ r[a].waitTime = q[b].waitTime
    <3>1. PICK a \in 1 .. Len(r) : s[b] = r[a]
      BY <2>5, <2>7 DEF DrawnFrom
    <3>2. s[b] = IF b = 1 THEN h ELSE q[b]
      BY <2>5
    <3> QED
      BY <2>3, <3>1, <3>2
  <2> QED
    BY <2>5, <2>7, <2>8, <2>9
<1>2. CASE ~ (q # <<>> /\ q[1].delay = 0)
  <2>1. r = q
    BY <1>2 DEF ServeHead
  <2> QED
    BY <2>1
<1> QED
  BY <1>1, <1>2

LEMMA EmptyQueue ==
  ASSUME NEW q, q = <<>>
  PROVE  /\ q \in Seq(Tasks) /\ Len(q) = 0 /\ 1 .. Len(q) = {}
         /\ SortedByDelay(q) /\ Len(q) <= MaxQueueSize
<1>1. q \in Seq(Tasks) /\ Len(q) = 0
  BY EmptySeq
<1>2. 1 .. Len(q) = {}
  BY <1>1
<1>3. Len(q) <= MaxQueueSize
  BY <1>1, SizesAssumption
<1>4. SortedByDelay(q)
  BY <1>2 DEF SortedByDelay
<1> QED
  BY <1>1, <1>2, <1>3, <1>4

\* Every handler preserves the queue's invariant.
LEMMA QueueInvInductive == QueueInv /\ [Next]_vars => QueueInv'
<1> SUFFICES ASSUME QueueInv, [Next]_vars PROVE QueueInv'
  OBVIOUS
<1>1. /\ queue \in Seq(Tasks) /\ Len(queue) \in Nat /\ Len(queue) <= MaxQueueSize
      /\ eventActive \in BOOLEAN
      /\ Len(queue) > 0 => eventActive
      /\ SortedByDelay(queue)
      /\ \A a \in 1 .. Len(queue) : PhaseFits(queue[a])
  BY DEF QueueInv, QueueTypeOK, PendingTaskIsScheduled, HeadIsNextDue,
         PhaseMatchesEndpoint, PhaseFits
<1>2. CASE QueueKept
  BY <1>2 DEF QueueKept, QueueInv, QueueTypeOK, PendingTaskIsScheduled,
              HeadIsNextDue, PhaseMatchesEndpoint
<1>3. ASSUME NEW n \in NodeIds, NEW e \in Euis, StartDiscovery(n, e)
      PROVE  QueueInv'
  <2> DEFINE ts == <<NewTask(e, n, UnknownEndpoint, EndpointsSend)>>
  <2>1. PICK q \in DeleteTasksOf(queue, e) : AddTasks(q, ts)
    BY <1>3 DEF StartDiscovery
  <2>2. q \in Seq(Tasks) /\ Len(q) <= Len(queue) /\ DrawnFrom(q, queue)
    BY <1>1, DeleteTasksOfProperties
  <2>3. NewTask(e, n, UnknownEndpoint, EndpointsSend) \in Tasks
    BY NewTaskType, SizesAssumption DEF Endpoints, UnknownEndpoint, Phases
  <2>4. ts \in Seq(Tasks) /\ \A a \in 1 .. Len(ts) : PhaseFits(ts[a])
    BY <2>3 DEF PhaseFits, NewTask
  <2>5. Len(q) <= MaxQueueSize /\ (Len(q) > 0 => eventActive)
    <3>1. Len(q) \in Nat /\ MaxQueueSize \in Nat
      BY <2>2, SizesAssumption
    <3> QED
      BY <1>1, <2>2, <3>1
  <2>6. \A a \in 1 .. Len(q) : PhaseFits(q[a])
    BY <1>1, <2>2 DEF DrawnFrom
  <2> HIDE DEF ts
  <2> QED
    BY <2>1, <2>2, <2>4, <2>5, <2>6, AddTasksPreservesQueueInv
<1>4. ASSUME NEW n \in NodeIds, NEW cnt \in 0 .. MaxEndpoints + 1,
             ActiveEndpointsResponse(n, cnt)
      PROVE  QueueInv'
  <2> DEFINE k == TaskIndex(queue, n, UnknownEndpoint)
             m == IF cnt > MaxEndpoints THEN MaxEndpoints ELSE cnt
             q == DeleteTask(queue, k)
             ts == [p \in 1 .. m |-> NewTask(queue[k].eui64, n, p, SimpleSend)]
  <2>1. AddTasks(q, ts)
    BY <1>4 DEF ActiveEndpointsResponse
  <2>2. k \in 1 .. Len(queue)
    BY <1>1, <1>4, TasksForProperties DEF ActiveEndpointsResponse
  <2> HIDE DEF k
  <2>3. q \in Seq(Tasks) /\ Len(q) = Len(queue) - 1 /\ DrawnFrom(q, queue)
    BY <1>1, <2>2, DeleteTaskProperties
  <2>4. queue[k].eui64 \in Euis
    <3>1. queue[k] \in Tasks
      BY <1>1, <2>2, ElementOfSeq
    <3> QED
      BY <3>1 DEF Tasks
  <2>5. m \in Nat /\ m <= MaxEndpoints
    BY SizesAssumption
  <2> HIDE DEF m
  <2>6. ASSUME NEW p \in 1 .. m
        PROVE  /\ NewTask(queue[k].eui64, n, p, SimpleSend) \in Tasks
               /\ PhaseFits(NewTask(queue[k].eui64, n, p, SimpleSend))
    <3>1. p \in Endpoints /\ p # UnknownEndpoint /\ SimpleSend \in Phases
      BY <2>5, SizesAssumption DEF Endpoints, UnknownEndpoint, Phases
    <3>2. SimpleSend \notin {EndpointsSend, EndpointsWaiting}
      BY DEF SimpleSend, EndpointsSend, EndpointsWaiting
    <3> QED
      BY <2>4, <3>1, <3>2, NewTaskType DEF PhaseFits, NewTask
  <2>7. ts \in [1 .. m -> Tasks] /\ \A p \in 1 .. m : PhaseFits(ts[p])
    BY <2>6
  <2>8. ts \in Seq(Tasks) /\ \A a \in 1 .. Len(ts) : PhaseFits(ts[a])
    <3> HIDE DEF ts
    <3>1. ts \in Seq(Tasks) /\ Len(ts) = m
      BY <2>5, <2>7
    <3> QED
      BY <2>7, <3>1
  <2>9. Len(q) <= MaxQueueSize /\ (Len(q) > 0 => eventActive)
    BY <1>1, <2>3, SizesAssumption
  <2>10. \A a \in 1 .. Len(q) : PhaseFits(q[a])
    BY <1>1, <2>3 DEF DrawnFrom
  <2> HIDE DEF q, ts
  <2> QED
    BY <2>1, <2>3, <2>8, <2>9, <2>10, AddTasksPreservesQueueInv
<1>5. ASSUME NEW n \in NodeIds, NEW p \in Endpoints,
             SimpleDescriptorResponse(n, p)
      PROVE  QueueInv'
  <2> DEFINE k == TaskIndex(queue, n, p)
  <2>1. queue' = DeleteTask(queue, k) /\ eventActive' = eventActive
    BY <1>5 DEF SimpleDescriptorResponse
  <2>2. k \in 1 .. Len(queue)
    BY <1>1, <1>5, TasksForProperties DEF SimpleDescriptorResponse
  <2> HIDE DEF k
  <2>3. /\ queue' \in Seq(Tasks) /\ Len(queue') = Len(queue) - 1
        /\ DrawnFrom(queue', queue) /\ SortedByDelay(queue')
    BY <1>1, <2>1, <2>2, DeleteTaskProperties
  <2>4. Len(queue') <= Len(queue)
    BY <1>1, <2>3
  <2> QED
    BY <2>1, <2>3, <2>4, DeletingPreservesQueueInv
<1>6. CASE NewDeviceEvent
  <2>1. PICK q \in ServeHead(queue) :
               eventActive' = (q # <<>>) /\ queue' \in AgedQueues(q)
    BY <1>6 DEF NewDeviceEvent
  <2>2. /\ q \in Seq(Tasks) /\ Len(q) = Len(queue) /\ SortedByDelay(q)
        /\ \A a \in 1 .. Len(q) : PhaseFits(q[a])
    BY <1>1, <2>1, ServeHeadProperties
  <2>3. /\ queue' \in Seq(Tasks) /\ Len(queue') <= Len(q) /\ SortedByDelay(queue')
        /\ \A a \in 1 .. Len(queue') : \E b \in 1 .. Len(q) :
             queue'[a].endpoint = q[b].endpoint /\ queue'[a].state = q[b].state
    BY <2>1, <2>2, AgedQueueProperties
  <2>4. eventActive' \in BOOLEAN
    BY <2>1
  <2>5. PendingTaskIsScheduled'
    <3>1. ASSUME q = <<>> PROVE queue' = <<>>
      <4>1. Len(queue') \in Nat /\ Len(queue') <= 0
        BY <2>3, <3>1
      <4> QED
        BY <2>3, <4>1
    <3> QED
      BY <2>1, <3>1 DEF PendingTaskIsScheduled
  <2>6. PhaseMatchesEndpoint'
    BY <2>2, <2>3 DEF PhaseMatchesEndpoint, PhaseFits
  <2>7. Len(queue') <= MaxQueueSize
    BY <1>1, <2>2, <2>3, SizesAssumption
  <2> QED
    BY <2>3, <2>4, <2>5, <2>6, <2>7 DEF QueueInv, QueueTypeOK, HeadIsNextDue
<1>7. ASSUME NEW e \in Euis, DeviceLeft(e) PROVE QueueInv'
  <2>1. queue' \in DeleteTasksOf(queue, e) /\ eventActive' = eventActive
    BY <1>7 DEF DeviceLeft
  <2>2. /\ queue' \in Seq(Tasks) /\ Len(queue') <= Len(queue)
        /\ DrawnFrom(queue', queue) /\ SortedByDelay(queue')
    BY <1>1, <2>1, DeleteTasksOfProperties
  <2> QED
    BY <2>1, <2>2, DeletingPreservesQueueInv
<1>8. CASE queue' = <<>> /\ eventActive' = FALSE
  BY <1>8, EmptyQueue DEF QueueInv, QueueTypeOK, PendingTaskIsScheduled,
     HeadIsNextDue, PhaseMatchesEndpoint
<1> QED
  BY <1>2, <1>3, <1>4, <1>5, <1>6, <1>7, <1>8, QueueSteps

LEMMA QueueInvInit == Init => QueueInv
  BY EmptyQueue DEF Init, QueueInv, QueueTypeOK, PendingTaskIsScheduled,
     HeadIsNextDue, PhaseMatchesEndpoint

LEMMA QueueInvariant == Spec => []QueueInv
  BY QueueInvInit, QueueInvInductive, PTL DEF Spec

\* No lost wake-up (addQueueEntry, the event handler): a queued task always
\* finds the discovery event scheduled.
THEOREM NoLostWakeup == Spec => []PendingTaskIsScheduled
<1>1. QueueInv => PendingTaskIsScheduled
  BY DEF QueueInv
<1> QED
  BY <1>1, QueueInvariant, PTL

\* The event handler serves the task that is due first (bubbleSortQueue,
\* updateTaskQueueByTick): the queue is sorted in every state.
THEOREM QueueStaysSorted == Spec => []HeadIsNextDue
<1>1. QueueInv => HeadIsNextDue
  BY DEF QueueInv
<1> QED
  BY <1>1, QueueInvariant, PTL

\* The event handler never sends the request of the other phase: a task has
\* an endpoint exactly when it asks for a simple descriptor.
THEOREM PhasesFit == Spec => []PhaseMatchesEndpoint
<1>1. QueueInv => PhaseMatchesEndpoint
  BY DEF QueueInv
<1> QED
  BY <1>1, QueueInvariant, PTL

-----------------------------------------------------------------------------
(* The table and devices.txt *)

TableTypeOK ==
  /\ table \in [Idx -> Entries]
  /\ fileExists \in BOOLEAN
  /\ file \in Seq(Records)
  /\ Len(file) <= TableSize

TableInv == TableTypeOK /\ FileCoversTable

\* A handler that saves what it made of the table.
LEMMA SavingPreservesTableInv ==
  ASSUME table' \in [Idx -> Entries], Save(table')
  PROVE  TableInv'
<1>1. file' \in SavedImages(table') /\ fileExists' = TRUE
  BY DEF Save
<1>2. /\ file' \in Seq(Records) /\ Len(file') <= TableSize
      /\ \A i \in Occupied(table') :
           \E k \in 1 .. Len(file') : file'[k] = RecordOf(table'[i])
  BY <1>1, SavedImageProperties
<1> QED
  BY <1>1, <1>2 DEF TableInv, TableTypeOK, FileCoversTable

\* A handler that leaves the file alone and changes no record of a slot that
\* stays occupied.
LEMMA KeepingPreservesTableInv ==
  ASSUME TableInv, table' \in [Idx -> Entries], UNCHANGED <<fileExists, file>>,
         \A i \in Occupied(table') :
           i \in Occupied(table) /\ RecordOf(table'[i]) = RecordOf(table[i])
  PROVE  TableInv'
BY DEF TableInv, TableTypeOK, FileCoversTable

\* A load from a file of the right type.
LEMMA LoadingPreservesTableInv ==
  ASSUME TableInv, UNCHANGED <<fileExists, file>>,
         NEW t \in [Idx -> Entries], NEW g \in Endpoints,
         table' = LoadTable(t, file, g)
  PROVE  TableInv'
<1>1. file \in Seq(Records) /\ Len(file) \in Nat /\ Len(file) <= TableSize
  BY DEF TableInv, TableTypeOK
<1>2. /\ table' \in [Idx -> Entries]
      /\ \A i \in Idx :
           /\ i < Len(file) => /\ i + 1 \in 1 .. Len(file)
                               /\ RecordOf(table'[i]) = file[i + 1]
           /\ i >= Len(file) => table'[i].nodeId = NullNodeId
  BY <1>1, LoadTableProperties
<1>3. FileCoversTable'
  <2> SUFFICES ASSUME NEW i \in Occupied(table')
               PROVE  \E k \in 1 .. Len(file) : file[k] = RecordOf(table'[i])
    BY DEF FileCoversTable
  <2>1. i \in Idx /\ table'[i].nodeId # NullNodeId
    BY DEF Occupied
  <2>2. i \in Int
    BY <2>1 DEF Idx
  <2>3. i < Len(file)
    BY <1>1, <1>2, <2>1, <2>2
  <2> QED
    BY <1>2, <2>1, <2>3
<1> QED
  BY <1>2, <1>3 DEF TableInv, TableTypeOK

\* The table a completed discovery step leaves.
LEMMA DescriptorPutsEntry ==
  ASSUME TableTypeOK, QueueTypeOK, NEW n \in NodeIds,
         NEW p \in Endpoints, SimpleDescriptorResponse(n, p)
  PROVE  \E i \in Idx, k \in 1 .. Len(queue) :
           /\ queue[k].nodeId = n /\ queue[k].eui64 \in Euis
           /\ queue' = DeleteTask(queue, k)
           /\ \/ table[i].nodeId = n /\ table[i].endpoint = p
              \/ table[i].nodeId = NullNodeId
           /\ table' = [table EXCEPT ![i] =
                          [nodeId |-> n, endpoint |-> p,
                           eui64 |-> queue[k].eui64, state |-> StateJoined]]
           /\ table' \in [Idx -> Entries]
<1> DEFINE S == {j \in Idx : table[j].nodeId = n /\ table[j].endpoint = p}
           F == {j \in Idx : table[j].nodeId = NullNodeId}
           i == IF FirstOf(S) # NullIndex THEN FirstOf(S) ELSE FirstOf(F)
           k == TaskIndex(queue, n, p)
           x == [nodeId |-> n, endpoint |-> p,
                 eui64 |-> queue[k].eui64, state |-> StateJoined]
<1>1. /\ i # NullIndex /\ TasksFor(queue, n, p) # {}
      /\ table' = [table EXCEPT ![i] = x] /\ queue' = DeleteTask(queue, k)
  BY DEF SimpleDescriptorResponse, IndexFromNodeIdAndEndpoint, FindFreeIndex,
         IndexFromNodeId
<1>2. k \in 1 .. Len(queue) /\ queue[k].nodeId = n
  BY <1>1, TasksForProperties DEF QueueTypeOK
<1>3. S \in SUBSET Idx /\ F \in SUBSET Idx
  OBVIOUS
<1>4. i \in Idx /\ (i \in S \/ i \in F)
  BY <1>1, <1>3, FirstOfProperties
<1>5. \/ table[i].nodeId = n /\ table[i].endpoint = p
      \/ table[i].nodeId = NullNodeId
  BY <1>4
<1>6. queue[k].eui64 \in Euis
  <2>1. queue \in Seq(Tasks)
    BY DEF QueueTypeOK
  <2> HIDE DEF k
  <2>2. queue[k] \in Tasks
    BY <1>2, <2>1, ElementOfSeq
  <2> QED
    BY <2>2 DEF Tasks
<1>7. x \in Entries
  BY <1>6, SizesAssumption DEF Entries, Endpoints, DeviceStates
<1> HIDE DEF x, i
<1>8. table' \in [Idx -> Entries]
  BY <1>1, <1>4, <1>7 DEF TableTypeOK
<1> QED
  BY <1>1, <1>2, <1>4, <1>5, <1>6, <1>8 DEF x

LEMMA OptionallyChangeStateProperties ==
  ASSUME NEW t \in [Idx -> Entries], NEW n, NEW s \in DeviceStates
  PROVE  /\ OptionallyChangeState(t, n, s) \in [Idx -> Entries]
         /\ \A j \in Idx :
              RecordOf(OptionallyChangeState(t, n, s)[j]) = RecordOf(t[j])
<1> DEFINE i == IndexFromNodeId(t, n)
<1>1. \/ OptionallyChangeState(t, n, s) = t
      \/ OptionallyChangeState(t, n, s) = UpdateDeviceState(t, i, s)
  BY DEF OptionallyChangeState
<1> HIDE DEF i
<1> QED
  BY <1>1, UpdateDeviceStateProperties

LEMMA RecordFields ==
  ASSUME NEW x, NEW y, RecordOf(x) = RecordOf(y)
  PROVE  x.nodeId = y.nodeId /\ x.endpoint = y.endpoint /\ x.eui64 = y.eui64
BY DEF RecordOf

LEMMA DeletionsOnlyClear ==
  ASSUME NEW t \in [Idx -> Entries], NEW i, NEW j, NEW u,
         u = DeleteEntry(t, i) \/ u = DeleteEntry(DeleteEntry(t, i), j)
  PROVE  /\ u \in [Idx -> Entries]
         /\ \A k \in Idx : u[k] = NullEntry \/ u[k] = t[k]
<1> DEFINE v == DeleteEntry(t, i)
<1>1. v \in [Idx -> Entries] /\ \A k \in Idx : v[k] = NullEntry \/ v[k] = t[k]
  BY DeleteEntryProperties
<1>2. u = v \/ u = DeleteEntry(v, j)
  OBVIOUS
<1> HIDE DEF v
<1>3. DeleteEntry(v, j) \in [Idx -> Entries]
      /\ \A k \in Idx : DeleteEntry(v, j)[k] = NullEntry \/ DeleteEntry(v, j)[k] = v[k]
  BY <1>1, DeleteEntryProperties
<1> QED
  BY <1>1, <1>2, <1>3

\* Every handler preserves the table's invariant.
LEMMA TableInvInductive == QueueInv /\ TableInv /\ [Next]_vars => TableInv'
<1> SUFFICES ASSUME QueueInv, TableInv, [Next]_vars PROVE TableInv'
  OBVIOUS
<1>1. table \in [Idx -> Entries] /\ QueueTypeOK /\ TableTypeOK
  BY DEF TableInv, TableTypeOK, QueueInv
<1>2. CASE TableKept
  BY <1>2 DEF TableKept, TableInv, TableTypeOK, FileCoversTable, Occupied
<1>3. ASSUME NEW n \in NodeIds, NEW i, ChangeNodeId(i, n) PROVE TableInv'
  <2>1. table' \in [Idx -> Entries]
    BY <1>1, <1>3, UpdateNodeIdProperties DEF ChangeNodeId
  <2> QED
    BY <1>3, <2>1, SavingPreservesTableInv DEF ChangeNodeId
<1>4. ASSUME NEW n \in NodeIds, NEW p \in Endpoints,
             SimpleDescriptorResponse(n, p)
      PROVE  TableInv'
  <2>1. table' \in [Idx -> Entries]
    BY <1>1, <1>4, DescriptorPutsEntry
  <2>2. Save(table')
    BY <1>4 DEF SimpleDescriptorResponse
  <2> QED
    BY <2>1, <2>2, SavingPreservesTableInv
<1>5. ASSUME NEW i, table' = DeleteEntry(table, i), Save(table') PROVE TableInv'
  BY <1>1, <1>5, DeleteEntryProperties, SavingPreservesTableInv
<1>6. ASSUME NEW i, NEW j, UNCHANGED <<fileExists, file>>,
             \/ table' = DeleteEntry(table, i)
             \/ table' = DeleteEntry(DeleteEntry(table, i), j)
      PROVE  TableInv'
  <2>1. /\ table' \in [Idx -> Entries]
        /\ \A k \in Idx : table'[k] = NullEntry \/ table'[k] = table[k]
    BY <1>1, <1>6, DeletionsOnlyClear
  <2>2. \A k \in Occupied(table') : k \in Occupied(table) /\ table'[k] = table[k]
    BY <2>1 DEF Occupied, NullEntry
  <2> QED
    BY <1>6, <2>1, <2>2, KeepingPreservesTableInv
<1>7. ASSUME NEW n \in NodeIds, NEW s \in DeviceStates,
             table' = OptionallyChangeState(table, n, s),
             UNCHANGED <<fileExists, file>>
      PROVE  TableInv'
  <2>1. /\ table' \in [Idx -> Entries]
        /\ \A j \in Idx : RecordOf(table'[j]) = RecordOf(table[j])
    BY <1>1, <1>7, OptionallyChangeStateProperties
  <2>2. \A j \in Occupied(table') : j \in Occupied(table)
    BY <2>1, RecordFields DEF Occupied
  <2>3. \A j \in Occupied(table') : j \in Idx
    BY DEF Occupied
  <2> QED
    BY <1>7, <2>1, <2>2, <2>3, KeepingPreservesTableInv
<1>8. CASE NetworkDown
  BY <1>8, EmptyTableType, SavingPreservesTableInv DEF NetworkDown
<1>9. CASE Restart
  <2>1. CASE \E g \in Endpoints : table' = LoadTable(EmptyTable, file, g)
    BY <1>9, <2>1, EmptyTableType, LoadingPreservesTableInv DEF Restart
  <2>2. CASE table' = EmptyTable
    <3>1. Occupied(table') = {}
      BY <2>2 DEF Occupied, EmptyTable, NullEntry
    <3> QED
      BY <1>9, <2>2, <3>1, EmptyTableType, KeepingPreservesTableInv DEF Restart
  <2> QED
    BY <1>9, <2>1, <2>2 DEF Restart
<1>10. CASE SaveCommand
  BY <1>1, <1>10, SavingPreservesTableInv DEF SaveCommand
<1>11. CASE LoadCommand
  BY <1>1, <1>11, LoadingPreservesTableInv DEF LoadCommand
<1>12. CASE \/ \E e \in Euis : DeviceLeft(e)
            \/ \E i \in Idx : IndexRemoveCommand(i)
            \/ \E e \in Euis : RemoveCommand(e)
  BY <1>2, <1>5, <1>6, <1>12, DeletionSteps
<1> QED
  BY <1>2, <1>3, <1>4, <1>7, <1>8, <1>9, <1>10, <1>11, <1>12, TableSteps

LEMMA TableInvInit == Init => TableInv
<1> SUFFICES ASSUME Init PROVE TableInv
  OBVIOUS
<1>1. file \in Seq(Records) /\ Len(file) <= TableSize
  BY EmptySeq, SizesAssumption DEF Init
<1>2. Occupied(table) = {}
  BY DEF Init, Occupied, EmptyTable, NullEntry
<1> QED
  BY <1>1, <1>2, EmptyTableType DEF Init, TableInv, TableTypeOK, FileCoversTable

LEMMA TableInvariant == Spec => []TableInv
  BY TableInvInit, TableInvInductive, QueueInvariant, PTL DEF Spec

\* Every variable of the plugin keeps its type, and the queue and the file
\* their bounds.
THEOREM TypeCorrect == Spec => []TypeOK
<1>1. QueueInv /\ TableInv => TypeOK
  BY DEF QueueInv, QueueTypeOK, TableInv, TableTypeOK, TypeOK
<1> QED
  BY <1>1, QueueInvariant, TableInvariant, PTL

\* A restart loses no discovered endpoint: each one in the table is in
\* devices.txt, under its present address (emAfDeviceTableSave and its
\* callers).
THEOREM FileIsComplete == Spec => []FileCoversTable
<1>1. TableInv => FileCoversTable
  BY DEF TableInv
<1> QED
  BY <1>1, TableInvariant, PTL

LEMMA LeavingClearsDevice ==
  ASSUME TableInv, NEW e \in Euis, DeviceLeft(e)
  PROVE  /\ \A i \in Idx : table'[i].eui64 # e
         /\ FirstIndexFromEui64(table, e) # NullIndex =>
              \A k \in 1 .. Len(file') : file'[k].eui64 # e
<1> DEFINE S == {j \in Idx : table[j].eui64 = e}
           i == FirstIndexFromEui64(table, e)
<1>1. table \in [Idx -> Entries]
  BY DEF TableInv, TableTypeOK
<1>2. /\ S \in SUBSET Idx /\ i = FirstOf(S)
      /\ i # NullIndex => i \in S /\ \A j \in S : i <= j
      /\ i = NullIndex => S = {}
  <2>1. NullIndex \notin Idx
    BY SizesAssumption DEF Idx, NullIndex
  <2> QED
    BY <2>1, FirstOfProperties DEF FirstIndexFromEui64
<1>3. CASE i # NullIndex
  <2>1. table' = DeleteEntry(table, i) /\ file' \in SavedImages(table')
    BY <1>3 DEF DeviceLeft, Save
  <2>2. i \in Idx /\ table[i].eui64 = e /\ \A j \in S : j >= i
    BY <1>2, <1>3 DEF Idx
  <2> HIDE DEF i
  <2>3. /\ table' \in [Idx -> Entries]
        /\ \A j \in Idx : table'[j] = IF j >= i /\ table[j].eui64 = e
                                      THEN NullEntry ELSE table[j]
    BY <1>1, <2>1, <2>2, DeleteEntryProperties
  <2>4. NullEntry.eui64 # e
    BY NullAssumption DEF NullEntry
  <2>5. \A j \in Idx : table'[j].eui64 # e
    BY <2>2, <2>3, <2>4
  <2>6. ASSUME NEW k \in 1 .. Len(file') PROVE file'[k].eui64 # e
    <3>1. PICK j \in Occupied(table') : file'[k] = RecordOf(table'[j])
      BY <2>1, <2>3, SavedImageProperties
    <3>2. j \in Idx
      BY DEF Occupied
    <3> QED
      BY <2>5, <3>1, <3>2 DEF RecordOf
  <2> QED
    BY <2>5, <2>6
<1>4. CASE i = NullIndex
  <2>1. table' = table
    BY <1>4 DEF DeviceLeft
  <2> QED
    BY <1>2, <1>4, <2>1
<1> QED
  BY <1>3, <1>4

\* A departure clears the device out of every slot of the table and out of
\* the file (newDeviceLeftHandler, emberAfDeviceTableDeleteEntry), free slots
\* with a leftover EUI64 included.
THEOREM DepartureClearsDevice == Spec => DepartureIsComplete
<1>1. ASSUME TableInv, [Next]_vars
      PROVE  [\A e \in Euis :
                DeviceLeft(e) =>
                  /\ \A i \in Idx : table'[i].eui64 # e
                  /\ FirstIndexFromEui64(table, e) # NullIndex =>
                       \A k \in 1 .. Len(file') : file'[k].eui64 # e]_vars
  BY <1>1, LeavingClearsDevice
<1> QED
  BY <1>1, TableInvariant, PTL DEF Spec, DepartureIsComplete
-----------------------------------------------------------------------------
(* The time discovery takes *)

\* A task was not made before the discovery of its device: the time it waited
\* is the time since then, or at most MaxWaitTicks less if it is one of those
\* that the answer to the first request made.
TaskInTime(t, c) ==
  /\ c[t.eui64] <= t.waitTime + MaxWaitTicks
  /\ t.endpoint = UnknownEndpoint => c[t.eui64] <= t.waitTime

ClockInv ==
  /\ clock \in [Euis -> 0 .. Deadline]
  /\ \A k \in 1 .. Len(queue) : TaskInTime(queue[k], clock)
  /\ eventActive => \E e \in Euis : clock[e] < Deadline

\* What a run of the event does to the clock, and what any other step does.
LEMMA ClockSteps ==
  ASSUME ClockTick, clock \in [Euis -> 0 .. Deadline]
  PROVE  /\ clock' \in [Euis -> 0 .. Deadline]
         /\ \A e \in Euis :
              /\ clock'[e] <= clock[e] + 1
              /\ ~ NewDeviceEvent => clock'[e] <= clock[e]
              /\ \A n \in NodeIds : StartDiscovery(n, e) => clock'[e] = 0
<1>1. Deadline \in Nat
  BY SizesAssumption DEF Deadline
<1>2. ASSUME NEW e \in Euis
      PROVE  /\ clock'[e] \in 0 .. Deadline
             /\ clock'[e] <= clock[e] + 1
             /\ ~ NewDeviceEvent => clock'[e] <= clock[e]
             /\ \A n \in NodeIds : StartDiscovery(n, e) => clock'[e] = 0
  <2>1. clock'[e] = IF \E n \in NodeIds : StartDiscovery(n, e) THEN 0
                    ELSE IF NewDeviceEvent /\ clock[e] < Deadline
                         THEN clock[e] + 1 ELSE clock[e]
    BY DEF ClockTick
  <2>2. clock[e] \in 0 .. Deadline
    OBVIOUS
  <2> QED
    BY <1>1, <2>1, <2>2
<1>3. clock' \in [Euis -> 0 .. Deadline]
  <2>1. \E f : clock' = [e \in Euis |-> f[e]]
    BY DEF ClockTick
  <2> QED
    BY <1>2 DEF ClockTick
<1> QED
  BY <1>2, <1>3

\* A task that stays in time keeps an unfinished discovery before its
\* deadline.
LEMMA TaskBeforeDeadline ==
  ASSUME NEW c \in [Euis -> 0 .. Deadline], NEW t \in Tasks, TaskInTime(t, c)
  PROVE  /\ t.eui64 \in Euis
         /\ c[t.eui64] <= 2 * MaxWaitTicks
         /\ c[t.eui64] + 1 < Deadline
<1>1. t.eui64 \in Euis /\ t.waitTime \in 0 .. MaxWaitTicks
  BY DEF Tasks
<1>2. c[t.eui64] \in Nat /\ MaxWaitTicks \in Nat
  BY <1>1, SizesAssumption DEF Deadline
<1> QED
  BY <1>1, <1>2 DEF TaskInTime, Deadline

\* A clock that does not run on leaves a task in time.
LEMMA TaskStaysInTime ==
  ASSUME NEW c \in [Euis -> 0 .. Deadline], NEW d \in [Euis -> 0 .. Deadline],
         NEW t \in Tasks, TaskInTime(t, c), d[t.eui64] <= c[t.eui64]
  PROVE  TaskInTime(t, d)
<1>1. t.eui64 \in Euis /\ t.waitTime \in 0 .. MaxWaitTicks
  BY DEF Tasks
<1>2. c[t.eui64] \in Nat /\ d[t.eui64] \in Nat /\ MaxWaitTicks \in Nat
  BY <1>1, SizesAssumption DEF Deadline
<1> QED
  BY <1>1, <1>2 DEF TaskInTime

LEMMA ClockInvInit == Init /\ ClockInit => ClockInv
<1> SUFFICES ASSUME Init, ClockInit PROVE ClockInv
  OBVIOUS
<1>1. 0 \in 0 .. Deadline
  BY SizesAssumption DEF Deadline
<1>2. clock \in [Euis -> 0 .. Deadline]
  BY <1>1 DEF ClockInit
<1>3. 1 .. Len(queue) = {} /\ eventActive = FALSE
  BY EmptyQueue DEF Init
<1> QED
  BY <1>2, <1>3 DEF ClockInv

LEMMA ClockInvInductive ==
  ASSUME QueueInv, QueueInv', ClockInv, [Next]_vars, ClockTick
  PROVE  ClockInv'
<1>1. /\ queue \in Seq(Tasks) /\ SortedByDelay(queue)
      /\ \A a \in 1 .. Len(queue) : PhaseFits(queue[a]) /\ queue[a] \in Tasks
      /\ queue # <<>> => eventActive
      /\ eventActive \in BOOLEAN
  BY DEF QueueInv, QueueTypeOK, PendingTaskIsScheduled, HeadIsNextDue,
         PhaseMatchesEndpoint, PhaseFits
<1>2. /\ clock \in [Euis -> 0 .. Deadline]
      /\ \A k \in 1 .. Len(queue) : TaskInTime(queue[k], clock)
      /\ eventActive => \E e \in Euis : clock[e] < Deadline
  BY DEF ClockInv
<1>3. /\ clock' \in [Euis -> 0 .. Deadline]
      /\ \A e \in Euis :
           /\ clock'[e] <= clock[e] + 1
           /\ ~ NewDeviceEvent => clock'[e] <= clock[e]
           /\ \A n \in NodeIds : StartDiscovery(n, e) => clock'[e] = 0
  BY <1>2, ClockSteps
<1>4. queue' \in Seq(Tasks) /\ \A a \in 1 .. Len(queue') : queue'[a] \in Tasks
  BY DEF QueueInv, QueueTypeOK
<1>5. Deadline \in Nat /\ MaxWaitTicks \in Nat
  BY SizesAssumption DEF Deadline
<1>6. CASE NewDeviceEvent
  <2>1. PICK q \in ServeHead(queue) :
               eventActive' = (q # <<>>) /\ queue' \in AgedQueues(q)
    BY <1>6 DEF NewDeviceEvent
  <2>2. /\ q \in Seq(Tasks) /\ Len(q) = Len(queue)
        /\ \A a \in 1 .. Len(q) : \E b \in 1 .. Len(queue) :
             /\ q[a].eui64 = queue[b].eui64 /\ q[a].endpoint = queue[b].endpoint
             /\ q[a].waitTime = queue[b].waitTime
    BY <1>1, <2>1, ServeHeadProperties
  <2>3. \A a \in 1 .. Len(queue') : \E b \in 1 .. Len(q) :
          /\ queue'[a].eui64 = q[b].eui64 /\ queue'[a].endpoint = q[b].endpoint
          /\ queue'[a].waitTime = q[b].waitTime + 1
    BY <2>1, <2>2, AgedQueueProperties
  <2>4. ASSUME NEW a \in 1 .. Len(queue')
        PROVE  TaskInTime(queue'[a], clock')
    <3>1. PICK b \in 1 .. Len(queue) :
            /\ queue'[a].eui64 = queue[b].eui64
            /\ queue'[a].endpoint = queue[b].endpoint
            /\ queue'[a].waitTime = queue[b].waitTime + 1
      BY <2>2, <2>3
    <3>2. queue[b] \in Tasks /\ TaskInTime(queue[b], clock)
      BY <1>1, <1>2
    <3>3. queue[b].eui64 \in Euis /\ queue[b].waitTime \in Nat
      BY <3>2, SizesAssumption DEF Tasks
    <3>4. /\ clock[queue[b].eui64] \in Nat /\ clock'[queue[b].eui64] \in Nat
          /\ clock'[queue[b].eui64] <= clock[queue[b].eui64] + 1
      BY <1>2, <1>3, <1>5, <3>3
    <3> QED
      BY <1>5, <3>1, <3>2, <3>3, <3>4 DEF TaskInTime
  <2>5. ASSUME eventActive' PROVE \E e \in Euis : clock'[e] < Deadline
    <3>1. 1 \in 1 .. Len(queue)
      <4>1. q # <<>>
        BY <2>1, <2>5
      <4>2. Len(q) \in Nat \ {0}
        BY <2>2, <4>1, EmptySeq
      <4> QED
        BY <2>2, <4>2
    <3>2. /\ queue[1].eui64 \in Euis
          /\ clock[queue[1].eui64] + 1 < Deadline
      BY <1>1, <1>2, <3>1, TaskBeforeDeadline
    <3>3. /\ clock[queue[1].eui64] \in Nat /\ clock'[queue[1].eui64] \in Nat
          /\ clock'[queue[1].eui64] <= clock[queue[1].eui64] + 1
      BY <1>2, <1>3, <1>5, <3>2
    <3> QED
      BY <1>5, <3>2, <3>3
  <2> QED
    BY <1>3, <2>4, <2>5 DEF ClockInv
<1>7. CASE ~ NewDeviceEvent
  <2>1. \A e \in Euis : /\ clock'[e] <= clock[e]
                        /\ clock[e] \in Nat /\ clock'[e] \in Nat
    BY <1>2, <1>3, <1>5, <1>7
  \* A task that was there before is still in time.
  <2>2. ASSUME NEW t \in Tasks, TaskInTime(t, clock)
        PROVE  TaskInTime(t, clock')
    <3>1. t.eui64 \in Euis
      BY DEF Tasks
    <3> QED
      BY <1>2, <1>3, <2>1, <2>2, <3>1, TaskStaysInTime
  <2>3. ASSUME NEW q \in Seq(Tasks), DrawnFrom(q, queue), NEW a \in 1 .. Len(q)
        PROVE  q[a] \in Tasks /\ TaskInTime(q[a], clock')
    <3>1. PICK b \in 1 .. Len(queue) : q[a] = queue[b]
      BY <2>3 DEF DrawnFrom
    <3> QED
      BY <1>1, <1>2, <2>2, <3>1
  <2>4. ASSUME eventActive PROVE \E e \in Euis : clock'[e] < Deadline
    <3>1. PICK e \in Euis : clock[e] < Deadline
      BY <1>2, <2>4
    <3> QED
      BY <1>5, <2>1, <3>1
  <2>5. CASE QueueKept
    BY <1>1, <1>2, <1>3, <2>2, <2>4, <2>5 DEF QueueKept, ClockInv
  <2>6. ASSUME NEW n \in NodeIds, NEW e \in Euis, StartDiscovery(n, e)
        PROVE  ClockInv'
    <3> DEFINE ts == <<NewTask(e, n, UnknownEndpoint, EndpointsSend)>>
    <3>1. PICK q \in DeleteTasksOf(queue, e) : AddTasks(q, ts)
      BY <2>6 DEF StartDiscovery
    <3>2. q \in Seq(Tasks) /\ Len(q) <= Len(queue) /\ DrawnFrom(q, queue)
      BY <1>1, DeleteTasksOfProperties
    <3>3. NewTask(e, n, UnknownEndpoint, EndpointsSend) \in Tasks
      BY NewTaskType, SizesAssumption DEF Endpoints, UnknownEndpoint, Phases
    <3>4. clock'[e] = 0
      BY <1>3, <2>6
    <3>5. \A b \in 1 .. Len(ts) : TaskInTime(ts[b], clock')
      BY <1>5, <3>4 DEF TaskInTime, NewTask
    <3>6. ts \in Seq(Tasks)
      BY <3>3
    <3>7. Len(q) <= MaxQueueSize
      <4>1. Len(q) \in Nat /\ Len(queue) \in Nat /\ MaxQueueSize \in Nat
        BY <1>1, <3>2, SizesAssumption
      <4> QED
        BY <3>2, <4>1 DEF QueueInv, QueueTypeOK
    <3> HIDE DEF ts
    <3>8. \A a \in 1 .. Len(queue') : \/ \E b \in 1 .. Len(q) : queue'[a] = q[b]
                                      \/ \E b \in 1 .. Len(ts) : queue'[a] = ts[b]
      BY <3>1, <3>2, <3>6, <3>7, EnqueueProperties DEF AddTasks
    <3>9. \A a \in 1 .. Len(queue') : TaskInTime(queue'[a], clock')
      BY <2>3, <3>2, <3>5, <3>8
    <3>10. clock'[e] < Deadline
      BY <1>5, <3>4 DEF Deadline
    <3> QED
      BY <1>3, <3>9, <3>10 DEF ClockInv
  <2>7. ASSUME NEW n \in NodeIds, NEW cnt \in 0 .. MaxEndpoints + 1,
               ActiveEndpointsResponse(n, cnt)
        PROVE  ClockInv'
    <3> DEFINE k == TaskIndex(queue, n, UnknownEndpoint)
               m == IF cnt > MaxEndpoints THEN MaxEndpoints ELSE cnt
               q == DeleteTask(queue, k)
               ts == [p \in 1 .. m |-> NewTask(queue[k].eui64, n, p, SimpleSend)]
    <3>1. AddTasks(q, ts)
      BY <2>7 DEF ActiveEndpointsResponse
    <3>2. k \in 1 .. Len(queue) /\ queue[k].endpoint = UnknownEndpoint
      BY <1>1, <2>7, TasksForProperties DEF ActiveEndpointsResponse
    <3>3. queue[k] \in Tasks /\ TaskInTime(queue[k], clock')
      BY <1>1, <1>2, <2>2, <3>2
    <3> HIDE DEF k
    <3>4. q \in Seq(Tasks) /\ Len(q) = Len(queue) - 1 /\ DrawnFrom(q, queue)
      BY <1>1, <3>2, DeleteTaskProperties
    <3>5. m \in Nat /\ m <= MaxEndpoints
      BY SizesAssumption
    <3>6. ASSUME NEW p \in 1 .. m
          PROVE  /\ NewTask(queue[k].eui64, n, p, SimpleSend) \in Tasks
                 /\ TaskInTime(NewTask(queue[k].eui64, n, p, SimpleSend), clock')
      <4>1. queue[k].eui64 \in Euis /\ queue[k].waitTime \in 0 .. MaxWaitTicks
        BY <3>3 DEF Tasks
      <4>2. p \in Endpoints /\ p # UnknownEndpoint /\ SimpleSend \in Phases
        BY <3>5, SizesAssumption DEF Endpoints, UnknownEndpoint, Phases
      <4>3. clock'[queue[k].eui64] <= queue[k].waitTime
        BY <3>2, <3>3 DEF TaskInTime
      <4>4. clock'[queue[k].eui64] <= 0 + MaxWaitTicks
        BY <1>5, <2>1, <4>1, <4>3
      <4> QED
        BY <4>1, <4>2, <4>4, NewTaskType DEF TaskInTime, NewTask
    <3>7. ts \in Seq(Tasks) /\ Len(ts) = m
      BY <3>5, <3>6
    <3>8. \A b \in 1 .. Len(ts) : TaskInTime(ts[b], clock')
      BY <3>6, <3>7
    <3>9. Len(q) <= MaxQueueSize
      <4>1. Len(queue) \in Nat /\ MaxQueueSize \in Nat
        BY <1>1, SizesAssumption
      <4> QED
        BY <3>4, <4>1 DEF QueueInv, QueueTypeOK
    <3>10. eventActive
      BY <1>1, <3>2, EmptyQueue
    <3> HIDE DEF q, ts, m
    <3>11. \A a \in 1 .. Len(queue') : \/ \E b \in 1 .. Len(q) : queue'[a] = q[b]
                                       \/ \E b \in 1 .. Len(ts) : queue'[a] = ts[b]
      BY <3>1, <3>4, <3>7, <3>9, EnqueueProperties DEF AddTasks
    <3>12. \A a \in 1 .. Len(queue') : TaskInTime(queue'[a], clock')
      BY <2>3, <3>4, <3>8, <3>11
    <3> QED
      BY <1>3, <2>4, <3>10, <3>12 DEF ClockInv
  <2>8. ASSUME NEW n \in NodeIds, NEW p \in Endpoints,
               SimpleDescriptorResponse(n, p)
        PROVE  ClockInv'
    <3> DEFINE k == TaskIndex(queue, n, p)
    <3>1. queue' = DeleteTask(queue, k) /\ eventActive' = eventActive
      BY <2>8 DEF SimpleDescriptorResponse
    <3>2. k \in 1 .. Len(queue)
      BY <1>1, <2>8, TasksForProperties DEF SimpleDescriptorResponse
    <3> HIDE DEF k
    <3>3. DrawnFrom(queue', queue)
      BY <1>1, <3>1, <3>2, DeleteTaskProperties
    <3>4. \A a \in 1 .. Len(queue') : TaskInTime(queue'[a], clock')
      BY <1>4, <2>3, <3>3
    <3> QED
      BY <1>3, <2>4, <3>1, <3>4 DEF ClockInv
  <2>9. ASSUME NEW e \in Euis, DeviceLeft(e) PROVE ClockInv'
    <3>1. queue' \in DeleteTasksOf(queue, e) /\ eventActive' = eventActive
      BY <2>9 DEF DeviceLeft
    <3>2. DrawnFrom(queue', queue)
      BY <1>1, <3>1, DeleteTasksOfProperties
    <3>3. \A a \in 1 .. Len(queue') : TaskInTime(queue'[a], clock')
      BY <1>4, <2>3, <3>2
    <3> QED
      BY <1>3, <2>4, <3>1, <3>3 DEF ClockInv
  <2>10. CASE queue' = <<>> /\ eventActive' = FALSE
    <3>1. 1 .. Len(queue') = {}
      BY <2>10, EmptyQueue
    <3> QED
      BY <1>3, <2>10, <3>1 DEF ClockInv
  <2> QED
    BY <1>7, <2>5, <2>6, <2>7, <2>8, <2>9, <2>10, QueueSteps
<1> QED
  BY <1>6, <1>7

LEMMA ClockInvariant == ClockSpec => [](QueueInv /\ ClockInv)
<1>1. QueueInv /\ ClockInv /\ [Next]_vars /\ [ClockTick]_<<vars, clock>>
        => (QueueInv /\ ClockInv)'
  <2> SUFFICES ASSUME QueueInv, ClockInv, [Next]_vars,
                      [ClockTick]_<<vars, clock>>
               PROVE  (QueueInv /\ ClockInv)'
    OBVIOUS
  <2>1. QueueInv'
    BY QueueInvInductive
  <2>2. CASE ClockTick
    BY <2>1, <2>2, ClockInvInductive
  <2>3. CASE UNCHANGED <<vars, clock>>
    BY <2>1, <2>3 DEF ClockInv, vars
  <2> QED
    BY <2>1, <2>2, <2>3
<1>2. Init /\ ClockInit => QueueInv /\ ClockInv
  BY QueueInvInit, ClockInvInit
<1> QED
  BY <1>1, <1>2, PTL DEF ClockSpec, Spec

\* Every discovery ends within twice the time limit of a request
\* (updateTaskQueueByTick drops a task at the limit, and only the first answer
\* makes new ones), and with the last of them the event.
THEOREM DiscoveryIsBounded == ClockSpec => []DiscoveryEndsInTime
<1>1. QueueInv /\ ClockInv => DiscoveryEndsInTime
  <2> SUFFICES ASSUME QueueInv, ClockInv PROVE DiscoveryEndsInTime
    OBVIOUS
  <2>1. ASSUME NEW k \in 1 .. Len(queue)
        PROVE  clock[queue[k].eui64] <= 2 * MaxWaitTicks
    <3>1. queue[k] \in Tasks
      BY DEF QueueInv, QueueTypeOK
    <3> QED
      BY <3>1, TaskBeforeDeadline DEF ClockInv
  <2>2. (\A e \in Euis : clock[e] = Deadline) => ~ eventActive
    <3>1. ASSUME NEW e \in Euis, clock[e] < Deadline PROVE clock[e] # Deadline
      BY <3>1, SizesAssumption DEF Deadline
    <3> QED
      BY <3>1 DEF ClockInv
  <2> QED
    BY <2>1, <2>2 DEF DiscoveryEndsInTime
<1> QED
  BY <1>1, ClockInvariant, PTL
=============================================================================
