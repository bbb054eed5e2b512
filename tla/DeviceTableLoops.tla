-------------------------- MODULE DeviceTableLoops --------------------------
(***************************************************************************)
(* DeviceTableOps says what the loops of the device-table-lite plugin make *)
(* of the table and of the task queue. This module translates the loops    *)
(* themselves, one iteration at a time, and compares the two on every      *)
(* small queue and table.                                                  *)
(*                                                                         *)
(* The queue q is built task by task, the table t slot by slot; nothing    *)
(* else happens to them.                                                   *)
(***************************************************************************)
EXTENDS DeviceTableOps

VARIABLES q, t

\* The state in which a loop of n iterations leaves x, when body[k] takes the
\* state before the k-th iteration to the state after it.
Loop(n, x, body) ==
  LET after[k \in 0 .. n] == IF k = 0 THEN x ELSE body[k][after[k - 1]]
  IN  after[n]

Queues == Seq(Tasks)
Tables == [Idx -> Entries]

-----------------------------------------------------------------------------
(* The loops over the task queue *)

\* Mutant: neighbours with the same delay are swapped, too.
SwapAtEqual(s, k) ==
  IF s[k].delay >= s[k + 1].delay
  THEN [s EXCEPT ![k] = s[k + 1], ![k + 1] = s[k]]
  ELSE s

SwapAt(s, k) ==
  IF s[k].delay > s[k + 1].delay
  THEN [s EXCEPT ![k] = s[k + 1], ![k + 1] = s[k]]
  ELSE s

BubblePass(s, steps) ==
  Loop(steps, s, [k \in 1 .. steps |-> [r \in Queues |-> SwapAt(r, k)]])

\* bubbleSortQueue
BubbleSort(s) ==
  IF s = <<>> THEN s
  ELSE Loop(Len(s) - 1, s,
            [p \in 1 .. Len(s) - 1 |-> [r \in Queues |-> BubblePass(r, Len(s) - p)]])

\* Mutant: the queue is not sorted after an insertion.
AddQueueEntryUnsorted(s, x) ==
  IF Len(s) = MaxQueueSize THEN s ELSE Append(s, x)

\* addQueueEntry
AddQueueEntry(s, x) ==
  IF Len(s) = MaxQueueSize THEN s ELSE BubbleSort(Append(s, x))

AddInTurn(s, ts) ==
  Loop(Len(ts), s,
       [k \in 1 .. Len(ts) |-> [r \in Queues |-> AddQueueEntry(r, ts[k])]])

\* Mutant: the loop ends after the first deletion.
DeleteFirstOf(s, e) ==
  LET K == {k \in 1 .. Len(s) : s[k].eui64 = e}
  IN  IF K = {} THEN s ELSE DeleteTask(s, CHOOSE k \in K : \A j \in K : k <= j)

\* The deleting loop of the join and the leave handler.
DeleteLoop(s, e) ==
  Loop(Len(s), s,
       [k \in 1 .. Len(s) |-> [r \in Queues |->
          IF k <= Len(r) /\ r[k].eui64 = e THEN DeleteTask(r, k) ELSE r]])

\* Mutant: the tick loop counts on after a deletion.
TickAtSkipping(x) ==
  IF x.queue[x.i].waitTime + 1 > MaxWaitTicks
  THEN [queue |-> DeleteTask(x.queue, x.i), i |-> x.i + 1]
  ELSE [queue |-> [x.queue EXCEPT ![x.i] = AgeTask(@)], i |-> x.i + 1]

TickAt(x) ==
  IF x.queue[x.i].waitTime + 1 > MaxWaitTicks
  THEN [x EXCEPT !.queue = DeleteTask(@, x.i)]
  ELSE [queue |-> [x.queue EXCEPT ![x.i] = AgeTask(@)], i |-> x.i + 1]

\* updateTaskQueueByTick. Each iteration deletes a task or counts on.
TickLoop(s) ==
  Loop(Len(s), [queue |-> s, i |-> 1],
       [k \in 1 .. Len(s) |-> [x \in [queue : Queues, i : Nat] |->
          IF x.i <= Len(x.queue) THEN TickAt(x) ELSE x]]).queue

-----------------------------------------------------------------------------
(* The loops over the device table *)

\* emAfDeviceTableFindNextEndpoint
FindNextEndpoint(u, i) == FirstOf({j \in Idx : j > i /\ u[j].eui64 = u[i].eui64})

\* The next slot is found after the present one was changed: the body of the
\* loops that change a node id or a state, and a mutant of Follow.
FollowLate(x, set) ==
  LET v == [x.table EXCEPT ![x.i] = set[@]]
  IN  [table |-> v, i |-> FindNextEndpoint(v, x.i)]

\* The next slot is found before the present one is changed: the body of the
\* loop that deletes.
Follow(x, set) ==
  [table |-> [x.table EXCEPT ![x.i] = set[@]], i |-> FindNextEndpoint(x.table, x.i)]

Chain(u, i, set) ==
  Loop(TableSize, [table |-> u, i |-> i],
       [k \in 1 .. TableSize |-> [x \in [table : Tables, i : Idx \cup {NullIndex}] |->
          IF x.i = NullIndex THEN x ELSE Follow(x, set)]]).table

LateChain(u, i, set) ==
  Loop(TableSize, [table |-> u, i |-> i],
       [k \in 1 .. TableSize |-> [x \in [table : Tables, i : Idx \cup {NullIndex}] |->
          IF x.i = NullIndex THEN x ELSE FollowLate(x, set)]]).table

\* emAfPluginDeviceTableDeleteEntry
DeleteChain(u, i) == Chain(u, i, [x \in Entries |-> NullEntry])

\* emAfDeviceTableUpdateNodeId, emAfDeviceTableUpdateDeviceState
NodeIdChain(u, i, n) == LateChain(u, i, [x \in Entries |-> [x EXCEPT !.nodeId = n]])
StateChain(u, i, s) == LateChain(u, i, [x \in Entries |-> [x EXCEPT !.state = s]])

\* emAfDeviceTableSave
SaveLoop(u) ==
  Loop(TableSize, <<>>,
       [k \in 1 .. TableSize |-> [r \in Seq(Records) |->
          IF u[k - 1].nodeId # NullNodeId THEN Append(r, RecordOf(u[k - 1])) ELSE r]])

\* The numbers of devices.txt in the order they are read: the node id of an
\* entry, its endpoint, and its EUI64, which stands for all that follows; then
\* the end mark, which is read as the null node id.
Text(records) ==
  [k \in 1 .. 3 * Len(records) + 1 |->
     IF k > 3 * Len(records) THEN NullNodeId
     ELSE LET r == records[(k + 2) \div 3]
          IN  CASE k % 3 = 1 -> r.nodeId
                [] k % 3 = 2 -> r.endpoint
                [] k % 3 = 0 -> r.eui64]

\* What a crash leaves of the file: any part of it, that ends between two
\* numbers, or in one of them (`cut`), which is then read as another one.
TornTexts(records) ==
  LET whole == Text(records)
      Values(k) == CASE k % 3 = 1 -> NodeIds
                     [] k % 3 = 2 -> Endpoints
                     [] k % 3 = 0 -> Euis \cup {NullEui}
  IN  {[numbers |-> SubSeq(whole, 1, k), cut |-> FALSE] : k \in 0 .. Len(whole) - 1}
      \cup UNION {{[numbers |-> Append(SubSeq(whole, 1, k - 1), v), cut |-> TRUE] :
                     v \in Values(k)} : k \in 1 .. Len(whole)}

\* Mutant: the loop goes on when the file is at its end.
feofIgnored(text, k) == FALSE

\* feof, after the numbers of k entries were scanned: the end is noticed with
\* the first number that is missing, or that ends with the file.
feof(text, k) ==
  Len(text.numbers) < 3 * k \/ (Len(text.numbers) = 3 * k /\ text.cut)

\* The values a scan may find in its variables before the first entry is read.
Leftovers == [nodeId : NodeIds \cup {NullNodeId}, endpoint : Endpoints,
              eui64 : {NullEui}]

\* The k-th entry is read. A number that is missing leaves the variable it
\* should be read to as it was (`left`); a slot whose node id is null gets an
\* endpoint and nothing more.
LoadAt(x, text, k) ==
  LET Scan(j, v) == LET at == 3 * (k - 1) + j
                    IN  IF at <= Len(text.numbers) THEN text.numbers[at] ELSE v
      n == Scan(1, x.left.nodeId)
      p == Scan(2, x.left.endpoint)
  IN  [table |-> [x.table EXCEPT ![k - 1] =
                    IF n = NullNodeId THEN [@ EXCEPT !.nodeId = n, !.endpoint = p]
                    ELSE [nodeId |-> n, endpoint |-> p,
                          eui64 |-> Scan(3, x.left.eui64), state |-> StateJoined]],
       left |-> [x.left EXCEPT !.nodeId = n],
       ended |-> feof(text, k)]

\* emAfDeviceTableLoad: when the file has ended, the other slots are freed.
LoadLoop(u, text, left) ==
  Loop(TableSize, [table |-> u, left |-> left, ended |-> FALSE],
       [k \in 1 .. TableSize |->
          [x \in [table : Tables, left : Leftovers, ended : BOOLEAN] |->
             IF x.ended THEN [x EXCEPT !.table[k - 1].nodeId = NullNodeId]
             ELSE LoadAt(x, text, k)]]).table

-----------------------------------------------------------------------------
(* The queues and tables to compare on *)

SomeTasks ==
  {x \in Tasks : /\ x.nodeId = CHOOSE n \in NodeIds : TRUE
                 /\ x.endpoint = MaxEndpoints /\ x.state = SimpleSend
                 /\ x.waitTime \in {0, MaxWaitTicks}}

\* Occupied slots, and free ones that are cleared or left over by a load.
SomeEntries ==
  {x \in Entries :
     \/ x = NullEntry
     \/ x.eui64 \in Euis /\ x.endpoint = MaxEndpoints /\ x.state = StateJoined}

\* Every queue, with the empty table, and every table, with the empty queue.
Init == q = <<>> /\ t = EmptyTable

AppendTask ==
  /\ t = EmptyTable
  /\ Len(q) < MaxQueueSize
  /\ \E x \in SomeTasks : q' = Append(q, x)
  /\ UNCHANGED t

ClearQueue == q # <<>> /\ q' = <<>> /\ UNCHANGED t

SetSlot ==
  /\ q = <<>>
  /\ \E i \in Idx, x \in SomeEntries : t' = [t EXCEPT ![i] = x]
  /\ UNCHANGED q

Spec == Init /\ [][AppendTask \/ ClearQueue \/ SetSlot]_<<q, t>>

-----------------------------------------------------------------------------
(* The loops compute what DeviceTableOps says *)

\* bubbleSortQueue is a stable sort: tasks that are due at the same tick keep
\* the order in which they were queued.
BubbleSortIsStable == StableSorts(q) = {BubbleSort(q)}

\* addQueueEntry, once for each endpoint of a response: sorting after each
\* insertion, into a queue that may fill up on the way, comes to the same as
\* appending what fits and sorting once.
AddingInTurnIsEnqueue ==
  SortedByDelay(q) =>
    \A x, y \in SomeTasks :
      /\ Enqueue(q, <<x>>) = {AddInTurn(q, <<x>>)}
      /\ Enqueue(q, <<x, y>>) = {AddInTurn(q, <<x, y>>)}

\* The loops of the join and the leave handler count on after a deletion:
\* they delete the first, the third, ... of neighbouring tasks of a device.
DeletionLoopSkips ==
  \A e \in Euis : DeleteTasksOf(q, e) = {DeleteLoop(q, e)}

\* The tick loop, which does not count on after a deletion, ages every task
\* once and drops exactly those that have waited too long.
TickAgesEveryTask == AgedQueues(q) = {TickLoop(q)}

\* The chains through FindNextEndpoint reach every later slot of the device,
\* although each iteration changes the table the chain is followed in.
ChainsReachTheDevice ==
  \A i \in Idx :
    /\ DeleteEntry(t, i) = DeleteChain(t, i)
    /\ UpdateDeviceState(t, i, StateLeft) = StateChain(t, i, StateLeft)
    /\ \A old \in NodeIds \cup {NullNodeId}, n \in NodeIds :
         UpdateNodeId(t, old, n) = NodeIdChain(t, IndexFromNodeId(t, old), n)

\* A save writes the occupied slots in order, and loading it into any other
\* table brings back exactly those endpoints: none is lost or doubled, and no
\* free slot of the other table comes alive.
LoadRestoresTheSavedTable ==
  /\ SavedImages(t) = {SaveLoop(t)}
  /\ \A i \in Idx, x \in SomeEntries, g \in Endpoints :
       LET other == [EmptyTable EXCEPT ![i] = x]
           loaded == LoadTable(other, SaveLoop(t), g)
       IN  /\ SaveLoop(loaded) = SaveLoop(t)
           /\ loaded = LoadLoop(other,
                         [numbers |-> Text(SaveLoop(t)), cut |-> FALSE],
                         [nodeId |-> NullNodeId, endpoint |-> g, eui64 |-> NullEui])

\* A crash in the middle of a save truncates devices.txt. What a load makes of
\* it are the entries that were written whole, in their slots, and at most one
\* slot behind them, which may hold anything (the loop of emAfDeviceTableLoad
\* notices the end of the file with the first number that is missing).
TornSaveLoadsAPrefix ==
  LET saved == SaveLoop(t)
  IN  \A text \in TornTexts(saved), i \in Idx, x \in SomeEntries, n \in Leftovers :
        LET loaded == LoadLoop([EmptyTable EXCEPT ![i] = x], text, n)
            whole == (Len(text.numbers) - (IF text.cut THEN 1 ELSE 0)) \div 3
        IN  /\ \A j \in 0 .. whole - 1 : RecordOf(loaded[j]) = saved[j + 1]
            /\ Occupied(loaded) \subseteq 0 .. whole
=============================================================================
