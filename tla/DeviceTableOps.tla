--------------------------- MODULE DeviceTableOps ---------------------------
(***************************************************************************)
(* The data of the device-table-lite plugin and the pure part of its       *)
(* operations: the device table and its look-ups (device-table-lite.c),    *)
(* the image of the table that is written to devices.txt, and the queue    *)
(* of discovery tasks (device-table-lite-discovery.c).                     *)
(*                                                                         *)
(* The device id, the cluster lists and the time of the last message are   *)
(* data that no branch of the plugin reads; they are left out.             *)
(***************************************************************************)
EXTENDS Integers, Sequences, FiniteSets

CONSTANTS
  Euis,           \* IEEE addresses (EUI64) of the devices
  NodeIds,        \* short addresses in use; 0x0000, the gateway, is not one
  NullEui,        \* ff:ff:ff:ff:ff:ff:ff:ff, the EUI64 of a cleared slot
  NullNodeId,     \* 0xFFFF, the node id of a free slot
  TableSize,      \* EMBER_AF_PLUGIN_DEVICE_TABLE_DEVICE_TABLE_SIZE
  MaxQueueSize,   \* MAX_QUEUE_SIZE
  MaxEndpoints,   \* DEVICE_MAX_ENDPOINTS
  RetryTicks,     \* DEVICE_DISCOVERY_{ENDPOINT,SIMPLE}_RETRY_TICKS
  MaxWaitTicks    \* DEVICE_DISCOVERY_MAX_WAIT_TICKS

ASSUME SizesAssumption ==
  /\ TableSize \in Nat \ {0}
  /\ MaxQueueSize \in Nat \ {0}
  /\ MaxEndpoints \in Nat \ {0}
  /\ RetryTicks \in Nat \ {0}
  /\ MaxWaitTicks \in Nat

ASSUME NullAssumption ==
  /\ NullEui \notin Euis
  /\ NullNodeId \notin NodeIds

-----------------------------------------------------------------------------
(* The device table *)

Idx == 0 .. TableSize - 1
NullIndex == TableSize        \* any index past the table stands for 0xFFFF
UnknownEndpoint == 0
Endpoints == 0 .. MaxEndpoints

StateNull == 0                \* EmberAfPluginDeviceTableLiteDeviceState
StateJoined == 16
StateUnresponsive == 17
StateLeaveSent == 32
StateLeft == 48
StateUnknown == 255
DeviceStates ==
  {StateNull, StateJoined, StateUnresponsive, StateLeaveSent, StateLeft,
   StateUnknown}

Entries == [nodeId : NodeIds \cup {NullNodeId}, endpoint : Endpoints,
            eui64 : Euis \cup {NullEui}, state : DeviceStates]

NullEntry == [nodeId |-> NullNodeId, endpoint |-> UnknownEndpoint,
              eui64 |-> NullEui, state |-> StateNull]

EmptyTable == [i \in Idx |-> NullEntry]

Occupied(t) == {i \in Idx : t[i].nodeId # NullNodeId}

\* Every look-up of the plugin is a linear search for the first match.
FirstOf(S) ==
  IF S = {} THEN NullIndex ELSE CHOOSE i \in S : \A j \in S : i <= j

FirstIndexFromEui64(t, e) == FirstOf({i \in Idx : t[i].eui64 = e})
IndexFromNodeId(t, n) == FirstOf({i \in Idx : t[i].nodeId = n})
\* Mutant: the endpoint is not compared.
IndexFromNodeIdAlone(t, n, p) == FirstOf({i \in Idx : t[i].nodeId = n})
IndexFromNodeIdAndEndpoint(t, n, p) ==
  FirstOf({i \in Idx : t[i].nodeId = n /\ t[i].endpoint = p})
FindFreeIndex(t) == IndexFromNodeId(t, NullNodeId)

\* Mutant: the chain does not compare the EUI64.
EverySlotFrom(t, i) == {j \in Idx : j >= i}
\* Mutant: the chain stops at nothing but occupied slots.
OccupiedSlotsFrom(t, i) ==
  {j \in Occupied(t) : j >= i /\ t[j].eui64 = t[i].eui64}
\* The slots reached from i by following FindNextEndpoint: the later slots
\* with the EUI64 of slot i, whether they are occupied or not.
SameDeviceFrom(t, i) == {j \in Idx : j >= i /\ t[j].eui64 = t[i].eui64}

\* Mutant: a cleared slot keeps its EUI64.
DeleteKeepingEui64(t, i) ==
  [j \in Idx |-> IF i \in Idx /\ j \in SameDeviceFrom(t, i)
                 THEN [t[j] EXCEPT !.nodeId = NullNodeId] ELSE t[j]]

DeleteEntry(t, i) ==
  [j \in Idx |-> IF i \in Idx /\ j \in SameDeviceFrom(t, i)
                 THEN NullEntry ELSE t[j]]

\* The first slot is looked up by the old node id, the others by its EUI64.
UpdateNodeId(t, old, new) ==
  LET i == IndexFromNodeId(t, old)
  IN  [j \in Idx |-> IF i \in Idx /\ j \in SameDeviceFrom(t, i)
                     THEN [t[j] EXCEPT !.nodeId = new] ELSE t[j]]

UpdateDeviceState(t, i, s) ==
  [j \in Idx |-> IF j \in SameDeviceFrom(t, i)
                 THEN [t[j] EXCEPT !.state = s] ELSE t[j]]

-----------------------------------------------------------------------------
(* devices.txt *)

\* The increasing enumeration of a finite set of integers (the set of all
\* such functions has one element).
Enumerations(S) ==
  {f \in [1 .. Cardinality(S) -> S] :
     /\ \A a, b \in 1 .. Cardinality(S) : a < b => f[a] < f[b]
     /\ \A s \in S : \E a \in 1 .. Cardinality(S) : f[a] = s}

Records == [nodeId : NodeIds, endpoint : Endpoints, eui64 : Euis \cup {NullEui}]

RecordOf(x) ==
  [nodeId |-> x.nodeId, endpoint |-> x.endpoint, eui64 |-> x.eui64]

\* What emAfDeviceTableSave writes: the occupied slots in index order. The
\* state of a device is not saved.
SavedImages(t) ==
  {[k \in 1 .. Cardinality(Occupied(t)) |-> RecordOf(t[f[k]])] :
     f \in Enumerations(Occupied(t))}

\* Mutant: the slots past the file are not freed.
LoadWithoutFreeing(t, d, g) ==
  [i \in Idx |->
     IF i < Len(d)
     THEN [nodeId |-> d[i + 1].nodeId, endpoint |-> d[i + 1].endpoint,
           eui64 |-> d[i + 1].eui64, state |-> StateJoined]
     ELSE t[i]]

\* What emAfDeviceTableLoad makes of table t and file d. The slot that reads
\* the end mark gets the leftover of an earlier scan as endpoint (g), and of
\* the slots past the file only the node id is reset.
LoadTable(t, d, g) ==
  [i \in Idx |->
     IF i < Len(d)
     THEN [nodeId |-> d[i + 1].nodeId, endpoint |-> d[i + 1].endpoint,
           eui64 |-> d[i + 1].eui64, state |-> StateJoined]
     ELSE [t[i] EXCEPT !.nodeId = NullNodeId,
                       !.endpoint = IF i = Len(d) THEN g ELSE @]]

-----------------------------------------------------------------------------
(* The queue of discovery tasks *)

EndpointsSend == "ENDPOINTS_SEND"
EndpointsWaiting == "ENDPOINTS_WAITING"
SimpleSend == "SIMPLE_SEND"
SimpleWaiting == "SIMPLE_WAITING"
Phases == {EndpointsSend, EndpointsWaiting, SimpleSend, SimpleWaiting}

Tasks == [eui64 : Euis, nodeId : NodeIds, endpoint : Endpoints,
          state : Phases, delay : 0 .. RetryTicks, waitTime : 0 .. MaxWaitTicks]

NewTask(e, n, p, s) ==
  [eui64 |-> e, nodeId |-> n, endpoint |-> p, state |-> s,
   delay |-> 0, waitTime |-> 0]

TasksFor(q, n, p) == {k \in DOMAIN q : q[k].nodeId = n /\ q[k].endpoint = p}

\* getQueueIndexFromNodeAndEndpoint, for a task that is queued.
TaskIndex(q, n, p) ==
  CHOOSE k \in TasksFor(q, n, p) : \A j \in TasksFor(q, n, p) : k <= j

\* deleteQueueEntry
DeleteTask(q, k) ==
  [j \in 1 .. Len(q) - 1 |-> IF j < k THEN q[j] ELSE q[j + 1]]

\* The queue that keeps the tasks at the positions K, in their order.
KeepOnly(q, K) ==
  {[j \in 1 .. Cardinality(K) |-> q[f[j]]] : f \in Enumerations(K)}

\* bubbleSortQueue swaps neighbours only when the first delay is larger: the
\* result is the stable sort of the queue by delay.
StableSorts(q) ==
  {[k \in 1 .. Len(q) |-> q[f[k]]] :
     f \in {h \in [1 .. Len(q) -> 1 .. Len(q)] :
              \A a, b \in 1 .. Len(q) : a < b =>
                 \/ q[h[a]].delay < q[h[b]].delay
                 \/ q[h[a]].delay = q[h[b]].delay /\ h[a] < h[b]}}

SortedByDelay(q) ==
  \A a, b \in 1 .. Len(q) : a < b => q[a].delay <= q[b].delay

\* Mutant: the queue takes one task too many.
EnqueueOneTooMany(q, ts) ==
  LET room == MaxQueueSize + 1 - Len(q)
      m == IF Len(ts) <= room THEN Len(ts) ELSE room
  IN  StableSorts([k \in 1 .. Len(q) + m |->
                     IF k <= Len(q) THEN q[k] ELSE ts[k - Len(q)]])

\* addQueueEntry for each of the tasks of ts in turn: what does not fit is
\* dropped.
Enqueue(q, ts) ==
  LET room == MaxQueueSize - Len(q)
      m == IF Len(ts) <= room THEN Len(ts) ELSE room
  IN  StableSorts([k \in 1 .. Len(q) + m |->
                     IF k <= Len(q) THEN q[k] ELSE ts[k - Len(q)]])

\* The loops of the join and the leave handler that delete the tasks of e
\* step over the task that moved into the place of a deleted one: of a run
\* of neighbouring tasks of e they delete the first, the third, ...
Skipped(q, e) ==
  {k \in DOMAIN q :
     q[k].eui64 = e =>
       \E s \in 1 .. k : /\ \A j \in s .. k : q[j].eui64 = e
                         /\ s > 1 => q[s - 1].eui64 # e
                         /\ (k - s) % 2 = 1}

DeleteTasksOf(q, e) == KeepOnly(q, Skipped(q, e))

\* Mutant: the waiting time is not counted.
AgeDelayOnly(t) == [t EXCEPT !.delay = IF @ = 0 THEN 0 ELSE @ - 1]

\* updateTaskQueueByTick
AgeTask(t) ==
  [t EXCEPT !.waitTime = @ + 1, !.delay = IF @ = 0 THEN 0 ELSE @ - 1]

\* Mutant: a task is dropped one tick early.
AgedQueuesTooStrict(q) ==
  KeepOnly([k \in 1 .. Len(q) |-> AgeTask(q[k])],
           {k \in 1 .. Len(q) : q[k].waitTime + 1 < MaxWaitTicks})

AgedQueues(q) ==
  KeepOnly([k \in 1 .. Len(q) |-> AgeTask(q[k])],
           {k \in 1 .. Len(q) : q[k].waitTime + 1 <= MaxWaitTicks})
=============================================================================
