---------------------------- MODULE DeviceTable ----------------------------
(***************************************************************************)
(* The device-table-lite plugin as one state machine: which devices the    *)
(* gateway knows, the discovery of a new device (active endpoints request, *)
(* then one simple descriptor request per endpoint), the tracking of the   *)
(* state of known devices, and the file that survives a restart.           *)
(*                                                                         *)
(* All handlers run to completion in the main loop of the gateway, so each *)
(* is one action. What the network does is up to the environment: devices  *)
(* join, rejoin and leave, and a ZDO response arrives at any time, late,   *)
(* repeated or not at all.                                                 *)
(***************************************************************************)
EXTENDS DeviceTableOps

\* Addr[e]: the short addresses the gateway may be told for device e. They are
\* those the network gives it, and that of a neighbour which answers a network
\* address request in its place, as the sender is taken for the device.
CONSTANT Addr

ASSUME AddrAssumption == Addr \in [Euis -> SUBSET NodeIds]

VARIABLES
  table,        \* deviceTable
  queue,        \* taskQueue[0 .. queueSize - 1]
  eventActive,  \* newDeviceEventControl is scheduled
  fileExists,   \* there is a devices.txt
  file          \* the entries in devices.txt

vars == <<table, queue, eventActive, fileExists, file>>

Init ==
  /\ table = EmptyTable
  /\ queue = <<>>
  /\ eventActive = FALSE
  /\ fileExists = FALSE
  /\ file = <<>>

-----------------------------------------------------------------------------
(* Helpers that constrain the next state *)

\* emAfDeviceTableSave
Save(t) ==
  /\ fileExists' = TRUE
  /\ file' \in SavedImages(t)

\* Mutant: the queue size is tested before the task is counted.
AddTasksTestedLate(q, ts) ==
  /\ queue' \in Enqueue(q, ts)
  /\ eventActive' = (eventActive \/ (Len(q) = 1 /\ Len(ts) > 0))

\* addQueueEntry for the tasks ts on the queue q: the event is activated when
\* the first task goes into an empty queue.
AddTasks(q, ts) ==
  /\ queue' \in Enqueue(q, ts)
  /\ eventActive' = (eventActive \/ (Len(q) = 0 /\ Len(ts) > 0))

\* getCurrentState: the state of the first slot with the node id.
CurrentState(t, n) ==
  LET i == IndexFromNodeId(t, n)
  IN  IF i = NullIndex THEN StateUnknown ELSE t[i].state

\* optionallyChangeState: the table after a request to change the state of n.
\* Only the first slot of n is compared; a device that is not known is asked
\* for its EUI64, which changes nothing here.
OptionallyChangeState(t, n, s) ==
  LET i == IndexFromNodeId(t, n)
  IN  IF i # NullIndex /\ t[i].state >= StateJoined /\ t[i].state # s
      THEN UpdateDeviceState(t, i, s)
      ELSE t

-----------------------------------------------------------------------------
(* Discovery *)

\* emberAfDeviceTableNewDeviceJoinHandler
StartDiscovery(n, e) ==
  /\ \E q \in DeleteTasksOf(queue, e) :
       AddTasks(q, <<NewTask(e, n, UnknownEndpoint, EndpointsSend)>>)
  /\ UNCHANGED <<table, fileExists, file>>

\* Mutant: the handler returns before it saves.
ChangeNodeIdUnsaved(i, n) ==
  /\ table' = UpdateNodeId(table, table[i].nodeId, n)
  /\ UNCHANGED <<queue, eventActive, fileExists, file>>

ChangeNodeId(i, n) ==
  /\ table' = UpdateNodeId(table, table[i].nodeId, n)
  /\ Save(table')
  /\ UNCHANGED <<queue, eventActive>>

JoinHandler(n, e) ==
  LET i == FirstIndexFromEui64(table, e)
  IN  \/ i = NullIndex /\ StartDiscovery(n, e)
      \/ i # NullIndex /\ table[i].nodeId # n /\ ChangeNodeId(i, n)
      \/ i # NullIndex /\ table[i].nodeId = n /\ UNCHANGED vars

\* An unsecured join, an end device announce, or the answer to a node id or
\* IEEE address request.
Announce(n, e) == n \in Addr[e] /\ JoinHandler(n, e)

\* A secured or trust center rejoin: a device that was told to leave is told
\* again instead.
Rejoin(n, e) ==
  /\ n \in Addr[e]
  /\ \/ /\ CurrentState(table, n) = StateLeaveSent
        /\ table' = OptionallyChangeState(table, n, StateLeaveSent)
        /\ UNCHANGED <<queue, eventActive, fileExists, file>>
     \/ /\ CurrentState(table, n) # StateLeaveSent
        /\ JoinHandler(n, e)

\* newDeviceParseActiveEndpointsResponse: n has cnt endpoints; they are taken
\* to be 1, 2, ... and only MaxEndpoints of them are used.
ActiveEndpointsResponse(n, cnt) ==
  /\ TasksFor(queue, n, UnknownEndpoint) # {}
  /\ LET k == TaskIndex(queue, n, UnknownEndpoint)
         m == IF cnt > MaxEndpoints THEN MaxEndpoints ELSE cnt
     IN  AddTasks(DeleteTask(queue, k),
                  [p \in 1 .. m |-> NewTask(queue[k].eui64, n, p, SimpleSend)])
  /\ UNCHANGED <<table, fileExists, file>>

\* newDeviceParseSimpleDescriptorResponse: a descriptor nobody waits for
\* changes only data of the slot that is left out here, and so does one that
\* finds no slot; the task then stays. The status of the response is not
\* tested, so the endpoint p that is read from a short error response may be
\* any, and 0 matches the task that waits for the active endpoints.
SimpleDescriptorResponse(n, p) ==
  LET same == IndexFromNodeIdAndEndpoint(table, n, p)
      i == IF same # NullIndex THEN same ELSE FindFreeIndex(table)
      k == TaskIndex(queue, n, p)
  IN  /\ i # NullIndex
      /\ TasksFor(queue, n, p) # {}
      /\ table' = [table EXCEPT ![i] =
                     [nodeId |-> n, endpoint |-> p,
                      eui64 |-> queue[k].eui64, state |-> StateJoined]]
      /\ queue' = DeleteTask(queue, k)
      /\ Save(table')
      /\ UNCHANGED eventActive

\* What the event handler makes of the phase of the task it serves.
NextPhase(s) ==
  CASE s = EndpointsSend -> EndpointsWaiting
    [] s = EndpointsWaiting -> EndpointsSend
    [] s = SimpleSend -> SimpleWaiting
    [] s = SimpleWaiting -> SimpleSend

\* Mutant: the queue is not sorted after its head was delayed.
ServeHeadUnsorted(q) ==
  {IF q # <<>> /\ q[1].delay = 0
   THEN [q EXCEPT ![1].state = NextPhase(@), ![1].delay = RetryTicks]
   ELSE q}

\* The head of the queue after the request it is due for went out.
ServeHead(q) ==
  IF q # <<>> /\ q[1].delay = 0
  THEN StableSorts([q EXCEPT ![1].state = NextPhase(@),
                             ![1].delay = RetryTicks])
  ELSE {q}

\* emberAfPluginDeviceTableLiteNewDeviceEventHandler, one tick of 50 ms.
NewDeviceEvent ==
  /\ eventActive
  /\ \E q \in ServeHead(queue) :
       /\ eventActive' = (q # <<>>)
       /\ queue' \in AgedQueues(q)
  /\ UNCHANGED <<table, fileExists, file>>

\* newDeviceLeftHandler
DeviceLeft(e) ==
  LET i == FirstIndexFromEui64(table, e)
  IN  /\ \/ i # NullIndex /\ table' = DeleteEntry(table, i) /\ Save(table')
         \/ i = NullIndex /\ UNCHANGED <<table, fileExists, file>>
      /\ queue' \in DeleteTasksOf(queue, e)
      /\ UNCHANGED eventActive

-----------------------------------------------------------------------------
(* Tracking *)

\* emAfPluginDeviceTableLitePreCommandReceivedCallback: a command from a
\* device that should have left repeats the leave request.
CommandReceived(n) ==
  /\ LET s == CurrentState(table, n)
     IN  table' = IF s >= StateLeaveSent /\ s # StateUnknown
                  THEN OptionallyChangeState(table, n, StateLeaveSent)
                  ELSE OptionallyChangeState(table, n, StateJoined)
  /\ UNCHANGED <<queue, eventActive, fileExists, file>>

\* emberAfPluginDeviceTableLiteMessageSentStatus
MessageSentStatus(n, success, leaveRequest) ==
  /\ CurrentState(table, n) \notin {StateLeaveSent, StateUnknown}
  /\ table' = OptionallyChangeState(table, n,
                IF leaveRequest THEN StateLeaveSent
                ELSE IF success THEN StateJoined ELSE StateUnresponsive)
  /\ UNCHANGED <<queue, eventActive, fileExists, file>>

-----------------------------------------------------------------------------
(* Network down, restart and the operator's commands *)

\* emberAfPluginDeviceTableLiteStackStatusCallback when the gateway has left
\* its network: emberAfDeviceTableClear.
NetworkDown ==
  /\ table' = EmptyTable
  /\ Save(table')
  /\ UNCHANGED <<queue, eventActive>>

\* The process ends between two handlers and starts again:
\* emberAfPluginDeviceTableLiteInitCallback.
Restart ==
  /\ queue' = <<>>
  /\ eventActive' = FALSE
  /\ \/ fileExists /\ \E g \in Endpoints : table' = LoadTable(EmptyTable, file, g)
     \/ ~fileExists /\ table' = EmptyTable
  /\ UNCHANGED <<fileExists, file>>

\* emAfDeviceTableLiteIndexRemoveCommand deletes from slot i on and saves
\* nothing. An index past the table trips an assertion of
\* clearDeviceTableIndex: the process stops and Restart follows.
IndexRemoveCommand(i) ==
  /\ table' = DeleteEntry(table, i)
  /\ UNCHANGED <<queue, eventActive, fileExists, file>>

\* emAfDeviceTableLiteRemoveCommand looks for the next endpoint of e in the
\* slot it has just cleared, and so goes on to clear the later slots without
\* EUI64, too.
RemoveCommand(e) ==
  /\ LET i == FirstIndexFromEui64(table, e)
         u == DeleteEntry(table, i)
     IN  table' = DeleteEntry(u, FirstOf({j \in Idx : j > i /\ u[j].eui64 = NullEui}))
  /\ UNCHANGED <<queue, eventActive, fileExists, file>>

SaveCommand ==
  /\ Save(table)
  /\ UNCHANGED <<table, queue, eventActive>>

LoadCommand ==
  /\ fileExists
  /\ \E g \in Endpoints : table' = LoadTable(table, file, g)
  /\ UNCHANGED <<queue, eventActive, fileExists, file>>

-----------------------------------------------------------------------------

Discovery ==
  \/ \E e \in Euis, n \in NodeIds : Announce(n, e) \/ Rejoin(n, e)
  \/ \E n \in NodeIds, cnt \in 0 .. MaxEndpoints + 1 :
       ActiveEndpointsResponse(n, cnt)
  \/ \E n \in NodeIds, p \in Endpoints : SimpleDescriptorResponse(n, p)
  \/ NewDeviceEvent
  \/ \E e \in Euis : DeviceLeft(e)

Tracking ==
  \E n \in NodeIds :
    \/ CommandReceived(n)
    \/ \E success, leaveRequest \in BOOLEAN :
         MessageSentStatus(n, success, leaveRequest)

Operator ==
  \/ \E i \in Idx : IndexRemoveCommand(i)
  \/ \E e \in Euis : RemoveCommand(e)
  \/ SaveCommand
  \/ LoadCommand

Next == Discovery \/ Tracking \/ NetworkDown \/ Restart \/ Operator

Spec == Init /\ [][Next]_vars

\* The main loop runs the event whenever it is due; nothing is assumed of the
\* network or of the operator.
FairSpec == Spec /\ WF_vars(NewDeviceEvent)
-----------------------------------------------------------------------------
(* Invariants *)

TypeOK ==
  /\ table \in [Idx -> Entries]
  /\ queue \in Seq(Tasks) /\ Len(queue) <= MaxQueueSize
  /\ eventActive \in BOOLEAN
  /\ fileExists \in BOOLEAN
  /\ file \in Seq(Records) /\ Len(file) <= TableSize

\* No lost wake-up: while a task is queued the discovery event is scheduled,
\* although only the handler that fills an empty queue activates it
\* (addQueueEntry) and the event handler and the restart switch it off.
PendingTaskIsScheduled == queue # <<>> => eventActive

\* The event handler looks at the head of the queue alone; no task may wait
\* behind one with a longer delay, whatever was added, aged or deleted since
\* the last sort.
HeadIsNextDue == SortedByDelay(queue)

\* A task without an endpoint asks for the active endpoints and a task with
\* one for its descriptor: no sequence of retries, sorts and deletions makes
\* the handler send the request of another phase.
PhaseMatchesEndpoint ==
  \A k \in 1 .. Len(queue) :
    (queue[k].endpoint = UnknownEndpoint)
      <=> (queue[k].state \in {EndpointsSend, EndpointsWaiting})

\* No short address is ever told for two devices. The code does not give this:
\* the network may hand an address on to another device.
AddressesDisjoint ==
  \A d, e \in Euis : d # e => Addr[d] \cap Addr[e] = {}

\* Discovery attributes an answer by the short address of its sender alone.
\* If addresses are not shared, each endpoint in the table, in the file and in
\* the queue is held under an address of the very device it is credited to.
EntriesBelongToTheirDevice ==
  AddressesDisjoint =>
    /\ \A i \in Occupied(table) :
         table[i].eui64 \in Euis /\ table[i].nodeId \in Addr[table[i].eui64]
    /\ \A k \in 1 .. Len(queue) : queue[k].nodeId \in Addr[queue[k].eui64]
    /\ \A k \in 1 .. Len(file) :
         file[k].eui64 \in Euis /\ file[k].nodeId \in Addr[file[k].eui64]

\* Nothing that was discovered is lost by a restart: whatever handler ran
\* last, each endpoint of the table is in devices.txt under its present
\* address. (The operator's remove commands do not save, so the file may hold
\* more.)
FileCoversTable ==
  \A i \in Occupied(table) :
    \E k \in 1 .. Len(file) : file[k] = RecordOf(table[i])

-----------------------------------------------------------------------------
(* Action properties. Short addresses may be shared: what that can do to a   *)
(* device is named in the properties as TakenOver.                           *)

\* The answer of another device with the short address of e is stored in the
\* slot of endpoint p of e, which now belongs to that device.
TakenOver(e, p) ==
  \E n \in NodeIds :
    /\ SimpleDescriptorResponse(n, p)
    /\ IndexFromNodeIdAndEndpoint(table, n, p) # NullIndex
    /\ table[IndexFromNodeIdAndEndpoint(table, n, p)].eui64 = e
    /\ queue[TaskIndex(queue, n, p)].eui64 # e

FirstSlotOccupied(t, e) ==
  \A i \in Idx :
    t[i].eui64 = e => \E j \in Occupied(t) : j <= i /\ t[j].eui64 = e

\* A load may leave the EUI64 of a device in a free slot, and the handlers
\* look devices up by EUI64 in all slots. No handler, load or restart brings
\* such a stale slot to the front, unless a slot before it is taken over by
\* another device with the same short address. A rejoin that found a stale
\* slot first would look the "old" node id 0xFFFF up and hand free slots to
\* the device.
FirstSlotStaysOccupied ==
  [][\A e \in Euis :
       FirstSlotOccupied(table, e) =>
         \/ FirstSlotOccupied(table', e)
         \/ \E p \in Endpoints : TakenOver(e, p)]_vars

\* When a departure was handled no slot of the table carries the device, the
\* slots it used to hide in after a load included, and neither does the file
\* when the table did.
DepartureIsComplete ==
  [][\A e \in Euis :
       DeviceLeft(e) =>
         /\ \A i \in Idx : table'[i].eui64 # e
         /\ FirstIndexFromEui64(table, e) # NullIndex =>
              \A k \in 1 .. Len(file') : file'[k].eui64 # e]_vars

KnownEndpoints(t) ==
  {<<t[i].eui64, t[i].endpoint>> : i \in {j \in Occupied(t) : t[j].eui64 \in Euis}}

IndexRemoveOf(e) ==
  \E i \in Idx : table[i].eui64 = e /\ IndexRemoveCommand(i)

\* An endpoint that was discovered stays in the table until its own device
\* leaves, the operator removes it, the gateway leaves the network, or another
\* device answers for the same endpoint from the same short address: no
\* rejoin, node id change, other answer, load or restart takes it away,
\* whether short addresses are shared or not.
KnownEndpointsPersist ==
  [][\A x \in KnownEndpoints(table) \ KnownEndpoints(table') :
       \/ DeviceLeft(x[1]) \/ NetworkDown
       \/ RemoveCommand(x[1]) \/ IndexRemoveOf(x[1])
       \/ TakenOver(x[1], x[2])]_vars

\* The gateway still has to do with e: in the table or in discovery.
Wanted(e) ==
  \/ \E i \in Occupied(table) : table[i].eui64 = e
  \/ \E k \in 1 .. Len(queue) : queue[k].eui64 = e

\* The active endpoints response that ends the discovery of e has no endpoint.
NoEndpoint(e) ==
  \E n \in NodeIds :
    /\ ActiveEndpointsResponse(n, 0)
    /\ queue[TaskIndex(queue, n, UnknownEndpoint)].eui64 = e

TimedOut(e) ==
  /\ NewDeviceEvent
  /\ \E k \in 1 .. Len(queue) :
       queue[k].eui64 = e /\ queue[k].waitTime = MaxWaitTicks

\* A device is not silently forgotten: it drops out of the table and of the
\* queue together only when it leaves, is removed, reports that it has no
\* endpoint, or exhausts the time it is given to answer, when the gateway
\* leaves the network or restarts, or when its last slot is taken over by
\* another device with the same short address.
DeviceIsNotForgotten ==
  [][\A e \in Euis :
       Wanted(e) =>
         \/ Wanted(e)'
         \/ DeviceLeft(e) \/ NetworkDown \/ Restart
         \/ RemoveCommand(e) \/ IndexRemoveOf(e)
         \/ NoEndpoint(e) \/ TimedOut(e)
         \/ \E p \in Endpoints : TakenOver(e, p)]_vars

-----------------------------------------------------------------------------
(* Liveness, under FairSpec *)

\* Discovery comes to rest: once no further device starts it, every task is
\* completed or given up and the event is switched off for good, whatever the
\* devices answer and how often.
DiscoveryComesToRest ==
  <>[][~ \E n \in NodeIds, e \in Euis : StartDiscovery(n, e)]_vars
    => <>[](queue = <<>> /\ ~eventActive)

-----------------------------------------------------------------------------
(* What comments of the source say and the code does not do *)

\* device-table-lite-discovery.c:522, search and delete any pending task in
\* the taskQueue that matches the eui64.
LeftDeviceHasNoTask ==
  [][\A e \in Euis :
       DeviceLeft(e) => \A k \in 1 .. Len(queue') : queue'[k].eui64 # e]_vars

\* device-table-lite.h:251, the device-table will make sure the node ID
\* matches the EUI64: a device has one node id in the table.
OneNodeIdPerDevice ==
  \A i, j \in Occupied(table) :
    table[i].eui64 = table[j].eui64 => table[i].nodeId = table[j].nodeId
=============================================================================
