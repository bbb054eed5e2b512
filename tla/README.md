# Verification of the Z3 gateway host plugins

The repository holds the firmware images of a few ZigBee switches and the
plugins of a ZigBee 3.0 gateway host (`src/Z3GatewayHost_tcpip/plugin`), a C
program that runs on top of the EmberZNet framework. This directory specifies
the plugins in TLA+, checks the specifications on small instances with TLC and
proves the main invariants for all values of the constants with TLAPS.

All paths below are relative to `src/Z3GatewayHost_tcpip/plugin`.

## 1. The system

| Component | Files | State | Operations |
|---|---|---|---|
| Device table | `device-table-lite/device-table-lite.c` | `deviceTable[250]`: per endpoint of a device its EUI64, node id, endpoint and state; `devices.txt` | look-ups by EUI64, node id, endpoint; delete, change of node id, change of state along the *chain* of a device's slots; save, load, clear; init and stack status callbacks |
| Discovery | `device-table-lite-discovery.c` | `taskQueue[]`, `queueSize`, the event `newDeviceEventControl` | join, rejoin, announce and leave handlers; active endpoints and simple descriptor responses; the event that sends, waits, repeats and gives up |
| Tracking | `device-table-lite-tracking.c` | the `state` of the slots | a command is received; a message was sent or was not; leave requests that are repeated |
| Table commands | `device-table-lite-cli.c` | one global node of a discovery by hand | remove, index remove, save, load, clear, print, send |
| Command relay | `command-relay-lite/*.c` | `relayTable[]`, `command-relay.txt` | add, remove, clear, save, load a rule; forward a received command by the rules; remove the rules of a device |
| Socket transport | `transport-socket/transport-socket.c` | `sockInfo` (descriptor, status, list of buffers) under `sockInfoMutex`; statics of each thread | connection, write and receive threads; the LongLink event; Publish |
| Gateway relay | `gateway-relay-socket/gateway-relay-socket.c` | `commandList`, resume time, events Heartbeat, StateUpdate, ProcessCommand | commands from the server; delays; publication of the table, of state changes and of received reports |
| Gateway commands | `gateway-relay-socket/gateway-relay-socket-commands.c` | the one ZCL frame under construction (`localApsFrame`, `zclCmdIsBuilt`, and `appZclBuffer`, which it shares with the command line), the direction of global commands | one function per command name: build a frame, send it, change the relay's rules, call the framework |
| Firmware images | `*.sls`, `*.isd` | - | binary archives; no source to read |

**How they interact.** The framework calls the plugins back from its main loop:
one handler at a time, to completion. The device table calls the other plugins
through hooks wired in `plugin.properties` files (a device joined, left, changed
its state). The command relay reads the device table for the EUI64 of a sender
and the index of a destination, and tells the gateway relay when its rules were
saved or loaded. The gateway commands add and remove rules, clear the table and
send to a device of the table. The gateway relay publishes through the
transport and gets the bytes received and the state of the link from it by
callback - the state from the main loop, the bytes *from the receive thread, with
the transport's mutex held*. Only the transport has threads and a mutex; the gateway
relay has a list that two of these threads use.

**What is hard, and what makes each part correct.**

- *Discovery* is a protocol with a network that answers late, twice, for the
  wrong task or never, over a queue of a fixed size and a table of a fixed size.
  Correct means: no queued task is left without an event; the head of the queue
  is the next that is due; every task ends; an endpoint goes to the device that
  owns it; a departure clears the device; no device is dropped silently.
- *Device table*: short addresses are given again to other devices, devices
  change theirs, the table is addressed by both names, and chains of slots are
  walked while they are changed. The file must hold the table at every moment,
  since the process may be restarted at any moment.
- *Tracking* reads the state of one slot and writes the state of others.
- *Transport*: four actors replace, use and close one socket. Payloads must not
  be overtaken, repeated or lost but where the code says so, and the link must
  come back.
- *Command relay*: rules must survive a restart and follow the devices they name.
- *Gateway relay*: a list is shared by two threads and has no mutex of its own;
  the transport's mutex keeps a whole message apart from a publication, and so from
  all that comes before the publication, but not from the removal of an element
  that follows it. A delay in the list is measured with a clock of 32 bits; the
  state is asked for while it is being published. Correct means: every command is
  executed once, in its turn, a delay holds up what is behind it, and a request for
  the state is answered.
- *Gateway commands*: one command builds a frame, a later one sends it, and in
  between anything may happen, and the command line builds its own frames in the
  same buffer. Correct means: what the server sends goes out under its own header,
  once, and whole unless the command line has built since; a name calls its function although only prefixes of names
  are compared.
- *The server's view*: the server learns of each change by a payload of its own,
  and payloads are lost when the list is full, when the server is gone and when
  they are given up. Correct means: the single changes add up to the table, and
  what was lost is told again.

`PROJECT.json` lists these hazards one by one with the line where each bites.

## 2. The modules

| Module | Contents |
|---|---|
| `DeviceTableOps` | the data: table, queue, file and the operators on them, without variables |
| `DeviceTable` | the state machine of table, discovery, tracking and commands |
| `MCDeviceTable` | two devices, with addresses of their own or with a shared one; `NetworkSpec` has discovery, the stack, restarts and the load, not the rest of the operator and the tracking |
| `DeviceTableLoops`, `MCDeviceTableLoops` | the loops of the C code, iteration by iteration, compared with the closed forms `DeviceTableOps` uses |
| `DeviceTableLemmas`, `DeviceTableProofs`, `DeviceTableAttribution` | lemmas about the operators; the invariants of queue, table and file; the time a discovery takes; who owns an endpoint, and that no device is forgotten |
| `DeviceTableClock` | `DeviceTable` with a clock for each device, to say how long a discovery may take |
| `DeviceTableLoopsProofs` | the loops compute the closed forms, for every queue and table |
| `Outbox` | abstract: a queue of payloads between the gateway and the server |
| `TransportSocket` | the threads, the socket and the list of buffers; implements `Outbox` |
| `MCTransportSocket`, `TransportSocketProofs` | instance for TLC; proofs, the refinement among them |
| `CommandRelay`, `MCCommandRelay` | the rules, their file and the forwarding; instance for TLC of the disagreement |
| `FrameSlot` | abstract: a slot for one frame that is built, sent, replaced or dropped |
| `GatewayCommands` | the commands of the server on top of `CommandRelay`; implements `FrameSlot` |
| `MCGatewayCommands`, `GatewayCommandsProofs` | instance for TLC of both modules; proofs about both, the refinement among them |
| `GatewayRelay`, `MCGatewayRelay`, `GatewayRelayProofs` | the list of commands, its delays, the state updates; instance for TLC; proofs |
| `ServerView` | table, rules, publications, the list of payloads and the link together with what the server makes of them |
| `ServerViewOutbox` | `ServerView` with the payloads counted: its list is an `Outbox` |
| `MCServerView`, `ServerViewProofs` | instance for TLC; the proofs that payloads add up, that losses are mended, and that the list is an `Outbox` |

### Device table

`table`, `queue`, `eventActive`, `file` and `fileExists` are `deviceTable`,
`taskQueue[0 .. queueSize - 1]`, whether `newDeviceEventControl` is scheduled,
the entries of `devices.txt` and whether there is such a file. Each handler is
one action:

| Action | Code |
|---|---|
| `Announce`, `Rejoin` | the ZDO announce and the trust center callback, with `emberAfDeviceTableNewDeviceJoinHandler` (new device: queue a task; known device, new address: change it and save) |
| `ActiveEndpointsResponse`, `SimpleDescriptorResponse` | the parsers of the two ZDO responses |
| `NewDeviceEvent` | one tick of 50 ms: age all tasks, drop the ones that are too old, serve the head |
| `DeviceLeft` | `newDeviceLeftHandler`: delete the chain, save, delete the tasks |
| `CommandReceived`, `MessageSentStatus` | `device-table-lite-tracking.c` |
| `NetworkDown`, `Restart` | stack status and init callbacks; `clear` of the CLI is the same step as the first |
| `IndexRemoveCommand`, `RemoveCommand`, `SaveCommand`, `LoadCommand` | the commands of the CLI |

The loops are not transliterated. `SameDeviceFrom`, `DeleteTasksOf`,
`StableSorts`, `AgedQueues` and `LoadTable` say what a loop does in one
expression, also where that is odd (the deletions in the join and leave
handlers step over the task behind one they delete; the ageing loop does not).
`DeviceTableLoops` has the loops themselves: `Loop(n, x, body)` is the state in
which n iterations leave x, and each loop of the C code gives it a body, written
as a function so that the loops can be proved about. The run `DT_loops` compares
them with the closed forms on every queue of up to four tasks and every table of
three slots; `DeviceTableLoopsProofs` proves that they agree on every queue and
table.

In `DeviceTable` a save is one step. A crash in the middle of one is treated in
`DeviceTableLoops`: `TornTexts` are the texts a save may leave when it is cut off
at any number, `LoadLoop` is the loop of `emAfDeviceTableLoad` with what `fscanf`
and `feof` make of such a text (a number that is missing keeps the value of the
local variable, `Leftovers`). `TornSaveLoadsAPrefix` says that the entries before
the cut are loaded as they were; at most the one that was cut may be made of
leftovers.

Ticks count 50 ms. `RetryTicks` is the time between two requests and
`MaxWaitTicks` the age at which a task is dropped. `DeviceTableClock` adds a
history variable, `clock`: for every device the ticks since its discovery was last
started. `DiscoveryEndsInTime` is stated with it.

The environment answers and announces at any time, for any of the addresses
`Addr[e]` of a device: those it is ever given, and those of a neighbour that
answers a network address request in its place, since `discovery.c:671` takes the
sender's. An error response is no different from an answer to the code, which
looks at neither status nor length (`discovery.c:406-452`); it is stored with the
endpoint 0. A ZDO response with an address is assumed to come from a device that
has it.

Two devices may share an address (`Addr` is any function): the one that has it
later then takes the slots of the other over, because the code looks the slot up
by address. `TakenOver(e, p)` is that step, an answer stored in a slot of another
device. The properties that no slot, endpoint or device is lost name it as their
one exception of this kind and hold for any sharing. That endpoints are credited
to their own device (`EntriesBelongToTheirDevice`) is true only where nothing is
shared, and `AddressesDisjoint` is the hypothesis it begins with;
`NothingIsTakenOver` is the theorem that under it the exception does not occur.

### Socket transport

What a thread does between lock and unlock is one action; the mutex is the
default one and no call between lock and unlock takes it again. That goes for the
receive thread, too, which calls the layer above with the mutex held: what the
gateway relay does there is in `GatewayRelay`, and it publishes nothing. `LongLink`
is two actions, since its second half - the report to the layer above - runs
without the mutex; `Publish` runs on the main loop, too, and so never between
the two (`~reporting`). The kernel's socket is external: a CASE on its state
says what `connect()` may answer (`EINPROGRESS` for a new socket, `EALREADY`
for one in its handshake, `EISCONN` for an established one, dead or alive).
`addr` and `msg` are the buffer's address and a number for its payload, because
`partialWriteEventHandler` remembers an *address*, which `malloc` may return
again. `published`, `lastSent` and `cuts` are history variables.

`Outbox` says what a caller of Publish may rely on: payloads are sent in the
order they were accepted, each at most once; a payload is lost only from the
front, and only because the list is full while the link is down or because the
payload was given up. The mapping forgets the addresses, the socket and the
threads: `waiting` is the sequence of the payloads in `sendBuf`.

### Command relay

`relayTable` and `relayFile` are the rules and the lines of their file, `known`
the set of devices in the device table - all the relay asks of it.
`emberAfPluginCommandRelayLitePreCommandReceivedCallback` ignores whether the
look-up of the sender succeeded and goes on with a variable that was never
assigned; `SeenAs` is the set of values it may then have. A device that
leaves takes none of its rules along: `command-relay-lite/plugin.properties:28`
asks for the removal by the name `pluginDeviceTableDeviceLeft`, the device table
calls `pluginDeviceTableLiteDeviceLeft` (`device-table-lite/plugin.properties:31`),
so nothing calls `emAfPluginCommandRelayLiteRemoveDeviceByEui64` and `DeviceLeaves`
changes `known` only. `CR_assertion` shows where a rule without its device leads.

### Gateway commands

`emAfPluginGatewayRelaySocketCommandsProccessing` walks `commandArray`, compares
each name with the beginning of the input and calls what matches, without
stopping. `CommandString` has the names in words, and `Dispatch(input)` is the set
of functions called; the actions are guarded by it, so that a change of the
dispatcher changes what can happen. A builder sets the APS header, the frame and
the flag; `ZclSend` sends what header and buffer hold to a device of the table and
resets the flag, also when the device is unknown. The functions that pass their
arguments to the framework and keep nothing are listed in `FrameworkCalls`. The
commands for rules and table are the actions of `CommandRelay`, which this module
extends; `Elsewhere` is what goes on without the server.

`appZclBuffer` and its length are globals of the framework's command line, which
`device-table-lite.c:32-36` uses as well; its header is `globalApsFrame`, and its
`zclCmdIsBuilt` is another variable, since the one of the gateway commands is static.
`CommandLineBuilds` is a `zcl` command of the command line (external),
`CommandLineSends` the sends of the device table (`device-table-lite.c:529-562`):
they send what is in the buffer, whether a frame is built or not, and leave the
server's flag set. A join of an IAS zone writes `globalApsFrame`, too. `foreign` is
history: the content of the buffer is the command line's.

`FrameSlot` says what the globals amount to. In the mapping the slot is empty when
the server's flag is off, whatever is left in header and buffer, and holds a frame
without content while `foreign` is TRUE. `SendMixed` is the one way in which the
server sends what it did not build: the command line built in between.

### The server's view

`ServerView` composes what the other modules treat one by one, each in its
simplest form: a change of the device table is the slots it changes and the
payload its callback publishes; the transport is what `Outbox` says of it; the
rules are a number. The handler of the state update publishes the rules, then the
devices, with `dumping` in between, since the write thread may send in between.
A payload of a device that joined holds the *first* slot of the device
(`buildJsonNode`), so the server may not know of a second endpoint before the next
full update: `Agrees` says what it does know. Two seconds pass between the turns of
LongLink, and at least two turns of the connection thread of two seconds each
between a failed write and a *new* connection; so the loss of the link is reported
before a new connection is made (`NewConnection` waits for `~lastStatus`), while the
same connection may be taken up again unnoticed (`SameConnection`). The server is
external. `lost` is history: what a lost payload was about and why it was lost.
The payload of the settings, the reports and the responses to commands are left
out: they are not part of the view.

`file` is `devices.txt`, with the endpoints but without their states. What changes
the table by a handler saves it; a change of state does not, nor do the remove
commands of the CLI. A restart therefore makes every device joined, and an entry
that was removed by the CLI is back unless something else saved the table in
between. The CLI's own save and load are left to `DeviceTable`.

That the list is "what `Outbox` says of it" is a statement of its own:
`ServerViewOutbox` counts the payloads published and written since the process was
started, and `ListIsAnOutbox` maps the list to their numbers. Each start of the
process begins a new outbox, with the rules of the relay in it or not (`NewList`).

### Gateway relay

The receive thread appends in `handleCommandsMessage`, the main loop processes
the head in `ProcessCommandEventHandler`, and `commandList` has no mutex.
`PushBack` and `PopFront` are therefore taken apart into their accesses to
`head`, `tail`, `next` and `count`, the increment and the decrement of `count`
into a read and a write. The functions belong to the framework; the module
follows the copies of them in `transport-socket.c`. `recv.at` and `main.at` say
where the two threads are. Elements are numbered in the order they were made,
so that "the elements not yet processed" is an interval of numbers, and an
element that is still in the list after it was processed is recognised as freed
memory.

What keeps the threads apart, as far as anything does, is `sockInfoMutex`. The
receive thread holds it from the arrival of a message to its return
(`MutexIsFree`; `transport-socket.c:705-718`). The main loop needs it for a
publication (`Published`, `UpdatePublishes`; `:805`), gives it up again, and takes the
element off afterwards. So a command whose append is in progress is not removed
(`AppendEndsBeforeRemoval`), but the next append may begin before the removal is
over, and a delay of 0 ms, which is not published, may be removed at any time.
`raced` is history: an append and a removal have met where they disturb each other
(`Race`: the element that goes is one of the last two or the one that is being
appended, or both update the count). `GR_race` shows that this happens and what comes
of it, `OnlyRacesSpoilTheList` that nothing else spoils the list.

`undefined` collects what memory the program used that it must not use: an element
that was freed or is no element, or the stamp of a delay of 0 ms (`Stamp`), written
after its element was freed, which may go unnoticed or not.

The clock is kept while a delay runs. Before it starts, any time may have
passed, so that a delay begins at any value of the tick.

## 3. What is checked

| Run | Question | Bounds |
|---|---|---|
| `DT_network` | with an address shared by two devices: is no wake-up lost, no device and no endpoint forgotten; does a leftover of a load stay harmless; does discovery come to rest? | `FairNetworkSpec`: table 2, queue 2, 2 endpoints and endpoint 0, retry 2 ticks, age 2 |
| `DT_full` | all actions, also operator and tracking, without shared addresses: types, file covers table, endpoints are credited to their device, departures are complete | `Spec`: table 2, queue 2, retry 1, age 1 |
| `DT_loops` | are the closed forms what the loops compute? what does a torn file load? | every queue of 4 tasks; every table of 3 slots; every place a save may be cut off at |
| `TS_link` | the socket in use is connected; resending ends; order; refinement of `Outbox`; the link comes back and is reported; payloads leave | `FairSpec`: 3 buffers, limit 2, 4 payloads, 4 failures, 2 retries, 2 EISCONN |
| `CR_rules` | the file holds the rules; a restart keeps them; a name calls its own function; a frame of the server is sent once and whole, with the command line in the same buffer | `GatewaySpec`: 2 devices, 2 ends, 2 rules, 1 cluster of attributes, all commands |
| `GR_commands` | nothing but a race spoils the list; an element is not removed during its append; commands in turn and once; delays are kept; state requests are answered; the receive thread comes back | `FairSpec`: 3 elements, messages of up to 3 commands, delays 0 and 2, tick modulo 4, index modulo 4 |
| `SV_view` | do the single changes add up to the table; is a loss mended; does the server's view converge? | `FairSpec`: 2 devices, 3 endpoints, 2 slots, limit 2, 2 changes, 3 failures |

The remaining five runs are the disagreements of section 5.

**Why the bounds suffice.** One device has two addresses, so that it can move. The
other has the second of these (`DT_network`), so that each can meet the other's
entries under its own address, or a third one (`DT_full`), so that only code that
compares too little can confuse the two. Two endpoints make a chain, and make an
active endpoints response queue two tasks; two devices with two endpoints overflow a
table of two slots and a queue of two tasks. A retry time and an age limit of two
ticks have a task that waits, one that is due and one that is too old; `DT_full`,
which has no use for the waiting, makes do with one. (The complete `Spec` *with* the
shared address holds, too, but takes too long for a run that is repeated often.) For the
transport, a limit of two with four payloads fills the list, overflows it and
carries more payloads through than there are addresses, so that addresses come
round again; four failures are enough to use up the retries of a payload (three
partial writes, the last of which gives it up) or the EISCONN count, and one
more. Two rules allow a gap in front of a rule, which a load closes, and
a full table. Three elements are a head, a tail and one between them, which is what
the list functions tell apart, and let an append meet a removal at the last element,
at the last but one and further ahead; a tick of four values lets a delay of 2 ms end
before, at and past the wrap; an index of four values counts messages of up to
three commands, as one of 256 counts up to 255. For the server's view, two slots
for three endpoints let a table fill up and hold two slots of one device, in
either order; a list of two overflows with the two payloads of an update and one
change; a dead connection that is taken up again takes three failures (the
server goes, a write fails, the socket says it is connected). What needs more
(every table size, queue size and retry count) is what the theorems are
for. Addresses of buffers are only compared for equality, so
`TS_given_up` uses symmetry over them; no run with a liveness property does.

**Fairness.** `FairNetworkSpec` assumes that the 50 ms event is served when it is
scheduled, nothing of devices and operator. `FairSpec` of the transport assumes
that each thread and the LongLink event take their turns (they loop for ever
with sleeps) and that handshakes complete again and again: strong fairness,
because the client closes a socket whose handshake has not ended by the next
turn. That is a demand on the network, not something the code provides;
`LinkIsRestored` does not hold without it. Failures are bounded by `MaxFaults`:
the property speaks of what happens after the last failure. `Publish` has no
fairness. `FairSpec` of the gateway relay assumes that the receive thread goes on
with a message it has begun, that the main loop finishes a handler it has begun,
and that it serves the StateUpdate event, which is due at once when it is
switched on. That the main loop gets the mutex for a publication is strong fairness:
the receive thread gives it up after each message and then sleeps
(`RECV_SOCK_THREAD_DELAY_MS`), but may take it again and again. No fairness makes a message arrive or the tick go on. `FairSpec` of the
server's view assumes that both halves of the update, LongLink and the write
thread take their turns, and, strongly, that a connection is made when one is
possible again and again: the same demand on the network as the transport's.
Nothing makes a device do anything.

**The properties.** Each is defined at the end of its module with the code it
is about. Those that took most thought:

- `KnownEndpointsPersist` - an endpoint in the table or the file is lost only
  when its device leaves, the operator removes it, the network is left, or a device
  with the same address takes it over;
- `DeviceIsNotForgotten` - a device whose task disappears is in the table, or
  left, or its task was as old as the code waits, or it was taken over in that way;
- `FirstSlotStaysOccupied` - a load may leave an EUI64 in a free slot, but no step
  makes a look-up by EUI64 find such a slot instead of one in use, unless a device
  with the same address took that one over;
- `DiscoveryComesToRest` - the queue does not stay filled for ever unless new
  devices keep coming;
- `ResendingEnds` - whatever buffer `partialWriteEventHandler` remembers from
  before, a payload that is always cut short leaves the head of the list;
- `ImplementsOutbox` - the refinement;
- `OnlyRacesSpoilTheList` - between two operations `head`, `tail`, `next` and `count`
  together say which commands are left, and say the same, and no freed element is
  touched, unless an append met the removal of an element next to it
  (`CommandsAreKept`, without the exception, is what `GR_race` refutes);
- `AppendEndsBeforeRemoval` - the mutex that is taken for a publication keeps an
  element in the list until its own append has returned;
- `DelayIsKept` - a delay lasts its full time wherever in the range of the tick
  it begins, but for the one whose end is past the last tick before the wrap;
- `StateRequestIsAnswered` - also when the request comes while the handler of an
  earlier one runs, since the handler switches its event off before it publishes;
- `TornSaveLoadsAPrefix` - a crash during a save spoils one entry, not the table;
- `ImplementsFrameSlot` - whatever is built, sent, given up or restarted in
  between, what the server sends to a device is its frame, once, and whole unless
  the command line has built in the same buffer;
- `OneEntryEach` - comparing prefixes without a stop calls one function for each
  name, with one exception the property names;
- `NothingIsOwed` - what the server knows with all payloads on their way applied
  to it is what the gateway has, unless something is lost or an update is due;
- `LossIsMended` - of what was lost with the server gone, or from a full list
  during a noticed loss of the link, nothing is missing once the new connection
  was reported and served;
- `ViewConverges` - in the end the server knows the table, or something was lost
  for one of the reasons no code makes good.

## 4. What is proved

All proofs are complete, and hold for every value of the constants that
satisfies the assumptions named in the modules.

| Theorem | Statement |
|---|---|
| `TypeCorrect`, `NoLostWakeup`, `QueueStaysSorted`, `PhasesFit`, `FileIsComplete` | `Spec => []` of `TypeOK`, `PendingTaskIsScheduled`, `HeadIsNextDue`, `PhaseMatchesEndpoint`, `FileCoversTable` |
| `DepartureClearsDevice` | `Spec => DepartureIsComplete` |
| `DiscoveryIsBounded` | `ClockSpec => []DiscoveryEndsInTime` |
| `EndpointsAreAttributed` | `Spec => []EntriesBelongToTheirDevice`, whose hypothesis is `AddressesDisjoint` |
| `NothingIsTakenOver` | `Spec => [][AddressesDisjoint => no TakenOver(e, p)]_vars` |
| `StaleSlotsComeLast` | `Spec => FirstSlotStaysOccupied`, whatever addresses are shared |
| `EndpointsStayKnown` | `Spec => KnownEndpointsPersist`, whatever addresses are shared |
| `DevicesAreNotForgotten` | `Spec => DeviceIsNotForgotten`, whatever addresses are shared |
| `SortIsStable`, `AddingIsEnqueue`, `DeletionSkips`, `EveryTaskAges` | `Spec => []` of `BubbleSortIsStable`, `AddingInTurnIsEnqueue`, `DeletionLoopSkips`, `TickAgesEveryTask` (loops over the queue) |
| `ChainsReachAll`, `LoadRestores`, `TornSaveIsAPrefix` | `Spec => []` of `ChainsReachTheDevice`, `LoadRestoresTheSavedTable`, `TornSaveLoadsAPrefix` (loops over the table and the file) |
| `SocketTypeCorrect`, `SocketIsOpen`, `ResendingIsBounded`, `PayloadsAreSentInOrder` | `Spec => []` of `TypeOK`, `ConnectedSocketIsOpen`, `ResendingEnds`, `SentInOrderOnce` |
| `TransportImplementsOutbox` | `Spec => ImplementsOutbox` |
| `RelayTypeCorrect`, `RulesAreSaved` | `Spec => []` of `TypeOK`, `FileHoldsTheRules` (command relay) |
| `RelayTypeKept`, `FileKeepsTheRules` | the same for `GatewaySpec`, all commands of the server included |
| `RestartKeepsTheRules` | `GatewaySpec => RestartKeepsRules` |
| `GatewayImplementsFrameSlot` | `GatewaySpec => ImplementsFrameSlot` |
| `NamesAreUnambiguous` | `GatewaySpec => []OneEntryEach` |
| `GatewayRelayTypeCorrect`, `OnlyRacesMatter`, `RemovalWaitsForAppend` | `Spec => []` of `TypeOK`, `OnlyRacesSpoilTheList`, `AppendEndsBeforeRemoval` (gateway relay) |
| `CommandsComeInTurn`, `DelaysAreKept` | `Spec => ProcessedInTurn`, `Spec => DelayIsKept` |
| `LossesAreMended` | `Spec => []LossIsMended` (server's view) |
| `ViewTypeCorrect`, `PayloadsAddUp` | `Spec => []` of `TypeOK`, `NothingIsOwed` (server's view) |
| `ListBehavesAsOutbox` | `CountedSpec => ListIsAnOutbox` (server's view) |

**Device table.** The operators are proved about first (`DeviceTableLemmas`): what
a sort, an insertion, the deletions and the ageing keep - sortedness, types,
bounds. Then two invariants. `QueueInv` (types, wake-up, sortedness, phases) is
inductive by itself: the wake-up needs the type of the queue and the sort needs
the delays to be numbers, nothing else. `TableInv` (types, the file covers the
table) is inductive relative to `QueueInv`, because a descriptor moves the EUI64
of a *task* into the table. `FileCoversTable` alone would not do: the load must
know that a line of the file is a proper entry.

Ownership needs `AttributionInv`: not only do the occupied slots bear addresses
of their device, so do the queued tasks and the lines of the file (from which
they come), and the first slot of each EUI64 is occupied. The last part is what
keeps stale slots harmless: a change of node id looks its chain up by the *old
node id* of the slot a look-up by EUI64 found, and were that slot free, the
chain would start at the first free slot of the table. `AttributionInv` has the
hypothesis `AddressesDisjoint`; where a short address wanders from one device to
another while both are in use, the code cannot tell them apart.

The other three theorems of this kind do not use it, and hold however addresses are
shared. What they say of shared addresses comes from one lemma on the one step that
goes by the address alone, `DescriptorKeepsOrTakesOver`: an answer leaves every
occupied slot occupied and its endpoint as it is, and its device, too, unless it is
`TakenOver`. That known endpoints persist (`EndpointsStayKnown`) then needs only
`QueueInv` and `TableInv` - a load replaces the table by a file that covers it - and
`FileThere`, which says that before the first save nothing is in the file that a
load could be thought to lose. That the first slot of a device stays occupied
(`StaleSlotsComeLast`) is a comparison of the slots before and after each step: a
load reads the file into the front of the table, in the order of the slots
(`FirstSlotAfterLoad`), and a deletion clears the stale slots along with the others
(`FirstSlotAfterDeletion`). `NothingIsTakenOver` ties the two kinds together: under
`AddressesDisjoint` the exception never applies.

That no device is forgotten (`DevicesAreNotForgotten`) is argued in two parts. For a
device in the table it is a consequence of `KnownStep`, the step lemma of the
paragraph above: its endpoints stay, or one of the excepted things happened. For a
device that is only queued, each operation on the queue is shown to keep every task
it is not about (`StaysQueued`): sorting and ageing rearrange, and a full queue refuses
the new task, not an old one. Two steps need more. A join of a device that is
already queued deletes its tasks and then queues a new one, and the queue may have
been full; there is room, because the deleting loop, for all that it steps over,
always deletes the first task of the device (`QueuedAfterStart`). An active
endpoints response consumes the task it answers; its place is free for the first
endpoint of the response (`QueuedAfterEndpoints`). And an answer that is stored
keeps its device known by the table (`WantedAfterDescriptor`).

How long a discovery takes (`DiscoveryIsBounded`) does not follow from the age at
which a task is dropped: an active endpoints response makes new tasks, whose age
begins at zero, and a rejoin starts everything again. `ClockInv` relates the clock of
a device to the age of its tasks (`TaskInTime`): a task without an endpoint has waited
as long as the clock says, one with an endpoint at most `MaxWaitTicks` less, since
only tasks without an endpoint make others. The limit of `2 * MaxWaitTicks` is met by
a device that answers the first request at the last moment. The second part of
`ClockInv`, that the event is on only while some clock is before the deadline, says
that the event goes off with the last task. Unlike `DiscoveryComesToRest`, this is a
safety property and needs no fairness: it speaks of runs of the event, not of time.
The clock hinders no step of `Spec`, as `ClockTick` defines its next value in every
case.

**Loops.** Each loop has its own relation between the state after k iterations and the
state before the loop (`Start` and `SteppedOver` for the deletions, `TickedTo`,
`FollowedTo`, `SavedTo`, `LoadedTo`); a step lemma takes it from k to k + 1, and
`LoopRule` carries it to the end. `LoopRule` is an induction over the iterations.
The library's induction theorems take an operator as a parameter, which the provers
cannot instantiate; but that a non-empty set of naturals has a smallest member
follows from the well-foundedness of `<` on the naturals, which the library proves,
and that gives induction for *sets* of naturals (`Induction`), among them the set of
all n for which a loop has a run of length n (`RunExists`).

Where the closed form is a set - all sorted arrangements that keep the order of
tasks with the same delay, all increasing enumerations of the tasks kept - the set
must have no second member. An increasing enumeration of a set is unique
(`EnumerationIs`), and so is a sorted rearrangement in which tasks of the same
delay stand in the order of their old places (`SortIs`). That a bubble sort is stable
is an invariant of its passes: tasks of the same delay are never interchanged, and
after p passes the last p places are final (`PassProperties`). For the chains, what
keeps a chain whole is that the next slot is found before the present one is
changed, so that the slots not yet reached are as they were (`FollowedTo`). The
chains for a new node id and a new state find it afterwards; they do the same because
they leave the EUI64 alone (`LateChainIs`).

One lemma about the load serves the whole file and the torn one (`LoadIs`): when the
first w records of a text are read as they were written and the end of the file is
noticed with the next one (`ReadsFirst`), the slots before w hold these records, those
behind w are freed, and what slot w holds is said only if the text ends with the
mark - then it is free, too. What remains is arithmetic: which number of the text
stands at which place (`TextIs`), and how many records are whole in front of a cut
(`TornTextsRead`).

**Transport.** `SocketInv` is types, `ConnectedSocketIsOpen`, `HeadIsRemembered`
and `Consecutive`. `HeadIsRemembered` relates the two statics of
`partialWriteEventHandler` to the number of times the head was cut short and
bounds the latter; `Consecutive` says that the payloads in the list are the last
ones accepted, without a gap, all later than the one sent last. The refinement
is proved action by action: publish, a write, a give-up and a change of the
status map to actions of `Outbox`, the rest to stuttering.

**Command relay and gateway commands.** A save writes the entries in use in their
order, and a load counts them back. The order is given by a rank: `LineOf(t, i)` is
the number of entries in use up to `i`, which maps the entries in use one to one
onto `1 .. Cardinality(Used(t))` (`UpToProperties`, `EveryLineHasItsEntry`). From
that, `LinesOfLoaded`: a file that is loaded would be saved again as it is.
`RelayInv` - types, and that the file holds the lines of the table - is inductive,
and that a restart keeps the rules follows from it in one step. `GatewaySteps` shows
that a step of the server's commands is, to the relay, one of its own or none, which
carries both over to `GatewaySpec`. `FrameInv` says that header and buffer hold one
frame of the server whenever the flag is on and the content is not `foreign`, that
foreign content is there, and what the two headers and the direction may be;
builders establish it, of the server and of the command line, and then every action
maps to one of `FrameSlot`.

`OneEntryEach` holds in every state if it holds in one, as it speaks of the names
alone. Every name is one of two to four words (`NamesAreSequences`); it begins with
another if that one is not longer and agrees with it in all its words
(`PrefixOfWords`). Two names of two words differ in one of them; two longer names
differ in one of the first three, but for `AllowRejoin` and `SetRejoinTimeout`; and
a name of two words begins no longer one (`OnePrefix`).

**Gateway relay.** No theorem assumes anything of the threads but the mutex where
the code takes it. The list is proved right between *any* two accesses, not only
between operations, as long as no `Race` has happened. `Shape` says which elements
are linked (`Linked`, from `First` to `LastLinked`), at which of them the tail is
(`EndsAt`), how many are counted (`CountedIn - CountedOut`) and that what a thread
has read is still so when it writes (`ReadsHold`); each of these is given by where the
two threads are, so that an append and a removal may be under way at once. It is
inductive because what would break it is a step into `Race`, after which
`ShapeInv == TypeInv /\ (~raced => Shape)` claims types alone. That these survive
everything, too, needs `Bounds`: in particular the count a removal takes 1 from is
not 0, also where an append has overwritten it meanwhile, since an append writes at
least 1. `MutexInv` is that of the mutex: when an element is being taken off, its
append is over, for the publication waited for it. `DelayInv` adds the arithmetic of
a delay: while it has not lasted, the current tick and the time that is left add up
to the resume time, so a tick past the resume time means that nothing is left.

**Server's view.** `MendInv` says of each loss what will mend it: an update that is
due, the devices that are still to follow when it is about devices and an update
is half done, or the report of a connection that is still to come. A payload lost
because the server is gone waits for a connection the gateway has not made; it is
this case that needs `NewConnection` to come after the report of the loss.

`ViewInv` says what is on its way: once the connection was reported, and unless a
loss or an update that is due excuses it, the view with all waiting payloads applied
has the rules (`RulesOnTheirWay`) and agrees with the table (`NodesOnTheirWay`). A
loss excuses only what it is about. The proof handles the payloads as a
fold: a payload that is appended is applied last (`FoldAppend`), one that is sent
has been applied first (`FoldHead`), and one that is dropped from the head of a
full list is either told again by a later one or recorded as lost (`HeadDropped`).
Then each change of the table is compared with the payload it publishes
(`JoinedAgrees`, `StateAgrees`, `LeftAgrees`); the second needs that the slots of one
device change their state together. A restart has to keep the types alone, since
after it no connection is reported yet. `FileTypeOK`, that the file holds records,
is kept along with `ViewInv`: what a save writes are records, by an induction over
the slots (`SavedType`), and what a load makes of them are nodes (`LoadedType`).

For `ListBehavesAsOutbox` the payloads that wait are the last ones counted
(`CountInv`). A publication, a write and a give-up map to those of `Outbox`
(`PublishCounts`, `HeadCounts`), what changes the connection to its change of the
link, and the rest to stuttering (`RestCounts`). Together with
`TransportImplementsOutbox` this says that both modules, the one that has the
threads and the one that has the contents, treat the list in the same way.

**Only model-checked.** The liveness properties: temporal proofs under fairness are
out of the prover's reach. These are `DiscoveryComesToRest`, `LinkIsRestored`,
`PayloadsLeave`, `StateRequestIsAnswered`, `MessagesAreHandled` and `ViewConverges`.
The five disagreements of section 5, which are counterexamples. Every invariant and
every action property of the passing runs is the statement of a theorem.

## 5. Where the code and its comments disagree

Each is a run that must find its property violated; `PROJECT.json` quotes the
sentence and gives the line.

| Run | The code says | The code does |
|---|---|---|
| `DT_left_task` | delete *any* pending task of the device that left | of two neighbouring tasks the second stays |
| `DT_one_node_id` | the node id is made to match the EUI64 | an endpoint still in discovery during an address change is stored under the old address |
| `TS_given_up` | removed after several attempts to resend | removed at its first partial write, if another buffer is remembered |
| `GR_race` | the list holds the commands to process as they come in | its mutex is given up before the command is taken off: the append of the next command meets the removal, the two updates of the count meet, and a command is left in the list with a count of 0, to be executed, freed and executed again |
| `CR_assertion` | the index is below the table size; and the rules of a device are removed when it leaves | nothing calls that removal, so that a rule outlives its device, and a rule to an unknown device passes the null index |

Seen on the way, without a run of their own: a load says it sets the rest of the
table to null (`device-table-lite.c:487`) but keeps its EUI64s, and the next
change of address revives such a slot; an error response is stored as a descriptor
of endpoint 0, since neither status nor length are looked at
(`device-table-lite-discovery.c:406`); a send of the device table's command line
sends what the server has built under the command line's header, and leaves the
server's flag set, so that the frame is sent again (`device-table-lite.c:537`), and a
frame the command line builds goes out under the server's header; a device with endpoints under two
node ids (`DT_one_node_id`) can be taken out of the leaving state by
`MessageSentStatus`, against `device-table-lite-tracking.c:176`; leaving the
network clears the table but not the discovery tasks, against
`device-table-lite.c:392`; what a rule forwards keeps the cluster it came with,
against `command-relay-lite.h:26` (the forwarded frame is not modelled); the
commands of a sender that is not in the device table are compared with an EUI64
that was never assigned (`command-relay-lite.c:46`), against
`command-relay-lite.h:19`; the command `...-well-known-key-timeout` also runs the
command whose name it begins with, with an argument that is none
(`OneEntryEach`); the write of a string attribute says it is not supported and
leaves an incomplete frame that can be sent; a group command of an unknown name
leaves a frame without a command, and one that begins with `add` is an add
whatever follows; a second endpoint of a device is published by the next full
update only (`gateway-relay-socket.c:667`); the remove commands of the command line
publish nothing; what a full list loses while the loss of the link goes unnoticed
is not told again.

## 6. What is left out

- In the device table: cluster lists and time stamps, the sends to an entry but
  for what they do to the shared frame (`CommandLineSends`), the index of type `uint16_t`
  (indices are unbounded; the table has 250 slots), the global node of a
  discovery from the command line, and an index past the table in
  `IndexRemoveCommand`, at which an assertion fails and the gateway restarts (`Restart`
  is a step of its own). A crash in the middle of a save is not a step
  of `DeviceTable`, but treated in `DeviceTableLoops`.
- The broadcasts of permit joining: they toggle a flag with a fixed period.
- In the transport: the INT_TEST build, the bytes received, and the times of
  the sleeps, of which the interleavings are a superset.
- The text of the two files and of the JSON payloads, logging, printing.
- In the gateway relay: the heartbeat and the settings, the dispatch of messages
  by topic, the reports, responses and OTA progress
  it publishes, the JSON text, and what the executed commands do. What a write to
  freed memory overwrites. Messages of more than 255 commands, whose loop does not
  end (`gateway-relay-socket.c:1193`) and holds the mutex for ever. When the resume time wraps (`:1865`) the
  delay may be cut short, begin again or never end; the model has all three, and
  only the first is told apart (`passedEnd`).
- In the gateway commands: the parsing of arguments and the bytes of a frame, and
  what else the framework and its command line do with `appZclBuffer` and
  `globalApsFrame`.
- In the server's view: reports, responses, settings, OTA progress.
- A crash in the middle of a save of `command-relay.txt`: `Saved` is one step, while
  the code truncates the file before it writes (`command-relay-lite.c:118`).
- The firmware images: there is no source in them.

## 7. Plan

In order of importance; the first eight are done.

1. Device table with discovery and tracking; proofs of queue, table, ownership.
2. Socket transport and `Outbox`; proofs, refinement.
3. Command relay; proofs.
4. Gateway relay: the list of commands, delays, state updates; proofs.
5. The gateway commands and `FrameSlot`; proofs, refinement.
6. The server's view of table and rules, through `Outbox`; proof that losses are
   mended.
7. A crash in the middle of a save of `devices.txt`.
8. Theorems for what was only model-checked: `DeviceIsNotForgotten`, `NothingIsOwed`,
   `OneEntryEach`, the loops; the time a discovery takes, and the list of the
   server's view as an `Outbox`.
9. The bytes of one `recv`: several commands in one, one in several
   (`transport-socket.c:257`).
10. The remaining commands of the device table CLI, among them a discovery by
    hand that overwrites the node of the one before it.
