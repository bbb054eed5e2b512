------------------------------ MODULE ServerView ------------------------------
(***************************************************************************)
(* What the server knows of the devices and of the rules of the relay.     *)
(* The gateway relay (gateway-relay-socket.c) publishes what the device    *)
(* table and the command relay tell it by their callbacks, one payload for *)
(* each change, and everything after a new connection, on request, and     *)
(* when the table was cleared.  The payloads go through the list of the    *)
(* transport, which is here what Outbox says of it: it keeps their order   *)
(* and may lose the oldest.                                                *)
(*                                                                         *)
(* The server is external.  It takes a payload by its topic: "relays" and  *)
(* "devices" replace what it knew, the others change it.  A server that    *)
(* was started again knows nothing.                                        *)
(***************************************************************************)
EXTENDS Integers, FiniteSets, SequencesExt

CONSTANTS
  Devices,              \* EUI64s
  EndpointsOf,          \* the endpoints of each device
  TableSize,            \* EMBER_AF_PLUGIN_DEVICE_TABLE_DEVICE_TABLE_SIZE
  NoDevice,             \* a free slot
  MSG_CNT_DISCONN_MAX,  \* the limit of the list while there is no connection
  Files,                \* what devices.txt may hold at the start
  MaxChanges,           \* bound: changes in the gateway, requests, restarts
  MaxFaults             \* bound: failures of the link and of the server

ASSUME SizesAssumption ==
  TableSize \in Nat \ {0} /\ MSG_CNT_DISCONN_MAX \in Nat \ {0}

Idx    == 1 .. TableSize
States == {"joined", "unresponsive"}
Nodes  ==
  {n \in [eui64 : Devices, endpoint : UNION Range(EndpointsOf), state : States]
     : n.endpoint \in EndpointsOf[n.eui64]}
Records ==              \* the file has no states
  {r \in [eui64 : Devices, endpoint : UNION Range(EndpointsOf)]
     : r.endpoint \in EndpointsOf[r.eui64]}

ASSUME DevicesAssumption ==
  EndpointsOf \in [Devices -> SUBSET (0 .. 255)] /\ NoDevice \notin Nodes

ASSUME FilesAssumption == \A f \in Files : f \in Seq(Records)

VARIABLES
  table, file,          \* the device table; devices.txt
  rules,                \* a number for the relay's rules
  due,                  \* is the StateUpdate event active?
  dumping,              \* is its handler between two of its payloads?
  waiting,              \* the payloads in the list of the transport
  up, alive,            \* is the socket in use CONNECTED; is there a server
                        \* at its other end?
  lastStatus,           \* the link as LongLink reported it
  view,                 \* the nodes and the rules as the server has them
  lost,                 \* history: what a lost payload was about, and why it
                        \* was lost, until everything was published again
  changes, faults       \* counters for the bounds

gateway == <<table, file, rules>>
update  == <<due, dumping>>
link    == <<up, alive, lastStatus>>
vars == <<gateway, update, waiting, link, view, lost, changes, faults>>

EmptyTable == [i \in Idx |-> NoDevice]
Used == {i \in Idx : table[i] # NoDevice}
SlotsOf(e) == {i \in Used : table[i].eui64 = e}
Known == {e \in Devices : SlotsOf(e) # {}}

(* buildJsonNode                                                           *)
FirstNode(t, e) == t[CHOOSE i \in Idx : /\ t[i] # NoDevice /\ t[i].eui64 = e
                                        /\ \A j \in 1 .. i - 1 :
                                             t[j] = NoDevice \/ t[j].eui64 # e]
-----------------------------------------------------------------------------
(* The payloads.                                                           *)
Payload(topic, content) == [topic |-> topic, content |-> content]

RelaysPayload == Payload("relays", rules)
DevicesPayload == Payload("devices", {table[i] : i \in Used})
JoinedPayload(t, e) == Payload("devicejoined", FirstNode(t, e))
LeftPayload(e) == Payload("deviceleft", e)
\* Mutant: every change is published as a departure.
StateChangePayloadAsLeft(e, s) ==
  Payload("devicestatechange", [eui64 |-> e, state |-> "left"])
StateChangePayload(e, s) == Payload("devicestatechange", [eui64 |-> e, state |-> s])

(* The server's side.                                                      *)
Applied(v, p) ==
  CASE p.topic = "relays"  -> [v EXCEPT !.rules = p.content]
    [] p.topic = "devices" -> [v EXCEPT !.nodes = p.content]
    [] p.topic = "devicejoined" ->
         [v EXCEPT !.nodes =
            {n \in @ : n.eui64 # p.content.eui64 \/ n.endpoint # p.content.endpoint}
              \cup {p.content}]
    [] p.topic = "deviceleft" ->
         [v EXCEPT !.nodes = {n \in @ : n.eui64 # p.content}]
    [] p.topic = "devicestatechange" ->
         [v EXCEPT !.nodes =
            {IF n.eui64 = p.content.eui64 THEN [n EXCEPT !.state = p.content.state]
                                          ELSE n : n \in @}]

(* The payload that tells everything p can tell.                           *)
DumpFor(p) == IF p.topic = "relays" THEN "relays" ELSE "devices"

(* The loss of p matters unless a later payload tells everything.          *)
Loss(p, later, cause) ==
  IF \E q \in Range(later) : q.topic = DumpFor(p)
  THEN {} ELSE {[about |-> DumpFor(p), cause |-> cause]}

(***************************************************************************)
(* emberAfPluginTransportSocketPublish (Accept of Outbox): without a       *)
(* connection, a full list loses its oldest payload.                       *)
(***************************************************************************)
Publish(p) ==
  LET full == ~up /\ Len(waiting) >= MSG_CNT_DISCONN_MAX
      cause == IF lastStatus THEN "unnoticed" ELSE "disconnected"
  IN  /\ waiting' = Append(IF full THEN Tail(waiting) ELSE waiting, p)
      /\ lost' = {l \in lost : l.about # p.topic}
                   \cup IF full THEN Loss(Head(waiting), waiting', cause) ELSE {}

(* emAfDeviceTableSave: the occupied slots of t in their order.            *)
Saved(t) ==
  LET upTo[i \in 0 .. TableSize] ==
        IF i = 0 THEN << >>
        ELSE IF t[i] = NoDevice THEN upTo[i - 1]
        ELSE Append(upTo[i - 1],
                    [eui64 |-> t[i].eui64, endpoint |-> t[i].endpoint])
  IN  upTo[TableSize]

(* The table as it comes from its file.                                    *)
Loaded(f) ==
  [i \in Idx |-> IF i <= Len(f)
                 THEN [eui64 |-> f[i].eui64, endpoint |-> f[i].endpoint,
                       state |-> "joined"]
                 ELSE NoDevice]

Init ==
  /\ file \in Files
  /\ table = Loaded(file)
  /\ rules = 0
  /\ due = TRUE /\ dumping = FALSE
  /\ waiting = << >>
  /\ up = FALSE /\ alive = FALSE /\ lastStatus = FALSE
  /\ view = [nodes |-> {}, rules |-> 0]
  /\ lost = {}
  /\ changes = 0 /\ faults = 0
-----------------------------------------------------------------------------
(* Handlers of the main loop, which do not run in the middle of another.   *)
Change ==
  /\ ~dumping
  /\ changes < MaxChanges
  /\ changes' = changes + 1
  /\ UNCHANGED <<dumping, link, view, faults>>

(* newEndpointDiscovered: the endpoint goes to the first free slot; what   *)
(* is published is the first slot of its device.                           *)
EndpointDiscovered ==
  /\ Change
  /\ \E e \in Devices : \E p \in EndpointsOf[e] :
       /\ \A i \in SlotsOf(e) : table[i].endpoint # p
       /\ Used # Idx
       /\ table' = [table EXCEPT ![Min(Idx \ Used)] =
                      [eui64 |-> e, endpoint |-> p, state |-> "joined"]]
       /\ Publish(JoinedPayload(table', e))
  /\ file' = Saved(table')
  /\ UNCHANGED <<rules, due>>

(* A device has changed its address.                                       *)
DeviceRejoins ==
  /\ Change
  /\ \E e \in Known : Publish(JoinedPayload(table, e))
  /\ file' = Saved(table)
  /\ UNCHANGED <<table, rules, due>>

\* Mutant: only the slot that was looked at gets the new state.
StateChangesInOneSlot ==
  /\ Change
  /\ \E e \in Known, s \in States :
       /\ FirstNode(table, e).state # s
       /\ table' = [table EXCEPT ![Min(SlotsOf(e))].state = s]
       /\ Publish(StateChangePayload(e, s))
  /\ UNCHANGED <<file, rules, due>>

(* optionallyChangeState: the state of the first slot decides, the states  *)
(* of all slots change.                                                    *)
StateChanges ==
  /\ Change
  /\ \E e \in Known, s \in States :
       /\ FirstNode(table, e).state # s
       /\ table' = [i \in Idx |-> IF i \in SlotsOf(e)
                                  THEN [table[i] EXCEPT !.state = s] ELSE table[i]]
       /\ Publish(StateChangePayload(e, s))
  /\ UNCHANGED <<file, rules, due>>

(* newDeviceLeftHandler                                                    *)
DeviceLeaves ==
  /\ Change
  /\ \E e \in Known :
       /\ Publish(LeftPayload(e))
       /\ table' = [i \in Idx |-> IF i \in SlotsOf(e) THEN NoDevice ELSE table[i]]
  /\ file' = Saved(table')
  /\ UNCHANGED <<rules, due>>

(* emberAfDeviceTableClear and deviceTableClearedCallback                  *)
TableCleared ==
  /\ Change
  /\ table' = EmptyTable
  /\ file' = Saved(table')
  /\ due' = TRUE
  /\ UNCHANGED <<rules, waiting, lost>>

(* commandRelayChangedCallback: the rules were saved or loaded.            *)
RulesChange ==
  /\ Change
  /\ rules' = 1 - rules
  /\ Publish(Payload("relays", rules'))
  /\ UNCHANGED <<table, file, due>>

(* The command line removes an entry, with the later ones of the same      *)
(* device, and neither saves the table nor calls anybody.                  *)
EntryRemoved ==
  /\ Change
  /\ \E i \in Used :
       table' = [j \in Idx |-> IF j \in SlotsOf(table[i].eui64) /\ j >= i
                               THEN NoDevice ELSE table[j]]
  /\ lost' = lost \cup {[about |-> "devices", cause |-> "not published"]}
  /\ UNCHANGED <<file, rules, due, waiting>>

(* handlePublishStateMessage, of the receive thread.                       *)
StateRequested ==
  /\ changes < MaxChanges
  /\ up /\ alive
  /\ due' = TRUE
  /\ changes' = changes + 1
  /\ UNCHANGED <<gateway, dumping, waiting, link, view, lost, faults>>

(* The process is started again: the table is the one saved last, with all *)
(* states joined, and the relay publishes the rules it loads if the list   *)
(* of the transport is there.                                              *)
Restart ==
  /\ changes < MaxChanges
  /\ changes' = changes + 1
  /\ table' = Loaded(file)
  /\ waiting' \in {<< >>, <<RelaysPayload>>}
  /\ due' = TRUE /\ dumping' = FALSE
  /\ up' = FALSE /\ alive' = FALSE /\ lastStatus' = FALSE
  /\ lost' = {}
  /\ UNCHANGED <<file, rules, view, faults>>
-----------------------------------------------------------------------------
\* Mutant: the rules are published, and the devices are not.
UpdateOfRelaysOnly ==
  /\ due /\ ~dumping
  /\ due' = FALSE
  /\ Publish(RelaysPayload)
  /\ UNCHANGED <<gateway, dumping, link, view, changes, faults>>

(* StateUpdateEventHandler switches its event off and publishes the rules, *)
(* then the devices; the transport may send in between.                    *)
UpdateBegins ==
  /\ due /\ ~dumping
  /\ due' = FALSE /\ dumping' = TRUE
  /\ Publish(RelaysPayload)
  /\ UNCHANGED <<gateway, link, view, changes, faults>>

UpdateEnds ==
  /\ dumping
  /\ dumping' = FALSE
  /\ Publish(DevicesPayload)
  /\ UNCHANGED <<gateway, due, link, view, changes, faults>>

Quiet == UNCHANGED <<gateway, update, waiting, view, lost, changes>>

\* Mutant: a new connection is told nothing.
LinkReportedOnly == UNCHANGED due

(* emberAfPluginTransportSocketStateChangedCallback                        *)
LinkReported == due' = (due \/ lastStatus')

(***************************************************************************)
(* LongLinkEventHandler; a server that is gone is noticed at the socket,   *)
(* sooner or later.                                                        *)
(***************************************************************************)
LongLink(notices) ==
  /\ ~dumping
  /\ notices \/ (up /\ ~alive)
  /\ up' = (up /\ (alive \/ ~notices))
  /\ lastStatus' = up'
  /\ IF lastStatus' # lastStatus THEN LinkReported ELSE UNCHANGED due
  /\ UNCHANGED <<gateway, dumping, waiting, alive, view, lost, changes, faults>>

(* The write thread: the head of the list is written, and lost if no       *)
(* server is left to read it.                                              *)
Send ==
  /\ up
  /\ waiting # << >>
  /\ waiting' = Tail(waiting)
  /\ IF alive THEN view' = Applied(view, Head(waiting)) /\ UNCHANGED lost
              ELSE /\ lost' = lost \cup Loss(Head(waiting), waiting', "no server")
                   /\ UNCHANGED view
  /\ UNCHANGED <<gateway, update, link, changes, faults>>

Fault == faults < MaxFaults /\ faults' = faults + 1

(* A payload that is always cut short is given up.                         *)
GiveUp ==
  /\ Fault
  /\ up
  /\ waiting # << >>
  /\ waiting' = Tail(waiting)
  /\ lost' = lost \cup Loss(Head(waiting), waiting', "given up")
  /\ UNCHANGED <<gateway, update, link, view, changes>>

(* A write fails; connect() finds the same connection again (EISCONN), or  *)
(* a new one is made, which takes longer than a turn of LongLink.          *)
WriteFails ==
  Fault /\ up /\ up' = FALSE /\ Quiet /\ UNCHANGED <<alive, lastStatus>>

SameConnection ==
  /\ ~up /\ alive
  /\ up' = TRUE
  /\ Quiet /\ UNCHANGED <<alive, lastStatus, faults>>

SameDeadConnection ==
  /\ Fault
  /\ ~up /\ lastStatus /\ ~alive
  /\ up' = TRUE
  /\ Quiet /\ UNCHANGED <<alive, lastStatus>>

ServerGone == Fault /\ alive /\ alive' = FALSE /\ Quiet /\ UNCHANGED <<up, lastStatus>>

NewConnection ==
  /\ ~up /\ ~lastStatus
  /\ up' = TRUE /\ alive' = TRUE
  /\ view' = [nodes |-> {}, rules |-> 0]
  /\ UNCHANGED <<gateway, update, waiting, lastStatus, lost, changes, faults>>

Network == Send \/ GiveUp \/ WriteFails \/ SameConnection \/ SameDeadConnection
             \/ ServerGone \/ NewConnection

Next ==
  \/ EndpointDiscovered \/ DeviceRejoins \/ StateChanges \/ DeviceLeaves
  \/ TableCleared \/ RulesChange \/ EntryRemoved \/ StateRequested \/ Restart
  \/ UpdateBegins \/ UpdateEnds
  \/ \E notices \in BOOLEAN : LongLink(notices)
  \/ Network

Spec == Init /\ [][Next]_vars

(* The events of the main loop are served, the write thread goes on, and a *)
(* connection is made in the end.                                          *)
FairSpec ==
  /\ Spec
  /\ WF_vars(UpdateBegins) /\ WF_vars(UpdateEnds)
  /\ WF_vars(LongLink(TRUE))
  /\ WF_vars(Send)
  /\ SF_vars(SameConnection \/ NewConnection)
-----------------------------------------------------------------------------
TypeOK ==
  /\ table \in [Idx -> Nodes \cup {NoDevice}] /\ file \in Seq(Records)
  /\ rules \in 0 .. 1
  /\ {due, dumping, up, alive, lastStatus} \subseteq BOOLEAN
  /\ \A p \in Range(waiting) :
       p.topic \in {"relays", "devices", "devicejoined", "deviceleft",
                    "devicestatechange"}
  /\ view.nodes \subseteq Nodes /\ view.rules \in 0 .. 1
  /\ \A l \in lost : l.about \in {"relays", "devices"}

(***************************************************************************)
(* The server may not know every endpoint of a device, but it knows no     *)
(* endpoint that is not in the table, each in its state, and the first     *)
(* endpoint of every device.                                               *)
(***************************************************************************)
Agrees(v) ==
  /\ v.nodes \subseteq {table[i] : i \in Used}
  /\ \A e \in Known : FirstNode(table, e) \in v.nodes
  /\ v.rules = rules

(***************************************************************************)
(* The single changes add up: once the connection was reported, if no      *)
(* payload was lost and no update is due, then what the server has, with   *)
(* the payloads on their way, is what the gateway has (the callbacks of    *)
(* gateway-relay-socket.c).                                                *)
(***************************************************************************)
NothingIsOwed ==
  lastStatus /\ lost = {} /\ ~due /\ ~dumping =>
    Agrees(FoldLeft(Applied, view, waiting))

(***************************************************************************)
(* What was lost while there was no server, or because the list was full   *)
(* during a loss of the link that was noticed, is published again: none of *)
(* it is missing once the new connection was reported and served ("Since   *)
(* we are newly connecting, dump our complete device state and relay       *)
(* list", gateway-relay-socket.c:1396).                                    *)
(***************************************************************************)
LossIsMended ==
  up /\ alive /\ lastStatus /\ ~due /\ ~dumping =>
    \A l \in lost : l.cause \notin {"no server", "disconnected"}

(***************************************************************************)
(* When changes and failures have come to an end, the server's view ends   *)
(* up the gateway's, or a payload was lost that nothing makes good: one    *)
(* that was given up, one that a full list lost while the loss of the link *)
(* went unnoticed, a change by the command line.                           *)
(***************************************************************************)
ViewConverges == <>[](Agrees(view) \/ lost # {})
=============================================================================
