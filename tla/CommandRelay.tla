---------------------------- MODULE CommandRelay ----------------------------
(***************************************************************************)
(* The command relay (command-relay-lite.c): rules that forward the        *)
(* commands of one device's endpoint to another's, kept in a table and in  *)
(* command-relay.txt.  The relay asks the device table for the sender of a *)
(* command and for the address of the device to forward it to; of the      *)
(* device table only the set of devices it holds is kept here.             *)
(*                                                                         *)
(* Everything runs on the main loop, one handler at a time.                *)
(***************************************************************************)
EXTENDS Naturals, Sequences, FiniteSetsExt

CONSTANTS
  Devices,           \* the EUI64s of the devices
  Ends,              \* device, endpoint and cluster: the two sides of a rule
  NoRule,            \* an entry whose inDeviceEndpoint has the null EUI64
  NoDevice,          \* an EUI64 that is no device's
  RelayTableSize     \* EMBER_AF_PLUGIN_COMMAND_RELAY_LITE_RELAY_TABLE_SIZE

ASSUME EndsAssumption == \A e \in Ends : e.eui64 \in Devices
ASSUME RelayTableSizeAssumption == RelayTableSize \in Nat \ {0}

VARIABLES
  relayTable,        \* the entries
  relayFile,         \* the lines of command-relay.txt
  known,             \* the devices in the device table
  running,           \* FALSE once an assertion has failed
  forwarded          \* what the last command received was forwarded to

vars == <<relayTable, relayFile, known, running, forwarded>>

Idx   == 1 .. RelayTableSize
Rules == [in : Ends, out : Ends]

ASSUME NoRuleAssumption == NoRule \notin Rules

Used(t) == {i \in Idx : t[i] # NoRule}
Matching(t, end) == {i \in Used(t) : t[i].in = end}

EmptyTable == [i \in Idx |-> NoRule]

(* removeRelayEntry, for each of the entries `gone`.                       *)
Without(t, gone) == [i \in Idx |-> IF i \in gone THEN NoRule ELSE t[i]]

(* The line of the file that entry i goes to: the number of entries in use  *)
(* up to it.                                                               *)
LineOf(t, i) == Cardinality({j \in 1 .. i : t[j] # NoRule})

\* Mutant: a save writes the free entries, too.
LinesOfAll(t) == t

(* The lines of a save, one for each rule, in the order of the table.      *)
Lines(t) ==
  [k \in 1 .. Cardinality(Used(t)) |-> t[CHOOSE i \in Used(t) : LineOf(t, i) = k]]

\* Mutant: the last line of the file is not read.
LoadedShort(file) == [i \in Idx |-> IF i < Len(file) THEN file[i] ELSE NoRule]

(* A load fills the entries from the first one on; the rest are free.      *)
Loaded(file) == [i \in Idx |-> IF i <= Len(file) THEN file[i] ELSE NoRule]

(* The table becomes t and is saved.                                       *)
Saved(t) == relayTable' = t /\ relayFile' = Lines(t)

Init ==
  /\ relayTable = EmptyTable
  /\ relayFile = << >>
  /\ known \in SUBSET Devices
  /\ running = TRUE
  /\ forwarded = {}
-----------------------------------------------------------------------------
\* Mutant: the rule is not saved.
AddUnsaved(rule) ==
  /\ Used(relayTable) # Idx
  /\ relayTable' = [relayTable EXCEPT ![Min(Idx \ Used(relayTable))] = rule]
  /\ UNCHANGED relayFile

(* emberAfPluginCommandRelayLiteAdd: a full table takes no rule.           *)
Add(rule) ==
  /\ Used(relayTable) # Idx
  /\ Saved([relayTable EXCEPT ![Min(Idx \ Used(relayTable))] = rule])

(* emberAfPluginCommandRelayLiteRemove: every copy of the rule goes.       *)
Remove(rule) ==
  Saved(Without(relayTable, {i \in Idx : relayTable[i] = rule}))

Clear == Saved(EmptyTable)

Load ==
  /\ relayTable' = Loaded(relayFile)
  /\ UNCHANGED relayFile

SaveCommand == Saved(relayTable)

Operator ==
  /\ running
  /\ \/ \E rule \in Rules : Add(rule) \/ Remove(rule)
     \/ Clear \/ Load \/ SaveCommand
  /\ forwarded' = {}
  /\ UNCHANGED <<known, running>>
-----------------------------------------------------------------------------
(***************************************************************************)
(* emAfPluginCommandRelayLitePreCommandReceivedCallback: a command of      *)
(* `sender`.  If the device table does not hold the sender, the EUI64 the  *)
(* rules are compared with is whatever the stack holds, for instance the   *)
(* sender of the command before.                                           *)
(***************************************************************************)
SeenAs(sender) == IF sender \in known THEN {sender} ELSE Devices \cup {NoDevice}

(***************************************************************************)
(* The command is forwarded rule by rule.  A destination that is not in    *)
(* the device table has no index there: the assertion of                   *)
(* emberAfDeviceTableGetNodeIdFromIndex fails and the gateway stops.       *)
(***************************************************************************)
Unreachable(matching) ==
  {i \in matching : relayTable[i].out.eui64 \notin known}

Served(matching) ==
  IF Unreachable(matching) = {} THEN matching
  ELSE {i \in matching : i < Min(Unreachable(matching))}

CommandReceived ==
  /\ running
  /\ \E end \in Ends : \E seen \in SeenAs(end.eui64) :
       LET matching == Matching(relayTable, [end EXCEPT !.eui64 = seen])
       IN  /\ forwarded' =
                {[sender |-> end.eui64, rule |-> relayTable[i]]
                   : i \in Served(matching)}
           /\ running' = (Unreachable(matching) = {})
  /\ UNCHANGED <<relayTable, relayFile, known>>

(* The device table: a discovered device, a departure, a network left.     *)
DeviceJoins ==
  /\ running
  /\ \E d \in Devices \ known : known' = known \cup {d}
  /\ forwarded' = {}
  /\ UNCHANGED <<relayTable, relayFile, running>>

(* A departure, or a removal at the command line.  The rules stay: the     *)
(* relay asks to be called for pluginDeviceTableDeviceLeft                 *)
(* (plugin.properties:28), and what the device table provides is called    *)
(* pluginDeviceTableLiteDeviceLeft (its plugin.properties:31), so that     *)
(* nothing calls emAfPluginCommandRelayLiteRemoveDeviceByEui64.            *)
DeviceLeaves ==
  /\ running
  /\ \E d \in known : known' = known \ {d}
  /\ forwarded' = {}
  /\ UNCHANGED <<relayTable, relayFile, running>>

TableCleared ==
  /\ running
  /\ known' = {}
  /\ forwarded' = {}
  /\ UNCHANGED <<relayTable, relayFile, running>>

(* The process is started again, after a failed assertion or at any time.  *)
Restart ==
  /\ running' = TRUE
  /\ Load
  /\ forwarded' = {}
  /\ UNCHANGED known

Next == \/ Operator \/ CommandReceived
        \/ DeviceJoins \/ DeviceLeaves \/ TableCleared
        \/ Restart

Spec == Init /\ [][Next]_vars
-----------------------------------------------------------------------------
TypeOK ==
  /\ relayTable \in [Idx -> Rules \cup {NoRule}]
  /\ relayFile \in Seq(Rules) /\ Len(relayFile) <= RelayTableSize
  /\ known \subseteq Devices
  /\ running \in BOOLEAN
  /\ \A f \in forwarded : f.sender \in Devices /\ f.rule \in Rules

(***************************************************************************)
(* command-relay.txt holds the rules of the table, in their order: no      *)
(* operation leaves one behind or brings one back (the calls of            *)
(* emberAfPluginCommandRelayLiteSave).                                     *)
(***************************************************************************)
FileHoldsTheRules == relayFile = Lines(relayTable)

(***************************************************************************)
(* A restart changes neither the rules nor their order, though it closes   *)
(* the gaps in the table (emberAfPluginCommandRelayLiteLoad).              *)
(***************************************************************************)
RestartKeepsRules == [][Restart => Lines(relayTable') = Lines(relayTable)]_vars

(***************************************************************************)
(* "assert(index < EMBER_AF_PLUGIN_DEVICE_TABLE_DEVICE_TABLE_SIZE)"        *)
(* (device-table-lite.c:58): no command makes the assertion fail.          *)
(***************************************************************************)
AssertionHolds == running
=============================================================================
