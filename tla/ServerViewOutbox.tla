--------------------------- MODULE ServerViewOutbox ---------------------------
(***************************************************************************)
(* The list between the gateway and the server. ServerView with two        *)
(* history variables: the number of payloads published since the process   *)
(* was started, and the number of the last one that was written to the     *)
(* socket. With them the list of ServerView is an Outbox, as the list of   *)
(* TransportSocket is.                                                     *)
(***************************************************************************)
EXTENDS ServerView

VARIABLES accepted, lastSent

counts == <<accepted, lastSent>>

\* The steps that publish a payload.
Publishes ==
  \/ EndpointDiscovered \/ DeviceRejoins \/ StateChanges \/ DeviceLeaves
  \/ RulesChange \/ UpdateBegins \/ UpdateEnds

CountInit == accepted = 0 /\ lastSent = 0

\* The counts only follow, and hinder no step.
Count ==
  /\ accepted' = IF Restart THEN Len(waiting')
                 ELSE IF Publishes THEN accepted + 1 ELSE accepted
  /\ lastSent' = IF Restart THEN 0
                 ELSE IF Send THEN accepted - Len(waiting) + 1 ELSE lastSent

CountedSpec == Spec /\ CountInit /\ [][Count]_<<vars, counts>>

-----------------------------------------------------------------------------

\* The payloads of the list by their numbers: the most recent ones.
Numbers == [i \in 1 .. Len(waiting) |-> accepted - Len(waiting) + i]

Box == INSTANCE Outbox WITH Limit <- MSG_CNT_DISCONN_MAX, waiting <- Numbers

\* A list after the start of the process, with the rules in it or not.
NewList ==
  /\ accepted \in {0, 1}
  /\ Numbers = [i \in 1 .. accepted |-> i]
  /\ lastSent = 0
  /\ ~up

\* Between one start of the process and the next, the payloads go through the
\* list as Outbox allows: in the order they were published in, each at most
\* once, lost from the front only, while the link is down and the list full, or
\* given up while it is up (emberAfPluginTransportSocketPublish, the write
\* thread and the partial write event). So ServerView loses and delivers no
\* payload that the transport would not.
ListIsAnOutbox ==
  Box!Init /\ [][Box!Next \/ (Restart /\ NewList')]_(Box!vars)
=============================================================================
