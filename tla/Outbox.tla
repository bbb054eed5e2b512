------------------------------- MODULE Outbox -------------------------------
(***************************************************************************)
(* What the socket transport promises the layer above it: the payloads it  *)
(* accepts are sent in the order of their acceptance and at most once      *)
(* each; a payload is dropped only from the front of the queue, and only   *)
(* to make room while the link is down or because it was given up while    *)
(* the link was up.  Payloads are numbered as they are accepted.           *)
(***************************************************************************)
EXTENDS Naturals, Sequences

CONSTANT Limit     \* how many payloads may wait while the link is down, at least 1

VARIABLES
  waiting,         \* the payloads not yet sent, the oldest first
  accepted,        \* the number of payloads accepted so far
  lastSent,        \* the payload sent last, 0 if there is none
  up               \* is the link up?

vars == <<waiting, accepted, lastSent, up>>

Init == /\ waiting = << >>
        /\ accepted = 0
        /\ lastSent = 0
        /\ up = FALSE

(* While the link is down a queue at its limit loses its oldest payload.   *)
Accept ==
  /\ accepted' = accepted + 1
  /\ waiting' = Append(IF ~up /\ Len(waiting) >= Limit THEN Tail(waiting)
                                                      ELSE waiting,
                       accepted + 1)
  /\ UNCHANGED <<lastSent, up>>

Send ==
  /\ up
  /\ waiting # << >>
  /\ lastSent' = Head(waiting)
  /\ waiting' = Tail(waiting)
  /\ UNCHANGED <<accepted, up>>

GiveUp ==
  /\ up
  /\ waiting # << >>
  /\ waiting' = Tail(waiting)
  /\ UNCHANGED <<accepted, lastSent, up>>

LinkChange == up' = ~up /\ UNCHANGED <<waiting, accepted, lastSent>>

Next == Accept \/ Send \/ GiveUp \/ LinkChange

Spec == Init /\ [][Next]_vars

(***************************************************************************)
(* The payloads that wait are the most recent ones, without a gap, and     *)
(* none of them was sent.                                                  *)
(***************************************************************************)
InOrder ==
  /\ \A i \in 1 .. Len(waiting) : waiting[i] + Len(waiting) = accepted + i
  /\ lastSent + Len(waiting) <= accepted
=============================================================================
