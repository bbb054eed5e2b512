---------------------------- MODULE MCServerView ----------------------------
(* A table that holds two of the three endpoints of two devices.  At the   *)
(* start it holds a device under its second endpoint, and either the first *)
(* one behind it or a free slot.                                           *)
EXTENDS ServerView

CONSTANTS d1, d2

MCDevices == {d1, d2}
MCEndpointsOf == (d1 :> {1, 2}) @@ (d2 :> {1})
Record(e, p) == [eui64 |-> e, endpoint |-> p]
MCFiles == {<<Record(d1, 2), Record(d1, 1)>>, <<Record(d1, 2)>>}
=============================================================================
