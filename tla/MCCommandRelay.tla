--------------------------- MODULE MCCommandRelay ---------------------------
(* Two devices, one of them with two clusters, and a table of three rules. *)
EXTENDS CommandRelay, TLC

CONSTANTS d1, d2

MCDevices == {d1, d2}
MCEnds == {[eui64 |-> d1, endpoint |-> 1, cluster |-> 6],
           [eui64 |-> d2, endpoint |-> 1, cluster |-> 6],
           [eui64 |-> d2, endpoint |-> 1, cluster |-> 8]}
=============================================================================
