------------------------- MODULE MCGatewayCommands -------------------------
(* Two devices, a table of two rules, the attributes of one cluster.         *)
EXTENDS GatewayCommands

CONSTANTS d1, d2

MCDevices == {d1, d2}
MCEnds == {[eui64 |-> d1, endpoint |-> 1, cluster |-> 6],
           [eui64 |-> d2, endpoint |-> 1, cluster |-> 6]}
=============================================================================
