------------------------- MODULE MCDeviceTableLoops -------------------------
(***************************************************************************)
(* Instances of DeviceTableLoops for TLC.                                  *)
(***************************************************************************)
EXTENDS DeviceTableLoops

CONSTANTS e1, e2, n1, n2

MCEuis == {e1, e2}
MCNodeIds == {n1, n2}
=============================================================================
