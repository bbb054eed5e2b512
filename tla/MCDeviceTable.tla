--------------------------- MODULE MCDeviceTable ---------------------------
(***************************************************************************)
(* Instances of DeviceTable for TLC: two devices, a table with room for    *)
(* two or three endpoints and times of a few ticks.                        *)
(***************************************************************************)
EXTENDS DeviceTable, TLC

CONSTANTS e1, e2, n1, n2, n3

MCEuis == {e1, e2}
MCNodeIds == {n1, n2, n3}
\* e1 may change its address; no address is used by two devices.
MCAddr == (e1 :> {n1, n2}) @@ (e2 :> {n3})

\* e1 may change its address to one that e2 has, too, and the other way round.
MCSharedNodeIds == {n1, n2}
MCSharedAddr == (e1 :> {n1, n2}) @@ (e2 :> {n2})

\* The network, and the load that leaves stale slots behind: no other operator
\* command and no traffic of known devices. Leaves room for shared addresses
\* and longer waiting times.
NetworkNext == Discovery \/ NetworkDown \/ Restart \/ LoadCommand
NetworkSpec == Init /\ [][NetworkNext]_vars
FairNetworkSpec == NetworkSpec /\ WF_vars(NewDeviceEvent)

\* The network when every descriptor response names an endpoint.
RegularNext ==
  NetworkNext /\ \A n \in NodeIds : ~ SimpleDescriptorResponse(n, UnknownEndpoint)
RegularSpec == Init /\ [][RegularNext]_vars
=============================================================================
