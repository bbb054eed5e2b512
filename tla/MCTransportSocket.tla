-------------------------- MODULE MCTransportSocket --------------------------
(* Instances of TransportSocket for TLC.                                   *)
EXTENDS TransportSocket, TLC

CONSTANTS b1, b2, b3

MCBuffers == {b1, b2, b3}

(* Addresses are compared for equality only.                               *)
BufferSymmetry == Permutations(MCBuffers)
=============================================================================
