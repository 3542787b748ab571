--------------------------- MODULE MCPacketOutput ---------------------------
(* The answers of the routing functions for PacketOutput: the third has none. *)
EXTENDS PacketOutput

CONSTANTS g1, g2, g3, n1, n2

Answers == (g1 :> n1) @@ (g2 :> n2) @@ (g3 :> NoNif)
=============================================================================
