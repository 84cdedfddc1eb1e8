------------------------- MODULE MCOutgoingMessages -------------------------
(* Instances of OutgoingMessages for TLC. *)
EXTENDS OutgoingMessages

CONSTANTS b1, b2, a1, h1, h2
=============================================================================
