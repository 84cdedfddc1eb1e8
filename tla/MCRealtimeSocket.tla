-------------------------- MODULE MCRealtimeSocket --------------------------
(* Instances of RealtimeSocket for TLC. *)
EXTENDS RealtimeSocket

CONSTANTS s1, s2
=============================================================================
