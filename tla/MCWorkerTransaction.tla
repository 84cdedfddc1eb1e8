------------------------ MODULE MCWorkerTransaction ------------------------
(* Instances of WorkerTransaction for TLC. *)
EXTENDS WorkerTransaction

CONSTANTS m1, m2, m3, c1, c2

\* Two of the three messages come from one customer.
TwoSenders == [m \in Messages |-> IF m = m3 THEN c2 ELSE c1]
=============================================================================
