-------------------------- MODULE MCMessageIngest --------------------------
(* Instances of MessageIngest for TLC. *)
EXTENDS MessageIngest, TLC

CONSTANT c1

\* Both messages come from one customer, who has not written before.
OneSender == [m \in Messages |-> c1]

Symmetry == Permutations(Workers)
=============================================================================
