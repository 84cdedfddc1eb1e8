------------------------ MODULE MCSessionAssignment ------------------------
(* Instances of SessionAssignment for TLC. *)
EXTENDS SessionAssignment, TLC

AllOperations == OperationNames
HumanOperations == {"assign", "escalate"}
CountedOperations == {"transfer", "end"}

Symmetry == Permutations(Sessions) \cup Permutations(Agents) \cup Permutations(Requests)
=============================================================================
