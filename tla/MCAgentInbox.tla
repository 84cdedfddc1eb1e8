---------------------------- MODULE MCAgentInbox ----------------------------
(* Instances of AgentInbox for TLC. *)
EXTENDS AgentInbox

CONSTANTS s1, s2, m1, m2, r1

\* m1 and the reply r1 belong to one conversation, m2 to the other.
TwoConversations == [m \in Messages |-> IF m = m2 THEN s2 ELSE s1]
=============================================================================
