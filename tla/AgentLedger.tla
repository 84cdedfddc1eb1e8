---------------------------- MODULE AgentLedger ----------------------------
(***************************************************************************)
(* What the three counters of an agent promise to whoever reads them, once *)
(* an assignment is taken as one step: it adds an open chat together with  *)
(* a handled one and only while the agent has room, a completion takes one *)
(* open chat away, and a chat is resolved after it was completed.          *)
(***************************************************************************)
EXTENDS Integers

CONSTANTS
    Agents,
    Limit   \* an agent with fewer open chats than this may be given another

VARIABLES
    open,     \* open[a]: chats of a that are not completed; below zero when
              \* chats are completed that were never counted
    handled,  \* handled[a]: chats a was ever given
    resolved  \* resolved[a]: chats of a that were completed with a resolution

vars == <<open, handled, resolved>>

Init ==
    /\ open = [a \in Agents |-> 0]
    /\ handled = [a \in Agents |-> 0]
    /\ resolved = [a \in Agents |-> 0]

Assign(a) ==
    /\ open[a] < Limit
    /\ open' = [open EXCEPT ![a] = @ + 1]
    /\ handled' = [handled EXCEPT ![a] = @ + 1]
    /\ UNCHANGED resolved

Complete(a) ==
    /\ open' = [open EXCEPT ![a] = @ - 1]
    /\ UNCHANGED <<handled, resolved>>

Resolve(a) ==
    /\ resolved[a] < handled[a] - open[a]
    /\ resolved' = [resolved EXCEPT ![a] = @ + 1]
    /\ UNCHANGED <<open, handled>>

Next == \E a \in Agents : Assign(a) \/ Complete(a) \/ Resolve(a)

Spec == Init /\ [][Next]_vars
=============================================================================
