---------------------------- MODULE MessageTable ----------------------------
(***************************************************************************)
(* What everyone who reads the database sees of the work of the queue      *)
(* workers, however their transactions begin and end: rows come one at a   *)
(* time and stay, a message after its customer and an escalation after its *)
(* message.  No reader meets half of what a job has written in the wrong   *)
(* order, and nothing that was kept back comes to light in one go.         *)
(***************************************************************************)
CONSTANTS Messages, Customers, Sender

VARIABLES
    customers, \* phone numbers with a customers row
    messages,  \* messages with a row
    handovers  \* messages that were handed over to an agent

vars == <<customers, messages, handovers>>

Init == customers = {} /\ messages = {} /\ handovers = {}

AddCustomer(c) ==
    /\ customers' = customers \cup {c}
    /\ UNCHANGED <<messages, handovers>>

AddMessage(m) ==
    /\ Sender[m] \in customers
    /\ messages' = messages \cup {m}
    /\ UNCHANGED <<customers, handovers>>

AddHandover(m) ==
    /\ m \in messages
    /\ handovers' = handovers \cup {m}
    /\ UNCHANGED <<customers, messages>>

Next ==
    \/ \E c \in Customers : AddCustomer(c)
    \/ \E m \in Messages : AddMessage(m) \/ AddHandover(m)

Spec == Init /\ [][Next]_vars

-----------------------------------------------------------------------------
\* What a reader may rely on: whatever a row refers to is there.
Referential ==
    /\ \A m \in messages : Sender[m] \in customers
    /\ handovers \subseteq messages

\* A step that everyone sees adds one row to one of the tables and takes none away.
OneRowMore ==
    /\ customers \subseteq customers' /\ messages \subseteq messages'
    /\ handovers \subseteq handovers'
    /\ \A c1, c2 \in customers' \ customers : c1 = c2
    /\ \A m1, m2 \in (messages' \ messages) \cup (handovers' \ handovers) : m1 = m2
    /\ customers' = customers \/ UNCHANGED <<messages, handovers>>
    /\ messages' = messages \/ handovers' = handovers
=============================================================================
