---------------------------- MODULE MessageInbox ----------------------------
(***************************************************************************)
(* What the ingest of WhatsApp messages promises to the inbox that shows   *)
(* them, whatever is delivered twice, retried or interrupted on the way:   *)
(* a message is recorded once, in a chat session of a customer that        *)
(* exists, and the bot answers only what is recorded.  It does not promise *)
(* that a delivered message is recorded, or answered once.                 *)
(***************************************************************************)
EXTENDS Naturals

CONSTANTS Messages, Customers, Sender

VARIABLES
    customers, \* phone numbers with a customer
    sessions,  \* sessions[c]: active chat sessions of customer c
    rows,      \* rows[m]: messages rows that hold m
    replies    \* replies[m]: answers of the bot to m

vars == <<customers, sessions, rows, replies>>

Init ==
    /\ customers = {}
    /\ sessions = [c \in Customers |-> 0]
    /\ rows = [m \in Messages |-> 0]
    /\ replies = [m \in Messages |-> 0]

\* A first message makes its sender a customer.
Meet(c) ==
    /\ c \notin customers
    /\ customers' = customers \cup {c}
    /\ UNCHANGED <<sessions, rows, replies>>

\* A customer gets a session; nothing here says that there is no other.
Open(c) ==
    /\ c \in customers
    /\ sessions' = [sessions EXCEPT ![c] = @ + 1]
    /\ UNCHANGED <<customers, rows, replies>>

Record(m) ==
    /\ sessions[Sender[m]] > 0
    /\ rows[m] = 0
    /\ rows' = [rows EXCEPT ![m] = 1]
    /\ UNCHANGED <<customers, sessions, replies>>

Answer(m) ==
    /\ rows[m] = 1
    /\ replies' = [replies EXCEPT ![m] = @ + 1]
    /\ UNCHANGED <<customers, sessions, rows>>

Next ==
    \/ \E c \in Customers : Meet(c) \/ Open(c)
    \/ \E m \in Messages : Record(m) \/ Answer(m)

Spec == Init /\ [][Next]_vars

-----------------------------------------------------------------------------
\* What a reader of the tables may rely on: the bot has answered only what is recorded,
\* a recorded message has a session to be shown in, and a session has a customer.
Coherent ==
    /\ \A m \in Messages : replies[m] > 0 => rows[m] = 1
    /\ \A m \in Messages : rows[m] > 0 => sessions[Sender[m]] > 0
    /\ \A c \in Customers : sessions[c] > 0 => c \in customers
=============================================================================
