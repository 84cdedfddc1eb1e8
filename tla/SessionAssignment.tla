------------------------- MODULE SessionAssignment -------------------------
(***************************************************************************)
(* Chat sessions and the load counters of the agents who serve them.       *)
(*                                                                         *)
(* A chat session row (app/Models/ChatSession.php) names the agent who     *)
(* serves it; an agent row (app/Models/Agent.php) counts the chats it has  *)
(* open.  Nothing but the code keeps the two in step: every operation is a *)
(* PHP request that reads rows into memory, decides on what it read, and   *)
(* then issues one auto-committed UPDATE after another, so the statements  *)
(* of two requests interleave.  Only escalation runs in a transaction.     *)
(*                                                                         *)
(* Each element of Requests is one PHP process (an API request or a queue  *)
(* worker that escalates); it runs one operation at a time.                *)
(***************************************************************************)
EXTENDS Integers, FiniteSets

CONSTANTS
    Sessions,      \* chat_sessions rows, as getOrCreateSession creates them
    Agents,        \* agents rows of the organization
    Requests,      \* PHP processes that run operations concurrently
    NoAgent,       \* a null agent_id
    NoSession,     \* the session of a process that runs nothing
    Provisioned,   \* agents whose availability_status is 'available': no code
                   \* writes that value, it comes from outside the application
    CapacityLimit, \* the largest max_concurrent_chats an agent may set
    Operations,    \* the operations the run enables
    MayDie,        \* whether processes may die between two statements
    MaxStarted     \* bound: how many operations a behaviour starts

ASSUME RequestsAssumption == IsFiniteSet(Requests)
ASSUME NamesAssumption ==
    /\ NoAgent \notin Agents
    /\ NoSession \notin Sessions
    /\ Provisioned \subseteq Agents
ASSUME BoundsAssumption ==
    /\ CapacityLimit \in Nat \ {0}
    /\ MayDie \in BOOLEAN
    /\ MaxStarted \in Nat

VARIABLES
    session,   \* session[s]: the columns of the row that the operations write
    load,      \* load[a]: agents.current_active_chats, a signed integer column
    capacity,  \* capacity[a]: agents.max_concurrent_chats
    handled,   \* handled[a]: agents.total_handled_chats
    resolved,  \* resolved[a]: agents.total_resolved_chats
    req,       \* req[r]: what process r is doing, with the rows it holds in memory
    started,   \* how many operations have been started (bounded by MaxStarted)
    torn       \* torn[a]: history, assignments to a that died between increments

vars == <<session, load, capacity, handled, resolved, req, started, torn>>
counters == <<load, handled, resolved>>

-----------------------------------------------------------------------------
(* Rows and requests *)

SessionRow == [agent : Agents \cup {NoAgent}, active : BOOLEAN,
               bot : BOOLEAN, resolved : BOOLEAN]

\* The row getOrCreateSession inserts for a customer's first message.
FreshSession == [agent |-> NoAgent, active |-> TRUE, bot |-> TRUE, resolved |-> FALSE]

OperationNames == {"assign", "update", "transfer", "end", "escalate"}

\* "read": the rows are in memory, nothing is written yet;  "picked": an
\* escalation has chosen its agent;  "count" and "handled": the two increments
\* of assignChat are next;  "release" and "resolve": those of completeChat.
PCs == {"idle", "read", "picked", "count", "handled", "release", "resolve"}

Request == [pc : PCs, op : OperationNames, sess : Sessions \cup {NoSession},
            agent : Agents \cup {NoAgent}, snap : SessionRow, want : SessionRow]

NoRequest == [pc |-> "idle", op |-> "update", sess |-> NoSession, agent |-> NoAgent,
              snap |-> FreshSession, want |-> FreshSession]

TypeOK ==
    /\ session \in [Sessions -> SessionRow]
    /\ load \in [Agents -> Int]
    /\ capacity \in [Agents -> 1..CapacityLimit]
    /\ handled \in [Agents -> Nat]
    /\ resolved \in [Agents -> Nat]
    /\ req \in [Requests -> Request]
    /\ started \in Nat
    /\ torn \in [Agents -> Nat]

Init ==
    /\ session = [s \in Sessions |-> FreshSession]
    /\ load = [a \in Agents |-> 0]
    /\ capacity \in [Agents -> 1..CapacityLimit]
    /\ handled = [a \in Agents |-> 0]
    /\ resolved = [a \in Agents |-> 0]
    /\ req = [r \in Requests |-> NoRequest]
    /\ started = 0
    /\ torn = [a \in Agents |-> 0]

-----------------------------------------------------------------------------
(* What an Eloquent model does *)

\* update() writes the columns that differ from the row as it was read, and no
\* other: a column that another request has changed since stays changed.
SaveDirty(snap, want, row) ==
    [agent    |-> IF want.agent    # snap.agent    THEN want.agent    ELSE row.agent,
     active   |-> IF want.active   # snap.active   THEN want.active   ELSE row.active,
     bot      |-> IF want.bot      # snap.bot      THEN want.bot      ELSE row.bot,
     resolved |-> IF want.resolved # snap.resolved THEN want.resolved ELSE row.resolved]

\* Mutant: the comparison is off by one.
CanHandleMoreChatsOffByOne(a) == load[a] <= capacity[a]

CanHandleMoreChats(a) == load[a] < capacity[a]

\* findAvailableAgent: active agents marked 'available' with room, least load first.
Candidates ==
    {a \in Provisioned : CanHandleMoreChats(a)}
LeastLoaded(S) == {a \in S : \A b \in S : load[a] <= load[b]}

Finish(r) == req' = [req EXCEPT ![r] = NoRequest]
Goto(r, pc) == req' = [req EXCEPT ![r].pc = pc]

-----------------------------------------------------------------------------
(* Operations start: rows are read into memory and checked *)

Begin(r, op, s, a, want) ==
    /\ op \in Operations
    /\ req[r].pc = "idle"
    /\ started < MaxStarted
    /\ started' = started + 1
    /\ req' = [req EXCEPT ![r] =
                 [pc |-> "read", op |-> op, sess |-> s, agent |-> a,
                  snap |-> session[s], want |-> want]]
    /\ UNCHANGED <<session, capacity, counters, torn>>

\* assignSession and assignToMe set agent_id (assigned_at and status are not
\* fillable): neither looks at the agent's load.
BeginAssign(r, s, a) ==
    Begin(r, "assign", s, a, [session[s] EXCEPT !.agent = a])

\* updateSession writes whatever subset of these columns the client sends; a
\* column that is not sent keeps the value that was read.
BeginUpdate(r, s) ==
    \E a \in Agents \cup {NoAgent}, active, bot \in BOOLEAN :
        Begin(r, "update", s, a,
              [session[s] EXCEPT !.agent = a, !.active = active, !.bot = bot])

\* transferSession: an agent at capacity is an exception and nothing happens.
BeginTransfer(r, s, a) ==
    /\ CanHandleMoreChats(a)
    /\ Begin(r, "transfer", s, a, [session[s] EXCEPT !.agent = a, !.bot = FALSE])

\* endSession, with or without a resolution type; is_active is not looked at.
BeginEnd(r, s) ==
    \E isResolved \in BOOLEAN :
        Begin(r, "end", s, session[s].agent,
              [session[s] EXCEPT !.active = FALSE, !.resolved = @ \/ isResolved])

\* escalateSession and checkAndHandleEscalation refuse a session that the row in
\* memory shows in human hands.
BeginEscalate(r, s) ==
    /\ session[s].bot
    /\ session[s].agent = NoAgent
    /\ Begin(r, "escalate", s, NoAgent, session[s])

-----------------------------------------------------------------------------
(* The statements of assign, update, transfer and end *)

\* The UPDATE of chat_sessions.
SaveSession(r) ==
    /\ req[r].pc = "read"
    /\ req[r].op # "escalate"
    /\ LET q == req[r] IN
       /\ session' = [session EXCEPT ![q.sess] = SaveDirty(q.snap, q.want, @)]
       /\ \/ q.op = "transfer" /\ Goto(r, "count")
          \/ q.op = "end" /\ q.agent # NoAgent /\ Goto(r, "release")
          \/ q.op = "end" /\ q.agent = NoAgent /\ Finish(r)
          \/ q.op \in {"assign", "update"} /\ Finish(r)
    /\ UNCHANGED <<capacity, counters, started, torn>>

\* assignChat's first increment; the room it checks again is that of the agent
\* model in memory, which transferSession has already checked.
IncrementActive(r) ==
    /\ req[r].pc = "count"
    /\ load' = [load EXCEPT ![req[r].agent] = @ + 1]
    /\ Goto(r, "handled")
    /\ UNCHANGED <<session, capacity, handled, resolved, started, torn>>

\* Mutant: the statement is repeated when its answer is late.
IncrementHandledRetried(r) ==
    /\ req[r].pc = "handled"
    /\ handled' = [handled EXCEPT ![req[r].agent] = @ + 1]
    /\ Finish(r) \/ UNCHANGED req
    /\ UNCHANGED <<session, load, capacity, resolved, started, torn>>

IncrementHandled(r) ==
    /\ req[r].pc = "handled"
    /\ handled' = [handled EXCEPT ![req[r].agent] = @ + 1]
    /\ Finish(r)
    /\ UNCHANGED <<session, load, capacity, resolved, started, torn>>

\* completeChat: the agent is the one the row in memory names.
DecrementActive(r) ==
    /\ req[r].pc = "release"
    /\ load' = [load EXCEPT ![req[r].agent] = @ - 1]
    /\ IF req[r].want.resolved THEN Goto(r, "resolve") ELSE Finish(r)
    /\ UNCHANGED <<session, capacity, handled, resolved, started, torn>>

IncrementResolved(r) ==
    /\ req[r].pc = "resolve"
    /\ resolved' = [resolved EXCEPT ![req[r].agent] = @ + 1]
    /\ Finish(r)
    /\ UNCHANGED <<session, load, capacity, handled, started, torn>>

-----------------------------------------------------------------------------
(* escalateToAgent: one transaction *)

\* The escalation in memory once it has its agent.
Picked(q, a) ==
    [q EXCEPT !.pc = "picked", !.agent = a,
              !.want = [q.want EXCEPT !.agent = a, !.bot = FALSE]]

PickAgent(r) ==
    /\ req[r].pc = "read"
    /\ req[r].op = "escalate"
    /\ \E a \in LeastLoaded(Candidates) :
          req' = [req EXCEPT ![r] = Picked(req[r], a)]
    /\ UNCHANGED <<session, capacity, counters, started, torn>>

\* "No available agents": nothing is written.  (The transaction is left open:
\* module WorkerTransaction is about that.)
NoAgentFound(r) ==
    /\ req[r].pc = "read"
    /\ req[r].op = "escalate"
    /\ Candidates = {}
    /\ Finish(r)
    /\ UNCHANGED <<session, capacity, counters, started, torn>>

\* Mutant: the handover counts the chat as active and forgets that it is handled.
EscalateCommitUncounted(r) ==
    /\ req[r].pc = "picked"
    /\ LET q == req[r] IN
       /\ session' = [session EXCEPT ![q.sess] = SaveDirty(q.snap, q.want, @)]
       /\ load' = [load EXCEPT ![q.agent] = @ + 1]
    /\ Finish(r)
    /\ UNCHANGED <<capacity, handled, resolved, started, torn>>

\* handoverToAgent, assignChat and the escalation message commit together.
EscalateCommit(r) ==
    /\ req[r].pc = "picked"
    /\ LET q == req[r] IN
       /\ session' = [session EXCEPT ![q.sess] = SaveDirty(q.snap, q.want, @)]
       /\ load' = [load EXCEPT ![q.agent] = @ + 1]
       /\ handled' = [handled EXCEPT ![q.agent] = @ + 1]
    /\ Finish(r)
    /\ UNCHANGED <<capacity, resolved, started, torn>>

-----------------------------------------------------------------------------
(* The environment *)

\* Mutant: the request's min:1 rule is dropped.
SetCapacityUnchecked(a) ==
    /\ \E n \in 0..CapacityLimit : capacity' = [capacity EXCEPT ![a] = n]
    /\ UNCHANGED <<session, counters, req, started, torn>>

\* updateMyAvailability: an agent sets max_concurrent_chats, 1 to the limit.
SetCapacity(a) ==
    /\ \E n \in 1..CapacityLimit : capacity' = [capacity EXCEPT ![a] = n]
    /\ UNCHANGED <<session, counters, req, started, torn>>

\* A process dies or throws between two statements.  What it wrote stays; a
\* transaction is rolled back.
Die(r) ==
    /\ MayDie
    /\ req[r].pc # "idle"
    /\ torn' = IF req[r].pc = "handled"
               THEN [torn EXCEPT ![req[r].agent] = @ + 1]
               ELSE torn
    /\ Finish(r)
    /\ UNCHANGED <<session, capacity, counters, started>>

Start(r) ==
    \E s \in Sessions :
        \/ BeginUpdate(r, s)
        \/ BeginEnd(r, s)
        \/ BeginEscalate(r, s)
        \/ \E a \in Agents : BeginAssign(r, s, a) \/ BeginTransfer(r, s, a)

Next ==
    \/ \E r \in Requests :
          \/ Start(r)
          \/ SaveSession(r)
          \/ IncrementActive(r)
          \/ IncrementHandled(r)
          \/ DecrementActive(r)
          \/ IncrementResolved(r)
          \/ PickAgent(r)
          \/ NoAgentFound(r)
          \/ EscalateCommit(r)
          \/ Die(r)
    \/ \E a \in Agents : SetCapacity(a)

Spec == Init /\ [][Next]_vars

-----------------------------------------------------------------------------
(* Properties *)

\* Process q has seen room at agent a and has not counted its chat yet.
SawRoom(q, a) ==
    /\ q.agent = a
    /\ q.pc \in {"picked", "count"} \/ (q.pc = "read" /\ q.op = "transfer")
Cleared(a) == {r \in Requests : SawRoom(req[r], a)}

\* Process q is between the two increments of assignChat for agent a.
BetweenIncrements(q, a) == q.pc = "handled" /\ q.agent = a
HalfCounted(a) == {r \in Requests : BetweenIncrements(req[r], a)}

\* Process q is between the decrement and the increment of completeChat.
BetweenReleases(q, a) == q.pc = "resolve" /\ q.agent = a
HalfReleased(a) == {r \in Requests : BetweenReleases(req[r], a)}

\* The capacity check of canHandleMoreChats is not atomic with the increment, so
\* max_concurrent_chats can be exceeded; but only by the processes that were
\* between check and increment at the same time: an agent never shows more
\* chats than its largest capacity plus the other concurrent processes.
OvershootBounded ==
    \A a \in Agents : load[a] <= CapacityLimit + Cardinality(Requests) - 1

\* No increment or decrement of the three counters is ever lost or doubled,
\* however requests interleave: current_active_chats plus total_resolved_chats
\* exceeds total_handled_chats by at most the assignments that are between
\* their two increments, or died there.
CountersBalance ==
    \A a \in Agents :
        load[a] + resolved[a] + Cardinality(HalfReleased(a))
            <= handled[a] + Cardinality(HalfCounted(a)) + torn[a]

\* Taken together, the counters are those of AgentLedger: whatever a process does is
\* one assignment, completion or resolution, or nothing.  An assignment happens at
\* its first increment, and its second one is as good as done from then on, also
\* when the process dies before it.
Ledger == INSTANCE AgentLedger WITH
    Limit <- CapacityLimit + Cardinality(Requests) - 1,
    open <- load,
    handled <- [a \in Agents |-> handled[a] + Cardinality(HalfCounted(a)) + torn[a]]
ImplementsLedger == Ledger!Spec

\* "Skip escalation if session is already handled by human agent": an escalation
\* never takes a session from the agent who has it.
EscalationKeepsHuman ==
    [][\A s \in Sessions, r \in Requests :
          EscalateCommit(r) /\ req[r].sess = s => session[s].agent = NoAgent]_vars
=============================================================================
