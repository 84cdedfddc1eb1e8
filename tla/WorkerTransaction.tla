------------------------- MODULE WorkerTransaction -------------------------
(***************************************************************************)
(* The database connection of a queue worker across the jobs it runs.      *)
(*                                                                         *)
(* A worker is one PHP process with one connection; its jobs come one      *)
(* after the other and write in autocommit.  The exception is              *)
(* EscalationService::escalateToAgent, which begins a transaction and      *)
(* returns, when there is no available agent, without ending it.  From     *)
(* then on everything the worker writes, in this job and in all that       *)
(* follow, is in that transaction: only the worker sees it, the rows it    *)
(* touches stay locked, later commits only release savepoints, an SQL      *)
(* error makes every further statement fail, and when the process ends     *)
(* the database rolls all of it back.                                      *)
(***************************************************************************)
EXTENDS Integers, FiniteSets

CONSTANTS
    Messages,  \* the messages of the queue, one job each
    Customers, \* phone numbers
    Sender,    \* Sender[m]: the phone number message m comes from
    Workers,   \* queue worker processes
    NoMessage, \* the message of a worker that runs no job
    Tries,     \* $tries of the job
    MaxErrors, \* bound: statements that fail by themselves
    MaxExits   \* bound: how often worker processes end between jobs

ASSUME SenderAssumption == Sender \in [Messages -> Customers]
ASSUME WorkerBounds ==
    /\ NoMessage \notin Messages
    /\ Tries \in Nat \ {0}
    /\ MaxErrors \in Nat
    /\ MaxExits \in Nat

VARIABLES
    waiting,   \* messages whose job waits for a worker
    attempts,  \* attempts[m]: how often the job of m has been delivered
    job,       \* job[w]: the message worker w works on
    pc,        \* pc[w]: where it is
    depth,     \* depth[w]: transaction level of w's connection
    buffer,    \* buffer[w]: rows w has written and not committed
    locks,     \* locks[w]: customers whose row w's open transaction has written
    aborted,   \* workers whose open transaction has failed
    committed, \* rows everyone sees
    marked,    \* messages marked as processed in Redis and acknowledged
    failed,    \* messages whose job is in failed_jobs
    leaks,     \* history: escalations that returned with their transaction open
    errors,    \* statements that failed by themselves (bounded by MaxErrors)
    exits      \* worker processes ended between jobs (bounded by MaxExits)

jobVars == <<waiting, attempts, job, pc>>
connectionVars == <<depth, buffer, locks, aborted>>
countVars == <<leaks, errors, exits>>
vars == <<jobVars, connectionVars, committed, marked, failed, countVars>>

-----------------------------------------------------------------------------
CustomerRow(c) == <<"customer", c>>
MessageRow(m) == <<"message", m>>
HandoverRow(m) == <<"handover", m>>

Written == {CustomerRow(c) : c \in Customers}
             \cup {MessageRow(m) : m \in Messages} \cup {HandoverRow(m) : m \in Messages}

PCs == {"idle", "customer", "message", "escalation", "agent", "commit", "finish"}

TypeOK ==
    /\ waiting \subseteq Messages
    /\ attempts \in [Messages -> 0..Tries]
    /\ job \in [Workers -> Messages \cup {NoMessage}]
    /\ pc \in [Workers -> PCs]
    /\ depth \in [Workers -> Nat]
    /\ buffer \in [Workers -> SUBSET Written]
    /\ locks \in [Workers -> SUBSET Customers]
    /\ aborted \subseteq Workers
    /\ committed \subseteq Written
    /\ marked \subseteq Messages
    /\ failed \subseteq Messages
    /\ leaks \in Nat
    /\ errors \in 0..MaxErrors
    /\ exits \in 0..MaxExits

Init ==
    /\ waiting = Messages
    /\ attempts = [m \in Messages |-> 0]
    /\ job = [w \in Workers |-> NoMessage]
    /\ pc = [w \in Workers |-> "idle"]
    /\ depth = [w \in Workers |-> 0]
    /\ buffer = [w \in Workers |-> {}]
    /\ locks = [w \in Workers |-> {}]
    /\ aborted = {}
    /\ committed = {}
    /\ marked = {}
    /\ failed = {}
    /\ leaks = 0
    /\ errors = 0
    /\ exits = 0

-----------------------------------------------------------------------------
(* The connection *)

Visible(w) == committed \cup buffer[w]
Others(w) == Workers \ {w}

\* A statement of w that writes row: at once, or when the transaction is open
\* into the transaction.
Write(w, row) ==
    IF depth[w] = 0
    THEN committed' = committed \cup {row} /\ UNCHANGED buffer
    ELSE buffer' = [buffer EXCEPT ![w] = @ \cup {row}] /\ UNCHANGED committed

\* Mutant: no unique index and no row lock makes the statement wait.
CustomerFreeAlways(w, c) == TRUE

\* A statement on the row of customer c waits while another connection has it in
\* its open transaction.
CustomerFree(w, c) == \A v \in Others(w) : c \notin locks[v]

Goto(w, l) == pc' = [pc EXCEPT ![w] = l]

\* The connection is closed: the database rolls back what was not committed.
Disconnect(w) ==
    /\ depth' = [depth EXCEPT ![w] = 0]
    /\ buffer' = [buffer EXCEPT ![w] = {}]
    /\ locks' = [locks EXCEPT ![w] = {}]
    /\ aborted' = aborted \ {w}

-----------------------------------------------------------------------------
(* The jobs of a worker *)

Take(w) ==
    /\ pc[w] = "idle"
    /\ \E m \in waiting :
          /\ waiting' = waiting \ {m}
          /\ attempts' = [attempts EXCEPT ![m] = @ + 1]
          /\ job' = [job EXCEPT ![w] = m]
    /\ Goto(w, "customer")
    /\ UNCHANGED <<connectionVars, committed, marked, failed, countVars>>

\* The job is over for this worker: released for another try, or failed.
GiveBack(w) ==
    /\ job' = [job EXCEPT ![w] = NoMessage]
    /\ Goto(w, "idle")
    /\ \/ /\ attempts[job[w]] < Tries
          /\ waiting' = waiting \cup {job[w]}
          /\ UNCHANGED failed
       \/ /\ attempts[job[w]] = Tries
          /\ failed' = failed \cup {job[w]}
          /\ UNCHANGED waiting
    /\ UNCHANGED <<attempts, marked>>

Running(w, l) == pc[w] = l /\ w \notin aborted

\* getOrCreateCustomer: inserts the row, or updates the last contact in it.
WriteCustomer(w) ==
    LET c == Sender[job[w]] IN
    /\ Running(w, "customer")
    /\ CustomerFree(w, c)
    /\ IF CustomerRow(c) \in Visible(w)
       THEN UNCHANGED <<buffer, committed>>
       ELSE Write(w, CustomerRow(c))
    /\ locks' = IF depth[w] = 0 THEN locks ELSE [locks EXCEPT ![w] = @ \cup {c}]
    /\ Goto(w, "message")
    /\ UNCHANGED <<waiting, attempts, job, depth, aborted, marked, failed, countVars>>

\* saveCustomerMessage; the message may then show a trigger for escalation.
WriteMessage(w) ==
    LET m == job[w] IN
    /\ Running(w, "message")
    /\ IF MessageRow(m) \in Visible(w)
       THEN UNCHANGED <<buffer, committed>>
       ELSE Write(w, MessageRow(m))
    /\ Goto(w, "escalation") \/ Goto(w, "finish")
    /\ UNCHANGED <<waiting, attempts, job, depth, locks, aborted, marked, failed, countVars>>

\* DB::beginTransaction(): a transaction, or a savepoint in the open one.
BeginEscalation(w) ==
    /\ Running(w, "escalation")
    /\ depth' = [depth EXCEPT ![w] = @ + 1]
    /\ Goto(w, "agent")
    /\ UNCHANGED <<waiting, attempts, job, buffer, locks, aborted,
                   committed, marked, failed, countVars>>

\* No available agent: the method returns and the level stays.
NoAgentFound(w) ==
    /\ Running(w, "agent")
    /\ leaks' = leaks + 1
    /\ Goto(w, "finish")
    /\ UNCHANGED <<waiting, attempts, job, connectionVars,
                   committed, marked, failed, errors, exits>>

\* handoverToAgent and createEscalationMessage.
HandOver(w) ==
    /\ Running(w, "agent")
    /\ Write(w, HandoverRow(job[w]))
    /\ Goto(w, "commit")
    /\ UNCHANGED <<waiting, attempts, job, depth, locks, aborted, marked, failed, countVars>>

\* Mutant: a commit ends the transaction at whatever level it is called.
CommitAll(w) ==
    /\ Running(w, "commit")
    /\ depth' = [depth EXCEPT ![w] = 0]
    /\ committed' = committed \cup buffer[w]
    /\ buffer' = [buffer EXCEPT ![w] = {}]
    /\ locks' = [locks EXCEPT ![w] = {}]
    /\ Goto(w, "finish")
    /\ UNCHANGED <<waiting, attempts, job, aborted, marked, failed, countVars>>

\* DB::commit(): the outermost level commits, an inner one has nothing to do.
Commit(w) ==
    /\ Running(w, "commit")
    /\ depth' = [depth EXCEPT ![w] = @ - 1]
    /\ IF depth[w] = 1
       THEN /\ committed' = committed \cup buffer[w]
            /\ buffer' = [buffer EXCEPT ![w] = {}]
            /\ locks' = [locks EXCEPT ![w] = {}]
       ELSE UNCHANGED <<committed, buffer, locks>>
    /\ Goto(w, "finish")
    /\ UNCHANGED <<waiting, attempts, job, aborted, marked, failed, countVars>>

\* Mutant: the exception is caught and the transaction is not rolled back.
RollBackForgotten(w) ==
    /\ pc[w] \in {"agent", "commit"} /\ w \notin aborted
    /\ errors < MaxErrors
    /\ errors' = errors + 1
    /\ Goto(w, "finish")
    /\ UNCHANGED <<waiting, attempts, job, connectionVars,
                   committed, marked, failed, leaks, exits>>

\* Mutant: the handler rolls back twice.
RollBackTwice(w) ==
    /\ pc[w] \in {"agent", "commit"} /\ w \notin aborted
    /\ errors < MaxErrors
    /\ errors' = errors + 1
    /\ depth' = [depth EXCEPT ![w] = @ - 2]
    /\ buffer' = [buffer EXCEPT ![w] = @ \ {HandoverRow(job[w])}]
    /\ Goto(w, "finish")
    /\ UNCHANGED <<waiting, attempts, job, locks, aborted,
                   committed, marked, failed, leaks, exits>>

\* An exception in the escalation: DB::rollBack() undoes what this level wrote, and
\* the message goes on without an escalation.
RollBack(w) ==
    /\ pc[w] \in {"agent", "commit"} /\ w \notin aborted
    /\ errors < MaxErrors
    /\ errors' = errors + 1
    /\ depth' = [depth EXCEPT ![w] = @ - 1]
    /\ buffer' = [buffer EXCEPT ![w] = @ \ {HandoverRow(job[w])}]
    /\ Goto(w, "finish")
    /\ UNCHANGED <<waiting, attempts, job, locks, aborted,
                   committed, marked, failed, leaks, exits>>

\* markMessageAsProcessed, and the job is acknowledged: neither asks the database.
Finish(w) ==
    /\ pc[w] = "finish"
    /\ marked' = marked \cup {job[w]}
    /\ job' = [job EXCEPT ![w] = NoMessage]
    /\ Goto(w, "idle")
    /\ UNCHANGED <<waiting, attempts, connectionVars, committed, failed, countVars>>

-----------------------------------------------------------------------------
(* What goes wrong *)

\* A statement of the job fails: the exception leaves the job, and a transaction
\* that is open is aborted.
StatementFails(w) ==
    /\ pc[w] \in {"customer", "message"} /\ w \notin aborted
    /\ errors < MaxErrors
    /\ errors' = errors + 1
    /\ aborted' = IF depth[w] > 0 THEN aborted \cup {w} ELSE aborted
    /\ GiveBack(w)
    /\ UNCHANGED <<depth, buffer, locks, committed, leaks, exits>>

\* Mutant: a refused job is dispatched anew instead of being thrown out.
StatementRefusedAnew(w) ==
    /\ pc[w] \in {"customer", "message"} /\ w \in aborted
    /\ job' = [job EXCEPT ![w] = NoMessage]
    /\ Goto(w, "idle")
    /\ waiting' = waiting \cup {job[w]}
    /\ attempts' = [attempts EXCEPT ![job[w]] = 0]
    /\ UNCHANGED <<connectionVars, committed, marked, failed, countVars>>

\* "current transaction is aborted": so does every statement after that.
StatementRefused(w) ==
    /\ pc[w] \in {"customer", "message"} /\ w \in aborted
    /\ GiveBack(w)
    /\ UNCHANGED <<connectionVars, committed, countVars>>

\* The job waits for a row until its timeout, which kills the worker process.
TimeOut(w) ==
    /\ pc[w] = "customer"
    /\ ~CustomerFree(w, Sender[job[w]])
    /\ GiveBack(w)
    /\ Disconnect(w)
    /\ UNCHANGED <<committed, countVars>>

\* The process ends between two jobs (--max-jobs, a restart) and is started again.
Exit(w) ==
    /\ pc[w] = "idle"
    /\ exits < MaxExits
    /\ exits' = exits + 1
    /\ Disconnect(w)
    /\ UNCHANGED <<jobVars, committed, marked, failed, leaks, errors>>

Step(w) ==
    \/ Take(w)
    \/ WriteCustomer(w)
    \/ WriteMessage(w)
    \/ BeginEscalation(w)
    \/ NoAgentFound(w)
    \/ HandOver(w)
    \/ Commit(w)
    \/ Finish(w)
    \/ StatementRefused(w)
    \/ TimeOut(w)

Next == \E w \in Workers : Step(w) \/ RollBack(w) \/ StatementFails(w) \/ Exit(w)

Spec == Init /\ [][Next]_vars

\* A worker process goes on with its job, takes the next one, and is killed when a
\* job overruns its timeout.
FairSpec == Spec /\ \A w \in Workers : WF_vars(Step(w))

-----------------------------------------------------------------------------
(* Properties *)

\* A row of m is where it can still be found or committed.
Alive(row) == row \in committed \/ \E w \in Workers : row \in buffer[w]

\* As long as no escalation has left its transaction open, the jobs keep their
\* word through errors, rollbacks and restarts: every message marked as processed
\* is committed, and none fails that was not interrupted as often as it was tried.
NoLeakNoLoss ==
    leaks = 0 => /\ \A m \in marked : MessageRow(m) \in committed
                 /\ errors < Tries => failed = {}

\* No row is written twice, however transactions overlap: what is pending on one
\* connection is neither committed nor pending on another.
PendingIsExclusive ==
    \A w \in Workers :
        /\ buffer[w] \cap committed = {}
        /\ \A v \in Others(w) : buffer[v] \cap buffer[w] = {}

\* What a job writes into a transaction that was left open is never committed: the
\* commits and rollbacks of the worker's later escalations only release their own
\* savepoints, and the rows go when the process does.
LeakIsForGood ==
    [][\A w \in Workers, m \in Messages :
          MessageRow(m) \in buffer[w] => MessageRow(m) \notin committed']_vars

\* Whoever reads the tables sees what MessageTable allows: rows come one by one, none
\* before the row it refers to, although a worker may have them all in a transaction
\* that it commits, rolls back or leaves open.
Table == INSTANCE MessageTable WITH
    customers <- {c \in Customers : CustomerRow(c) \in committed},
    messages <- {m \in Messages : MessageRow(m) \in committed},
    handovers <- {m \in Messages : HandoverRow(m) \in committed}
ImplementsTable == Table!Spec

\* Every message is in the end marked as processed or has failed.
Settles == \A m \in Messages : <>(m \in marked \cup failed)

\* "Process the message without transaction to avoid silent rollbacks": the row of a
\* message marked as processed is not lost.
NoSilentRollback == \A m \in marked : Alive(MessageRow(m))
=============================================================================
