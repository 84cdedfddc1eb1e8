--------------------------- MODULE MessageIngest ---------------------------
(***************************************************************************)
(* How an incoming WhatsApp message reaches the database and is answered.  *)
(*                                                                         *)
(* WAHA posts the message to the webhook, possibly more than once.  The    *)
(* web request checks for a duplicate, logs the webhook and fires an event *)
(* whose queued listener dispatches a job; the job writes the customer,    *)
(* the chat session, the message and the bot's reply.  Five checks along   *)
(* the way look for work already done: the message row, the webhook log,   *)
(* two Redis keys and the unique indexes of the database.  All of them but *)
(* the last are a read followed, some statements later, by a write.        *)
(*                                                                         *)
(* Queue delivery is at least once: a job whose worker throws or dies, or  *)
(* takes longer than the connection's retry_after, is delivered again.     *)
(***************************************************************************)
EXTENDS Integers, FiniteSets, Functions

CONSTANTS
    Messages,       \* WhatsApp message ids
    Customers,      \* phone numbers
    Sender,         \* Sender[m]: the phone number message m comes from
    Unsupported,    \* messages whose type the CHECK constraint of messages rejects:
                    \* determineMessageType also says document, media and system
    Workers,        \* queue worker processes
    Idle,           \* the job of a worker that has none
    ListenerCopies, \* how often the listener is registered for the event
    Tries,          \* $tries of the listener and of the job
    MaxDeliveries,  \* bound: webhook deliveries of one message
    MaxInterrupts,  \* bound: exceptions, crashes and redeliveries in all
    MaxExpiries     \* bound: expiries of a Redis key or of a webhook log in all

ASSUME SenderAssumption == Sender \in [Messages -> Customers]
ASSUME IngestBounds ==
    /\ Unsupported \subseteq Messages
    /\ IsFiniteSet(Workers)
    /\ ListenerCopies \in Nat \ {0}
    /\ Tries \in Nat \ {0}
    /\ MaxDeliveries \in Nat
    /\ MaxInterrupts \in Nat
    /\ MaxExpiries \in Nat

VARIABLES
    deliveries,   \* deliveries[m]: webhook requests received for m
    checked,      \* checked[m]: web requests that have found m to be new
    logged,       \* logged[m]: web requests about to fire the event of m
    webhookLog,   \* messages with a webhook_logs row of the last five minutes
    queue,        \* queue[j]: copies of job j that wait for a worker
    work,         \* work[w]: the job worker w runs, and where it is in it
    eventKey,     \* messages with Redis key whatsapp_event_processed
    processedKey, \* messages with Redis key whatsapp_message_processed
    customers,    \* phone numbers with a customers row
    sessions,     \* sessions[c]: active chat sessions of customer c
    rows,         \* rows[m]: messages rows that hold m
    replies,      \* replies[m]: bot messages written (and sent) in answer to m
    failed,       \* messages with a job in failed_jobs
    accepted,     \* history: messages whose event has been fired
    dispatched,   \* history: jobs the listener has dispatched for m
    interrupts,   \* history: exceptions, crashes and redeliveries suffered for m
    collided,     \* history: messages whose job hit a duplicate key
    expiries      \* expiries so far (bounded by MaxExpiries)

hookVars == <<deliveries, checked, logged, webhookLog>>
keyVars == <<eventKey, processedKey>>
dataVars == <<customers, sessions, rows, replies>>
historyVars == <<failed, accepted, dispatched, interrupts, collided, expiries>>
vars == <<hookVars, queue, work, keyVars, dataVars, historyVars>>

-----------------------------------------------------------------------------
(* Jobs and workers *)

\* attempts: how often the job has been delivered.
Jobs == [kind : {"listener", "process"}, msg : Messages, attempts : 0..Tries]

ListenerPCs == {"event", "mark", "check", "claim", "dispatch", "confirm"}
ProcessPCs == {"customer", "newCustomer", "session", "newSession", "message",
               "newMessage", "reply", "finish"}

\* reserved: the queue still holds the delivery for this worker.
Work == [kind : {"listener", "process"}, msg : Messages, attempts : 1..Tries,
         pc : ListenerPCs \cup ProcessPCs, reserved : BOOLEAN]

ASSUME IdleAssumption == Idle \notin Work

NewJob(kind, m) == [kind |-> kind, msg |-> m, attempts |-> 0]
JobOf(q) == [kind |-> q.kind, msg |-> q.msg, attempts |-> q.attempts]
Put(j, n) == queue' = [queue EXCEPT ![j] = @ + n]

TypeOK ==
    /\ deliveries \in [Messages -> 0..MaxDeliveries]
    /\ checked \in [Messages -> Nat]
    /\ logged \in [Messages -> Nat]
    /\ webhookLog \subseteq Messages
    /\ queue \in [Jobs -> Nat]
    /\ work \in [Workers -> Work \cup {Idle}]
    /\ eventKey \subseteq Messages
    /\ processedKey \subseteq Messages
    /\ customers \subseteq Customers
    /\ sessions \in [Customers -> Nat]
    /\ rows \in [Messages -> Nat]
    /\ replies \in [Messages -> Nat]
    /\ failed \subseteq Messages
    /\ accepted \subseteq Messages
    /\ dispatched \in [Messages -> Nat]
    /\ interrupts \in [Messages -> Nat]
    /\ collided \subseteq Messages
    /\ expiries \in 0..MaxExpiries

Init ==
    /\ deliveries = [m \in Messages |-> 0]
    /\ checked = [m \in Messages |-> 0]
    /\ logged = [m \in Messages |-> 0]
    /\ webhookLog = {}
    /\ queue = [j \in Jobs |-> 0]
    /\ work = [w \in Workers |-> Idle]
    /\ eventKey = {}
    /\ processedKey = {}
    /\ customers = {}
    /\ sessions = [c \in Customers |-> 0]
    /\ rows = [m \in Messages |-> 0]
    /\ replies = [m \in Messages |-> 0]
    /\ failed = {}
    /\ accepted = {}
    /\ dispatched = [m \in Messages |-> 0]
    /\ interrupts = [m \in Messages |-> 0]
    /\ collided = {}
    /\ expiries = 0

\* An exception, a crash or a redelivery strikes the handling of m.
Interrupted(m) ==
    /\ FoldFunction(+, 0, interrupts) < MaxInterrupts
    /\ interrupts' = [interrupts EXCEPT ![m] = @ + 1]

-----------------------------------------------------------------------------
(* The webhook request: handleMessageEvent *)

\* isMessageAlreadyProcessed: the message row, then the recent webhook log.
KnownToWebhook(m) == rows[m] > 0 \/ m \in webhookLog

\* When the check itself throws, the message is taken for new.
Receive(m) ==
    /\ deliveries[m] < MaxDeliveries
    /\ deliveries' = [deliveries EXCEPT ![m] = @ + 1]
    /\ \/ KnownToWebhook(m) /\ UNCHANGED <<checked, interrupts>>
       \/ /\ IF KnownToWebhook(m) THEN Interrupted(m) ELSE UNCHANGED interrupts
          /\ checked' = [checked EXCEPT ![m] = @ + 1]
    /\ UNCHANGED <<logged, webhookLog, queue, work, keyVars, dataVars,
                   failed, accepted, dispatched, collided, expiries>>

\* logWebhookProcessing; when the insert fails the request goes on.
LogWebhook(m) ==
    /\ checked[m] > 0
    /\ checked' = [checked EXCEPT ![m] = @ - 1]
    /\ logged' = [logged EXCEPT ![m] = @ + 1]
    /\ \/ webhookLog' = webhookLog \cup {m} /\ UNCHANGED interrupts
       \/ Interrupted(m) /\ UNCHANGED webhookLog
    /\ UNCHANGED <<deliveries, queue, work, keyVars, dataVars,
                   failed, accepted, dispatched, collided, expiries>>

\* event(): one queued job for each registration of the listener.
FireEvent(m) ==
    /\ logged[m] > 0
    /\ logged' = [logged EXCEPT ![m] = @ - 1]
    /\ Put(NewJob("listener", m), ListenerCopies)
    /\ accepted' = accepted \cup {m}
    /\ UNCHANGED <<deliveries, checked, webhookLog, work, keyVars, dataVars,
                   failed, dispatched, interrupts, collided, expiries>>

\* Mutant: the request is struck off both lists.
RequestFailsTwice(m) ==
    /\ Interrupted(m)
    /\ checked[m] > 0 \/ logged[m] > 0
    /\ checked' = [checked EXCEPT ![m] = @ - 1]
    /\ logged' = [logged EXCEPT ![m] = @ - 1]
    /\ UNCHANGED <<deliveries, webhookLog, queue, work, keyVars, dataVars,
                   failed, accepted, dispatched, collided, expiries>>

\* The web request throws or dies: it is answered with an error, and what it has
\* written stays.
RequestFails(m) ==
    /\ Interrupted(m)
    /\ \/ checked[m] > 0 /\ checked' = [checked EXCEPT ![m] = @ - 1] /\ UNCHANGED logged
       \/ logged[m] > 0 /\ logged' = [logged EXCEPT ![m] = @ - 1] /\ UNCHANGED checked
    /\ UNCHANGED <<deliveries, webhookLog, queue, work, keyVars, dataVars,
                   failed, accepted, dispatched, collided, expiries>>

-----------------------------------------------------------------------------
(* Queue workers *)

At(w, pc) == work[w] # Idle /\ work[w].pc = pc
Msg(w) == work[w].msg
Goto(w, pc) == work' = [work EXCEPT ![w].pc = pc]

\* The job returns normally and the delivery is acknowledged.
Done(w) == work' = [work EXCEPT ![w] = Idle]

\* A worker takes a job that has been delivered less than Tries times.
Take(w) ==
    /\ work[w] = Idle
    /\ \E j \in Jobs :
          /\ queue[j] > 0
          /\ j.attempts < Tries
          /\ Put(j, -1)
          /\ work' = [work EXCEPT ![w] =
                        [kind |-> j.kind, msg |-> j.msg, attempts |-> j.attempts + 1,
                         pc |-> IF j.kind = "listener" THEN "event" ELSE "customer",
                         reserved |-> TRUE]]
    /\ UNCHANGED <<hookVars, keyVars, dataVars, historyVars>>

\* A job delivered too often fails without being run.
TakeExhausted(w) ==
    /\ work[w] = Idle
    /\ \E j \in Jobs :
          /\ queue[j] > 0
          /\ j.attempts = Tries
          /\ Put(j, -1)
          /\ failed' = failed \cup {j.msg}
    /\ UNCHANGED <<hookVars, work, keyVars, dataVars,
                   accepted, dispatched, interrupts, collided, expiries>>

\* An exception leaves the job: it is released for another attempt, or has failed.
ReleaseOrFail(w) ==
    /\ Done(w)
    /\ \/ work[w].attempts < Tries /\ Put(JobOf(work[w]), 1) /\ UNCHANGED failed
       \/ work[w].attempts = Tries /\ failed' = failed \cup {Msg(w)} /\ UNCHANGED queue

\* Mutant: the first exception fails the job for good.
ThrowFatal(w) ==
    /\ work[w] # Idle
    /\ work[w].pc # "reply"
    /\ Interrupted(Msg(w))
    /\ Done(w)
    /\ failed' = failed \cup {Msg(w)}
    /\ UNCHANGED <<hookVars, queue, keyVars, dataVars, accepted, dispatched, collided, expiries>>

\* A statement throws.  processWithBot swallows every exception, so "reply" does not.
Throw(w) ==
    /\ work[w] # Idle
    /\ work[w].pc # "reply"
    /\ Interrupted(Msg(w))
    /\ ReleaseOrFail(w)
    /\ UNCHANGED <<hookVars, keyVars, dataVars, accepted, dispatched, collided, expiries>>

\* The worker process dies; what it held is delivered again after retry_after.
Crash(w) ==
    /\ work[w] # Idle
    /\ Interrupted(Msg(w))
    /\ Done(w)
    /\ IF work[w].reserved THEN Put(JobOf(work[w]), 1) ELSE UNCHANGED queue
    /\ UNCHANGED <<hookVars, keyVars, dataVars, failed, accepted, dispatched, collided, expiries>>

\* retry_after (90 s) passes while a job with a timeout of 120 s still runs: the
\* delivery is given to the queue again and the first worker carries on.
Redeliver(w) ==
    /\ work[w] # Idle
    /\ work[w].kind = "process"
    /\ work[w].reserved
    /\ Interrupted(Msg(w))
    /\ Put(JobOf(work[w]), 1)
    /\ work' = [work EXCEPT ![w].reserved = FALSE]
    /\ UNCHANGED <<hookVars, keyVars, dataVars, failed, accepted, dispatched, collided, expiries>>

-----------------------------------------------------------------------------
(* The queued listener: ProcessWhatsAppMessageListener::handle *)

\* Mutant: a listener that finds the event taken puts itself back.
CheckEventRequeue(w) ==
    /\ At(w, "event")
    /\ IF Msg(w) \in eventKey
       THEN Done(w) /\ Put(NewJob("listener", Msg(w)), 1)
       ELSE Goto(w, "mark") /\ UNCHANGED queue
    /\ UNCHANGED <<hookVars, keyVars, dataVars, historyVars>>

\* Redis::exists(eventKey)
CheckEvent(w) ==
    /\ At(w, "event")
    /\ IF Msg(w) \in eventKey THEN Done(w) ELSE Goto(w, "mark")
    /\ UNCHANGED <<hookVars, queue, keyVars, dataVars, historyVars>>

\* Mutant: the key of the message is set together with the key of the event.
MarkEventAndMessage(w) ==
    /\ At(w, "mark")
    /\ eventKey' = eventKey \cup {Msg(w)}
    /\ processedKey' = processedKey \cup {Msg(w)}
    /\ Goto(w, "check")
    /\ UNCHANGED <<hookVars, queue, dataVars, historyVars>>

\* Redis::setex(eventKey, 300, 'processing')
MarkEvent(w) ==
    /\ At(w, "mark")
    /\ eventKey' = eventKey \cup {Msg(w)}
    /\ Goto(w, "check")
    /\ UNCHANGED <<hookVars, queue, processedKey, dataVars, historyVars>>

\* isMessageAlreadyProcessed: the Redis key, then the message row.
CheckMessage(w) ==
    /\ At(w, "check")
    /\ IF Msg(w) \in processedKey \/ rows[Msg(w)] > 0
       THEN processedKey' = processedKey \cup {Msg(w)} /\ Done(w)
       ELSE Goto(w, "claim") /\ UNCHANGED processedKey
    /\ UNCHANGED <<hookVars, queue, eventKey, dataVars, historyVars>>

\* ... and when neither is there, setex(redisKey, 300, 'processing').
ClaimMessage(w) ==
    /\ At(w, "claim")
    /\ processedKey' = processedKey \cup {Msg(w)}
    /\ Goto(w, "dispatch")
    /\ UNCHANGED <<hookVars, queue, eventKey, dataVars, historyVars>>

Dispatch(w) ==
    /\ At(w, "dispatch")
    /\ Put(NewJob("process", Msg(w)), 1)
    /\ dispatched' = [dispatched EXCEPT ![Msg(w)] = @ + 1]
    /\ Goto(w, "confirm")
    /\ UNCHANGED <<hookVars, keyVars, dataVars, failed, accepted, interrupts, collided, expiries>>

\* setex(eventKey, 3600, 'dispatched')
ConfirmEvent(w) ==
    /\ At(w, "confirm")
    /\ eventKey' = eventKey \cup {Msg(w)}
    /\ Done(w)
    /\ UNCHANGED <<hookVars, queue, processedKey, dataVars, historyVars>>

-----------------------------------------------------------------------------
(* The job: ProcessWhatsAppMessageJob::handle and processIncomingMessage.      *)
(* isDuplicateMessage looks for a metadata key that no code writes, so it finds *)
(* nothing and the job always goes on to the customer.                         *)

FindCustomer(w) ==
    /\ At(w, "customer")
    /\ Goto(w, IF Sender[Msg(w)] \in customers THEN "session" ELSE "newCustomer")
    /\ UNCHANGED <<hookVars, queue, keyVars, dataVars, historyVars>>

\* The job's catch takes any duplicate key for a message that is already there.
CatchDuplicateKey(w) ==
    /\ collided' = collided \cup {Msg(w)}
    /\ processedKey' = processedKey \cup {Msg(w)}
    /\ Done(w)

\* When another job has created the customer in between, the insert violates the
\* unique index.
CreateCustomer(w) ==
    /\ At(w, "newCustomer")
    /\ \/ /\ Sender[Msg(w)] \in customers
          /\ CatchDuplicateKey(w)
          /\ UNCHANGED customers
       \/ /\ Sender[Msg(w)] \notin customers
          /\ customers' = customers \cup {Sender[Msg(w)]}
          /\ Goto(w, "session")
          /\ UNCHANGED <<collided, processedKey>>
    /\ UNCHANGED <<hookVars, queue, eventKey, sessions, rows, replies,
                   failed, accepted, dispatched, interrupts, expiries>>

\* Mutant: a job does not look for the customer's active session.
FindSessionNever(w) ==
    /\ At(w, "session")
    /\ Goto(w, "newSession")
    /\ UNCHANGED <<hookVars, queue, keyVars, dataVars, historyVars>>

FindSession(w) ==
    /\ At(w, "session")
    /\ Goto(w, IF sessions[Sender[Msg(w)]] > 0 THEN "message" ELSE "newSession")
    /\ UNCHANGED <<hookVars, queue, keyVars, dataVars, historyVars>>

CreateSession(w) ==
    /\ At(w, "newSession")
    /\ sessions' = [sessions EXCEPT ![Sender[Msg(w)]] = @ + 1]
    /\ Goto(w, "message")
    /\ UNCHANGED <<hookVars, queue, keyVars, customers, rows, replies, historyVars>>

\* saveCustomerMessage looks for the row first ...
FindMessage(w) ==
    /\ At(w, "message")
    /\ Goto(w, IF rows[Msg(w)] > 0 THEN "reply" ELSE "newMessage")
    /\ UNCHANGED <<hookVars, queue, keyVars, dataVars, historyVars>>

\* Mutant: the insert has no unique index behind it.
CreateMessageUnindexed(w) ==
    /\ At(w, "newMessage")
    /\ Msg(w) \notin Unsupported
    /\ rows' = [rows EXCEPT ![Msg(w)] = @ + 1]
    /\ Goto(w, "reply")
    /\ UNCHANGED <<hookVars, queue, keyVars, customers, sessions, replies, historyVars>>

\* ... and fetches the row another job has inserted when the unique index refuses.
CreateMessage(w) ==
    /\ At(w, "newMessage")
    /\ Msg(w) \notin Unsupported
    /\ rows' = IF rows[Msg(w)] > 0 THEN rows ELSE [rows EXCEPT ![Msg(w)] = 1]
    /\ Goto(w, "reply")
    /\ UNCHANGED <<hookVars, queue, keyVars, customers, sessions, replies, historyVars>>

\* The CHECK constraint on message_type refuses the row: every attempt throws.
RejectMessage(w) ==
    /\ At(w, "newMessage")
    /\ Msg(w) \in Unsupported
    /\ ReleaseOrFail(w)
    /\ UNCHANGED <<hookVars, keyVars, dataVars, accepted, dispatched, interrupts,
                   collided, expiries>>

\* processWithBot writes a bot message and sends it, or gives up in silence.
Reply(w) ==
    /\ At(w, "reply")
    /\ \/ replies' = [replies EXCEPT ![Msg(w)] = @ + 1]
       \/ UNCHANGED replies
    /\ Goto(w, "finish")
    /\ UNCHANGED <<hookVars, queue, keyVars, customers, sessions, rows, historyVars>>

\* Mutant: the finished job is left on the queue.
FinishJobUnacknowledged(w) ==
    /\ At(w, "finish")
    /\ processedKey' = processedKey \cup {Msg(w)}
    /\ Done(w)
    /\ Put(JobOf(work[w]), 1)
    /\ UNCHANGED <<hookVars, eventKey, dataVars, historyVars>>

\* markMessageAsProcessed
FinishJob(w) ==
    /\ At(w, "finish")
    /\ processedKey' = processedKey \cup {Msg(w)}
    /\ Done(w)
    /\ UNCHANGED <<hookVars, queue, eventKey, dataVars, historyVars>>

-----------------------------------------------------------------------------
\* A Redis key runs out, or a webhook log is older than five minutes.
Expire(m) ==
    /\ expiries < MaxExpiries
    /\ expiries' = expiries + 1
    /\ \/ m \in eventKey /\ eventKey' = eventKey \ {m} /\ UNCHANGED <<processedKey, webhookLog>>
       \/ m \in processedKey /\ processedKey' = processedKey \ {m}
          /\ UNCHANGED <<eventKey, webhookLog>>
       \/ m \in webhookLog /\ webhookLog' = webhookLog \ {m} /\ UNCHANGED keyVars
    /\ UNCHANGED <<deliveries, checked, logged, queue, work, dataVars,
                   failed, accepted, dispatched, interrupts, collided>>

RunListener(w) ==
    \/ CheckEvent(w)
    \/ MarkEvent(w)
    \/ CheckMessage(w)
    \/ ClaimMessage(w)
    \/ Dispatch(w)
    \/ ConfirmEvent(w)

RunJob(w) ==
    \/ FindCustomer(w)
    \/ CreateCustomer(w)
    \/ FindSession(w)
    \/ CreateSession(w)
    \/ FindMessage(w)
    \/ CreateMessage(w)
    \/ RejectMessage(w)
    \/ Reply(w)
    \/ FinishJob(w)

WorkerStep(w) == Take(w) \/ TakeExhausted(w) \/ RunListener(w) \/ RunJob(w)
RequestStep(m) == LogWebhook(m) \/ FireEvent(m)

Next ==
    \/ \E m \in Messages : Receive(m) \/ RequestStep(m) \/ RequestFails(m) \/ Expire(m)
    \/ \E w \in Workers : WorkerStep(w) \/ Throw(w) \/ Crash(w) \/ Redeliver(w)

Spec == Init /\ [][Next]_vars

\* PHP runs a request to its end, and the supervisors restart workers that stop.
Fairness ==
    /\ \A m \in Messages : WF_vars(RequestStep(m))
    /\ \A w \in Workers : WF_vars(WorkerStep(w))

FairSpec == Spec /\ Fairness

-----------------------------------------------------------------------------
(* Properties *)

\* Nothing is under way for message m: no web request, no job, no worker.
Quiet(m) ==
    /\ checked[m] = 0 /\ logged[m] = 0
    /\ \A j \in Jobs : j.msg = m => queue[j] = 0
    /\ \A w \in Workers : work[w] # Idle => Msg(w) # m

\* A message that was delivered and is not in the database once all its work is
\* over has been interrupted, has met another first message of its customer, or
\* has a type the table rejects: five duplicate checks lose nothing by themselves.
LossExplained ==
    \A m \in Messages :
        deliveries[m] > 0 /\ Quiet(m) /\ rows[m] = 0
            => interrupts[m] > 0 \/ m \in collided \/ m \in Unsupported

\* The bot answers a message once for each job the listener dispatched, and once
\* more at most for each interruption: the jobs of one message, redelivered and
\* overlapping, never answer more often than they were started.
RepliesBounded ==
    \A m \in Messages : replies[m] <= dispatched[m] + interrupts[m]

\* A job fails for good only when every one of its tries was interrupted.
RetriesHonoured ==
    \A m \in failed \ Unsupported : interrupts[m] >= Tries

\* Looking for an active session and creating one are two statements; concurrent
\* jobs of one customer can each create one, but never more of them than workers.
SessionsBounded ==
    \A c \in Customers : sessions[c] <= Cardinality(Workers)

\* Whatever is delivered comes to rest: no job circulates for ever.
Settles ==
    \A m \in Messages : deliveries[m] > 0 ~> Quiet(m)

\* The ingest keeps the promises of MessageInbox: its customers, sessions, message
\* rows and replies change only as that specification allows.
Inbox == INSTANCE MessageInbox WITH
    Messages <- Messages, Customers <- Customers, Sender <- Sender,
    customers <- customers, sessions <- sessions, rows <- rows, replies <- replies
ImplementsInbox == Inbox!Spec

\* "Re-throw exception to trigger retry mechanism": an accepted message whose
\* listener has not failed permanently has been handed to the job.
RetryDispatches ==
    \A m \in accepted \ failed : Quiet(m) => dispatched[m] > 0
=============================================================================
