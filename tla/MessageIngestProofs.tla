------------------------ MODULE MessageIngestProofs ------------------------
(***************************************************************************)
(* Proofs about MessageIngest, for every set of messages, customers and    *)
(* workers, every number of listener copies and tries and every bound.     *)
(***************************************************************************)
EXTENDS MessageIngest, FiniteSetTheorems, TLAPS

-----------------------------------------------------------------------------
(* Type correctness *)

\* One more at one place keeps a function to the natural numbers.
LEMMA CountType ==
    ASSUME NEW S, NEW f \in [S -> Nat], NEW k
    PROVE  [f EXCEPT ![k] = @ + 1] \in [S -> Nat]
<1>1. CASE k \in S
  BY <1>1
<1>2. CASE k \notin S
  BY <1>2
<1>. QED
  BY <1>1, <1>2

\* A job that is put gets one more copy or several.
LEMMA PutType ==
    ASSUME TypeOK, NEW j \in Jobs, NEW n \in Nat, Put(j, n)
    PROVE  queue' \in [Jobs -> Nat]
  BY DEF TypeOK, Put

LEMMA NewJobType ==
    ASSUME NEW kind \in {"listener", "process"}, NEW m \in Messages
    PROVE  NewJob(kind, m) \in Jobs
  BY IngestBounds DEF NewJob, Jobs

\* What a worker that runs a job holds.
LEMMA RunningType ==
    ASSUME TypeOK, NEW w \in Workers, work[w] # Idle
    PROVE  /\ work[w] \in Work
           /\ Msg(w) \in Messages
           /\ JobOf(work[w]) \in Jobs
           /\ Sender[Msg(w)] \in Customers
<1>1. work[w] \in Work
  BY DEF TypeOK
<1>2. /\ work[w].msg \in Messages
      /\ work[w].kind \in {"listener", "process"}
      /\ work[w].attempts \in 0..Tries
  BY <1>1, IngestBounds DEF Work
<1>. QED
  BY <1>1, <1>2, SenderAssumption DEF Msg, JobOf, Jobs

LEMMA DoneType ==
    ASSUME TypeOK, NEW w \in Workers, Done(w)
    PROVE  work' \in [Workers -> Work \cup {Idle}]
  BY DEF TypeOK, Done

LEMMA GotoType ==
    ASSUME TypeOK, NEW w \in Workers, work[w] # Idle,
           NEW pc \in ListenerPCs \cup ProcessPCs, Goto(w, pc)
    PROVE  work' \in [Workers -> Work \cup {Idle}]
<1>1. work[w] \in Work
  BY DEF TypeOK
<1>2. [work[w] EXCEPT !.pc = pc] \in Work
  BY <1>1 DEF Work
<1>3. work' = [work EXCEPT ![w] = [work[w] EXCEPT !.pc = pc]]
  BY DEF Goto
<1>. QED
  BY <1>2, <1>3 DEF TypeOK

LEMMA ReleaseOrFailType ==
    ASSUME TypeOK, NEW w \in Workers, work[w] # Idle, ReleaseOrFail(w)
    PROVE  /\ work' \in [Workers -> Work \cup {Idle}]
           /\ queue' \in [Jobs -> Nat]
           /\ failed' \subseteq Messages
<1>1. work' \in [Workers -> Work \cup {Idle}]
  BY DoneType DEF ReleaseOrFail
<1>2. CASE Put(JobOf(work[w]), 1) /\ UNCHANGED failed
  BY <1>1, <1>2, PutType, RunningType DEF TypeOK
<1>3. CASE failed' = failed \cup {Msg(w)} /\ UNCHANGED queue
  BY <1>1, <1>3, RunningType DEF TypeOK
<1>. QED
  BY <1>2, <1>3 DEF ReleaseOrFail

LEMMA InterruptedType ==
    ASSUME TypeOK, NEW m, Interrupted(m)
    PROVE  interrupts' \in [Messages -> Nat]
  BY CountType DEF TypeOK, Interrupted

LEMMA InitType == Init => TypeOK
  BY IngestBounds DEF Init, TypeOK

\* The steps of a web request keep the types.
LEMMA RequestType ==
    ASSUME TypeOK, NEW m \in Messages,
           Receive(m) \/ LogWebhook(m) \/ FireEvent(m) \/ RequestFails(m) \/ Expire(m)
    PROVE  TypeOK'
<1>1. CASE Receive(m)
  <2>1. deliveries' \in [Messages -> 0..MaxDeliveries]
    BY <1>1, IngestBounds DEF Receive, TypeOK
  <2>2. checked' \in [Messages -> Nat] /\ interrupts' \in [Messages -> Nat]
    BY <1>1, CountType, InterruptedType DEF Receive, TypeOK
  <2>. QED
    BY <1>1, <2>1, <2>2 DEF Receive, TypeOK, keyVars, dataVars
<1>2. CASE LogWebhook(m)
  <2>1. /\ checked' \in [Messages -> Nat]
        /\ logged' \in [Messages -> Nat]
    BY <1>2 DEF LogWebhook, TypeOK
  <2>2. webhookLog' \subseteq Messages /\ interrupts' \in [Messages -> Nat]
    BY <1>2, InterruptedType DEF LogWebhook, TypeOK
  <2>. QED
    BY <1>2, <2>1, <2>2 DEF LogWebhook, TypeOK, keyVars, dataVars
<1>3. CASE FireEvent(m)
  <2>1. queue' \in [Jobs -> Nat]
    BY <1>3, PutType, NewJobType, IngestBounds DEF FireEvent
  <2>2. logged' \in [Messages -> Nat]
    BY <1>3 DEF FireEvent, TypeOK
  <2>. QED
    BY <1>3, <2>1, <2>2 DEF FireEvent, TypeOK, keyVars, dataVars
<1>4. CASE RequestFails(m)
  <2>1. interrupts' \in [Messages -> Nat]
    BY <1>4, InterruptedType DEF RequestFails
  <2>2. /\ checked' \in [Messages -> Nat]
        /\ logged' \in [Messages -> Nat]
    BY <1>4 DEF RequestFails, TypeOK
  <2>. QED
    BY <1>4, <2>1, <2>2 DEF RequestFails, TypeOK, keyVars, dataVars
<1>5. CASE Expire(m)
  BY <1>5, IngestBounds DEF Expire, TypeOK, keyVars, dataVars
<1>. QED
  BY <1>1, <1>2, <1>3, <1>4, <1>5

\* So do those of the queue and of its workers ...
LEMMA QueueType ==
    ASSUME TypeOK, NEW w \in Workers,
           Take(w) \/ TakeExhausted(w) \/ Throw(w) \/ Crash(w) \/ Redeliver(w)
    PROVE  TypeOK'
<1>1. CASE Take(w)
  <2>1. PICK j \in Jobs :
            /\ queue[j] > 0
            /\ j.attempts < Tries
            /\ Put(j, -1)
            /\ work' = [work EXCEPT ![w] =
                          [kind |-> j.kind, msg |-> j.msg, attempts |-> j.attempts + 1,
                           pc |-> IF j.kind = "listener" THEN "event" ELSE "customer",
                           reserved |-> TRUE]]
    BY <1>1 DEF Take
  <2>2. queue' \in [Jobs -> Nat]
    BY <2>1 DEF TypeOK, Put
  <2>3. [kind |-> j.kind, msg |-> j.msg, attempts |-> j.attempts + 1,
         pc |-> IF j.kind = "listener" THEN "event" ELSE "customer",
         reserved |-> TRUE] \in Work
    BY <2>1, IngestBounds DEF Jobs, Work, ListenerPCs, ProcessPCs
  <2>4. work' \in [Workers -> Work \cup {Idle}]
    BY <2>1, <2>3 DEF TypeOK
  <2>. QED
    BY <1>1, <2>2, <2>4 DEF Take, TypeOK, hookVars, keyVars, dataVars, historyVars
<1>2. CASE TakeExhausted(w)
  <2>1. PICK j \in Jobs : queue[j] > 0 /\ Put(j, -1) /\ failed' = failed \cup {j.msg}
    BY <1>2 DEF TakeExhausted
  <2>2. queue' \in [Jobs -> Nat]
    BY <2>1 DEF TypeOK, Put
  <2>3. j.msg \in Messages
    BY DEF Jobs
  <2>. QED
    BY <1>2, <2>1, <2>2, <2>3 DEF TakeExhausted, TypeOK, hookVars, keyVars, dataVars
<1>3. CASE Throw(w)
  <2>1. interrupts' \in [Messages -> Nat]
    BY <1>3, InterruptedType DEF Throw
  <2>. QED
    BY <1>3, <2>1, ReleaseOrFailType DEF Throw, TypeOK, hookVars, keyVars, dataVars
<1>4. CASE Crash(w)
  <2>1. interrupts' \in [Messages -> Nat]
    BY <1>4, InterruptedType DEF Crash
  <2>2. queue' \in [Jobs -> Nat]
    BY <1>4, RunningType, PutType DEF Crash, TypeOK
  <2>. QED
    BY <1>4, <2>1, <2>2, DoneType DEF Crash, TypeOK, hookVars, keyVars, dataVars
<1>5. CASE Redeliver(w)
  <2>1. interrupts' \in [Messages -> Nat]
    BY <1>5, InterruptedType DEF Redeliver
  <2>2. queue' \in [Jobs -> Nat]
    BY <1>5, RunningType, PutType DEF Redeliver
  <2>3. work' \in [Workers -> Work \cup {Idle}]
    <3>1. work[w] \in Work
      BY <1>5, RunningType DEF Redeliver
    <3>2. [work[w] EXCEPT !.reserved = FALSE] \in Work
      BY <3>1 DEF Work
    <3>3. work' = [work EXCEPT ![w] = [work[w] EXCEPT !.reserved = FALSE]]
      BY <1>5 DEF Redeliver
    <3>. QED
      BY <3>2, <3>3 DEF TypeOK
  <2>. QED
    BY <1>5, <2>1, <2>2, <2>3 DEF Redeliver, TypeOK, hookVars, keyVars, dataVars
<1>. QED
  BY <1>1, <1>2, <1>3, <1>4, <1>5

\* ... those of the listener ...
LEMMA ListenerType ==
    ASSUME TypeOK, NEW w \in Workers, RunListener(w)
    PROVE  TypeOK'
<1>1. work[w] # Idle
  BY DEF RunListener, At, CheckEvent, MarkEvent, CheckMessage, ClaimMessage, Dispatch, ConfirmEvent
<1>2. work' \in [Workers -> Work \cup {Idle}]
  <2>1. Done(w) \/ \E pc \in ListenerPCs : Goto(w, pc)
    BY DEF RunListener, CheckEvent, MarkEvent, CheckMessage, ClaimMessage, Dispatch,
           ConfirmEvent, ListenerPCs
  <2>. QED
    BY <1>1, <2>1, DoneType, GotoType
<1>3. Msg(w) \in Messages
  BY <1>1, RunningType
<1>4. queue' \in [Jobs -> Nat] /\ dispatched' \in [Messages -> Nat]
  <2>1. CASE Dispatch(w)
    <3>1. queue' \in [Jobs -> Nat]
      BY <1>3, <2>1, PutType, NewJobType DEF Dispatch
    <3>2. dispatched' \in [Messages -> Nat]
      BY <2>1, CountType DEF Dispatch, TypeOK
    <3>. QED
      BY <3>1, <3>2
  <2>2. CASE ~Dispatch(w)
    BY <2>2 DEF RunListener, CheckEvent, MarkEvent, CheckMessage, ClaimMessage, ConfirmEvent,
                TypeOK, historyVars
  <2>. QED
    BY <2>1, <2>2
<1>5. eventKey' \subseteq Messages /\ processedKey' \subseteq Messages
  BY <1>3 DEF RunListener, CheckEvent, MarkEvent, CheckMessage, ClaimMessage, Dispatch,
              ConfirmEvent, TypeOK, keyVars
<1>6. UNCHANGED <<hookVars, dataVars, failed, accepted, interrupts, collided, expiries>>
  BY DEF RunListener, CheckEvent, MarkEvent, CheckMessage, ClaimMessage, Dispatch,
         ConfirmEvent, historyVars
<1>. QED
  BY <1>2, <1>4, <1>5, <1>6 DEF TypeOK, hookVars, dataVars

\* ... and those of the job.
LEMMA JobType ==
    ASSUME TypeOK, NEW w \in Workers, RunJob(w)
    PROVE  TypeOK'
<1>1. work[w] # Idle
  BY DEF RunJob, At, FindCustomer, CreateCustomer, FindSession, CreateSession, FindMessage,
         CreateMessage, RejectMessage, Reply, FinishJob
<1>2. Msg(w) \in Messages /\ Sender[Msg(w)] \in Customers
  BY <1>1, RunningType
<1>3. work' \in [Workers -> Work \cup {Idle}]
  <2>1. CASE RejectMessage(w)
    BY <1>1, <2>1, ReleaseOrFailType DEF RejectMessage
  <2>2. CASE ~RejectMessage(w)
    <3>1. Done(w) \/ \E pc \in ProcessPCs : Goto(w, pc)
      BY <2>2 DEF RunJob, FindCustomer, CreateCustomer, CatchDuplicateKey, FindSession,
                  CreateSession, FindMessage, CreateMessage, Reply, FinishJob, ProcessPCs
    <3>. QED
      BY <1>1, <3>1, DoneType, GotoType
  <2>. QED
    BY <2>1, <2>2
<1>4. queue' \in [Jobs -> Nat] /\ failed' \subseteq Messages
  <2>1. CASE RejectMessage(w)
    BY <1>1, <2>1, ReleaseOrFailType DEF RejectMessage
  <2>2. CASE ~RejectMessage(w)
    BY <2>2 DEF RunJob, FindCustomer, CreateCustomer, FindSession, CreateSession, FindMessage,
                CreateMessage, Reply, FinishJob, TypeOK, historyVars
  <2>. QED
    BY <2>1, <2>2
<1>5. customers' \subseteq Customers
  BY <1>2 DEF RunJob, FindCustomer, CreateCustomer, FindSession, CreateSession, FindMessage,
              CreateMessage, RejectMessage, Reply, FinishJob, TypeOK, dataVars
<1>6. sessions' \in [Customers -> Nat]
  BY CountType DEF RunJob, FindCustomer, CreateCustomer, FindSession, CreateSession, FindMessage,
              CreateMessage, RejectMessage, Reply, FinishJob, TypeOK, dataVars
<1>7. rows' \in [Messages -> Nat]
  BY DEF RunJob, FindCustomer, CreateCustomer, FindSession, CreateSession, FindMessage,
              CreateMessage, RejectMessage, Reply, FinishJob, TypeOK, dataVars
<1>8. replies' \in [Messages -> Nat]
  BY CountType DEF RunJob, FindCustomer, CreateCustomer, FindSession, CreateSession, FindMessage,
              CreateMessage, RejectMessage, Reply, FinishJob, TypeOK, dataVars
<1>9. collided' \subseteq Messages /\ processedKey' \subseteq Messages
  BY <1>2 DEF RunJob, FindCustomer, CreateCustomer, CatchDuplicateKey, FindSession, CreateSession,
              FindMessage, CreateMessage, RejectMessage, Reply, FinishJob, TypeOK,
              keyVars, historyVars
<1>10. UNCHANGED <<hookVars, eventKey, accepted, dispatched, interrupts, expiries>>
  BY DEF RunJob, FindCustomer, CreateCustomer, FindSession, CreateSession, FindMessage,
         CreateMessage, RejectMessage, Reply, FinishJob, keyVars, historyVars
<1>. QED
  BY <1>3, <1>4, <1>5, <1>6, <1>7, <1>8, <1>9, <1>10 DEF TypeOK, hookVars

LEMMA NextType == TypeOK /\ [Next]_vars => TypeOK'
<1>. SUFFICES ASSUME TypeOK, [Next]_vars
              PROVE  TypeOK'
  OBVIOUS
<1>1. CASE UNCHANGED vars
  BY <1>1 DEF vars, hookVars, keyVars, dataVars, historyVars, TypeOK
<1>2. CASE Next
  BY <1>2, RequestType, QueueType, ListenerType, JobType DEF Next, RequestStep, WorkerStep
<1>. QED
  BY <1>1, <1>2

\* Queue, workers, keys and tables keep their types through every delivery, retry,
\* crash and expiry: in particular no job runs more often than it may be tried.
THEOREM TypeCorrect == Spec => []TypeOK
<1>. QED
  BY InitType, NextType, PTL DEF Spec

-----------------------------------------------------------------------------
(* The steps of a job come in order, whatever the other workers do *)

\* What worker w has already made sure of when it is at a step of the job.
PhaseOrder(w) ==
    /\ At(w, "session") \/ At(w, "newSession") => Sender[Msg(w)] \in customers
    /\ At(w, "message") \/ At(w, "newMessage") => sessions[Sender[Msg(w)]] > 0
    /\ At(w, "reply") \/ At(w, "finish") => rows[Msg(w)] = 1

StepsInOrder ==
    /\ \A m \in Messages : rows[m] \in {0, 1}
    /\ \A w \in Workers : PhaseOrder(w)

\* The tables only grow: no step takes back what another worker relies on.
TablesGrow ==
    /\ customers \subseteq customers'
    /\ \A c \in Customers : sessions[c] <= sessions'[c]
    /\ \A m \in Messages : rows'[m] = rows[m] \/ rows'[m] = 1

\* Worker w takes a step and all others stay where they are.
LEMMA GotoStep ==
    ASSUME TypeOK, NEW w \in Workers, work[w] # Idle,
           NEW pc \in ListenerPCs \cup ProcessPCs, Goto(w, pc)
    PROVE  /\ work'[w].pc = pc
           /\ work'[w].msg = work[w].msg
           /\ \A v \in Workers \ {w} : work'[v] = work[v]
<1>1. work[w] \in Work
  BY DEF TypeOK
<1>2. work' = [work EXCEPT ![w] = [work[w] EXCEPT !.pc = pc]]
  BY DEF Goto
<1>. QED
  BY <1>1, <1>2 DEF Work, TypeOK

LEMMA OthersInOrder ==
    ASSUME TypeOK, TypeOK', StepsInOrder, TablesGrow, NEW w \in Workers,
           \A v \in Workers \ {w} : work'[v] = work[v],
           PhaseOrder(w)'
    PROVE  StepsInOrder'
<1>1. ASSUME NEW v \in Workers \ {w}
      PROVE  PhaseOrder(v)'
  <2>1. work'[v] = work[v] /\ PhaseOrder(v)
    BY DEF StepsInOrder
  <2>2. CASE work[v] = Idle
    BY <2>1, <2>2 DEF PhaseOrder, At
  <2>3. CASE work[v] # Idle
    <3>1. Msg(v) \in Messages /\ Sender[Msg(v)] \in Customers
      BY <2>3, RunningType
    <3>2. /\ Sender[Msg(v)] \in customers => Sender[Msg(v)] \in customers'
          /\ sessions[Sender[Msg(v)]] > 0 => sessions'[Sender[Msg(v)]] > 0
          /\ rows[Msg(v)] = 1 => rows'[Msg(v)] = 1
      BY <3>1 DEF TablesGrow, TypeOK
    <3>3. Msg(v)' = Msg(v) /\ \A pc : At(v, pc)' <=> At(v, pc)
      BY <2>1 DEF Msg, At
    <3>. QED
      BY <2>1, <3>2, <3>3 DEF PhaseOrder
  <2>. QED
    BY <2>2, <2>3
<1>2. \A m \in Messages : rows'[m] \in {0, 1}
  BY DEF TablesGrow, StepsInOrder
<1>. QED
  BY <1>1, <1>2 DEF StepsInOrder

LEMMA UnchangedTables ==
    ASSUME TypeOK, UNCHANGED dataVars
    PROVE  TablesGrow
  BY DEF TablesGrow, TypeOK, dataVars

LEMMA InitOrder == Init => StepsInOrder
  BY DEF Init, StepsInOrder, PhaseOrder, At

LEMMA IdleOrder ==
    ASSUME NEW w \in Workers, work[w] = Idle
    PROVE  PhaseOrder(w)
  BY DEF PhaseOrder, At

LEMMA SameWorkOrder ==
    ASSUME StepsInOrder, UNCHANGED <<work, dataVars>>
    PROVE  StepsInOrder'
  BY DEF StepsInOrder, PhaseOrder, At, Msg, dataVars

LEMMA DoneOrder ==
    ASSUME TypeOK, TypeOK', StepsInOrder, TablesGrow, NEW w \in Workers, Done(w)
    PROVE  StepsInOrder'
<1>1. work'[w] = Idle /\ \A v \in Workers \ {w} : work'[v] = work[v]
  BY DEF Done, TypeOK
<1>2. PhaseOrder(w)'
  BY <1>1 DEF PhaseOrder, At
<1>. QED
  BY <1>1, <1>2, OthersInOrder

LEMMA GotoOrder ==
    ASSUME TypeOK, TypeOK', StepsInOrder, TablesGrow, NEW w \in Workers, work[w] # Idle,
           NEW pc \in ListenerPCs \cup ProcessPCs, Goto(w, pc),
           pc \in {"session", "newSession"} => Sender[Msg(w)] \in customers',
           pc \in {"message", "newMessage"} => sessions'[Sender[Msg(w)]] > 0,
           pc \in {"reply", "finish"} => rows'[Msg(w)] = 1
    PROVE  StepsInOrder'
<1>1. /\ work'[w].pc = pc
      /\ work'[w].msg = work[w].msg
      /\ \A v \in Workers \ {w} : work'[v] = work[v]
  BY GotoStep
<1>2. PhaseOrder(w)'
  BY <1>1 DEF PhaseOrder, At, Msg
<1>. QED
  BY <1>1, <1>2, OthersInOrder

\* The queue and the listener leave the tables alone.
LEMMA QueueOrder ==
    ASSUME TypeOK, TypeOK', StepsInOrder, NEW w \in Workers,
           Take(w) \/ TakeExhausted(w) \/ Throw(w) \/ Crash(w) \/ Redeliver(w) \/ RunListener(w)
    PROVE  StepsInOrder' /\ UNCHANGED dataVars
<1>1. UNCHANGED dataVars
  BY DEF Take, TakeExhausted, Throw, Crash, Redeliver, RunListener, CheckEvent, MarkEvent,
         CheckMessage, ClaimMessage, Dispatch, ConfirmEvent
<1>2. TablesGrow
  BY <1>1, UnchangedTables
<1>3. CASE Take(w)
  <2>1. /\ work'[w].pc \in {"event", "customer"}
        /\ \A v \in Workers \ {w} : work'[v] = work[v]
    BY <1>3 DEF Take, TypeOK
  <2>2. PhaseOrder(w)'
    BY <2>1 DEF PhaseOrder, At
  <2>. QED
    BY <1>1, <1>2, <2>1, <2>2, OthersInOrder
<1>4. CASE TakeExhausted(w)
  BY <1>1, <1>4, SameWorkOrder DEF TakeExhausted
<1>5. CASE Throw(w) \/ Crash(w)
  BY <1>2, <1>5, DoneOrder DEF Throw, Crash, ReleaseOrFail
<1>6. CASE Redeliver(w)
  <2>1. work[w] \in Work /\ work' = [work EXCEPT ![w] = [work[w] EXCEPT !.reserved = FALSE]]
    BY <1>6, RunningType DEF Redeliver
  <2>2. /\ work'[w].pc = work[w].pc
        /\ work'[w].msg = work[w].msg
        /\ work[w] # Idle
        /\ \A v \in Workers \ {w} : work'[v] = work[v]
    BY <1>6, <2>1 DEF Redeliver, Work, TypeOK
  <2>3. PhaseOrder(w)
    BY DEF StepsInOrder
  <2>4. PhaseOrder(w)'
    BY <1>1, <2>2, <2>3 DEF PhaseOrder, At, Msg, dataVars
  <2>. QED
    BY <1>1, <1>2, <2>2, <2>4, OthersInOrder
<1>7. CASE RunListener(w)
  <2>1. work[w] # Idle
    BY <1>7 DEF RunListener, At, CheckEvent, MarkEvent, CheckMessage, ClaimMessage, Dispatch,
                ConfirmEvent
  <2>2. Done(w) \/ \E pc \in ListenerPCs : Goto(w, pc)
    BY <1>7 DEF RunListener, CheckEvent, MarkEvent, CheckMessage, ClaimMessage, Dispatch,
                ConfirmEvent, ListenerPCs
  <2>3. CASE Done(w)
    BY <1>1, <1>2, <2>3, DoneOrder
  <2>4. CASE \E pc \in ListenerPCs : Goto(w, pc)
    <3>1. PICK pc \in ListenerPCs : Goto(w, pc)
      BY <2>4
    <3>2. pc \notin {"session", "newSession", "message", "newMessage", "reply", "finish"}
      BY DEF ListenerPCs
    <3>. QED
      BY <1>1, <1>2, <2>1, <3>1, <3>2, GotoOrder
  <2>. QED
    BY <2>2, <2>3, <2>4
<1>. QED
  BY <1>1, <1>3, <1>4, <1>5, <1>6, <1>7

\* Each step of the job keeps the order, and is a step of the inbox or none.
LEMMA JobOrder ==
    ASSUME TypeOK, TypeOK', StepsInOrder, NEW w \in Workers, RunJob(w)
    PROVE  StepsInOrder' /\ [Inbox!Next]_(Inbox!vars)
<1>1. work[w] # Idle
  BY DEF RunJob, At, FindCustomer, CreateCustomer, FindSession, CreateSession, FindMessage,
         CreateMessage, RejectMessage, Reply, FinishJob
<1>2. Msg(w) \in Messages /\ Sender[Msg(w)] \in Customers
  BY <1>1, RunningType
<1>3. PhaseOrder(w)
  BY DEF StepsInOrder
<1>4. ProcessPCs \subseteq ListenerPCs \cup ProcessPCs
  OBVIOUS
<1>5. CASE FindCustomer(w)
  <2>1. UNCHANGED dataVars /\ TablesGrow
    BY <1>5, UnchangedTables DEF FindCustomer
  <2>2. PICK pc \in {"session", "newCustomer"} :
           Goto(w, pc) /\ (pc = "session" => Sender[Msg(w)] \in customers')
    BY <1>5 DEF FindCustomer, dataVars
  <2>3. StepsInOrder'
    BY <1>1, <2>1, <2>2, GotoOrder DEF ProcessPCs
  <2>. QED
    BY <2>1, <2>3 DEF Inbox!vars, dataVars
<1>6. CASE CreateCustomer(w)
  <2>1. UNCHANGED <<sessions, rows, replies>>
    BY <1>6 DEF CreateCustomer
  <2>2. CASE Sender[Msg(w)] \in customers /\ CatchDuplicateKey(w) /\ UNCHANGED customers
    <3>1. UNCHANGED dataVars /\ TablesGrow
      BY <2>1, <2>2, UnchangedTables DEF dataVars
    <3>. QED
      BY <2>2, <3>1, DoneOrder DEF CatchDuplicateKey, Inbox!vars, dataVars
  <2>3. CASE /\ Sender[Msg(w)] \notin customers
             /\ customers' = customers \cup {Sender[Msg(w)]}
             /\ Goto(w, "session")
    <3>1. TablesGrow
      BY <2>1, <2>3 DEF TablesGrow, TypeOK
    <3>2. StepsInOrder'
      BY <1>1, <2>3, <3>1, GotoOrder DEF ProcessPCs
    <3>3. Inbox!Meet(Sender[Msg(w)])
      BY <2>1, <2>3 DEF Inbox!Meet
    <3>. QED
      BY <1>2, <3>2, <3>3 DEF Inbox!Next
  <2>. QED
    BY <1>6, <2>2, <2>3 DEF CreateCustomer
<1>7. CASE FindSession(w)
  <2>1. UNCHANGED dataVars /\ TablesGrow
    BY <1>7, UnchangedTables DEF FindSession
  <2>2. Sender[Msg(w)] \in customers'
    BY <1>3, <1>7, <2>1 DEF FindSession, PhaseOrder, dataVars
  <2>3. PICK pc \in {"message", "newSession"} :
           Goto(w, pc) /\ (pc = "message" => sessions'[Sender[Msg(w)]] > 0)
    BY <1>7 DEF FindSession, dataVars
  <2>4. StepsInOrder'
    BY <1>1, <2>1, <2>2, <2>3, GotoOrder DEF ProcessPCs
  <2>. QED
    BY <2>1, <2>4 DEF Inbox!vars, dataVars
<1>8. CASE CreateSession(w)
  <2>1. /\ sessions' = [sessions EXCEPT ![Sender[Msg(w)]] = @ + 1]
        /\ UNCHANGED <<customers, rows, replies>>
        /\ Goto(w, "message")
    BY <1>8 DEF CreateSession
  <2>2. TablesGrow
    BY <2>1 DEF TablesGrow, TypeOK
  <2>3. sessions'[Sender[Msg(w)]] > 0
    BY <1>2, <2>1 DEF TypeOK
  <2>4. StepsInOrder'
    BY <1>1, <2>1, <2>2, <2>3, GotoOrder DEF ProcessPCs
  <2>5. Inbox!Open(Sender[Msg(w)])
    BY <1>3, <1>8, <2>1 DEF Inbox!Open, PhaseOrder, CreateSession
  <2>. QED
    BY <1>2, <2>4, <2>5 DEF Inbox!Next
<1>9. CASE FindMessage(w)
  <2>1. UNCHANGED dataVars /\ TablesGrow
    BY <1>9, UnchangedTables DEF FindMessage
  <2>2. /\ sessions'[Sender[Msg(w)]] > 0
        /\ rows[Msg(w)] \in {0, 1}
    BY <1>2, <1>3, <1>9, <2>1 DEF FindMessage, PhaseOrder, StepsInOrder, dataVars
  <2>3. PICK pc \in {"reply", "newMessage"} :
           Goto(w, pc) /\ (pc = "reply" => rows'[Msg(w)] = 1)
    BY <1>9, <2>2 DEF FindMessage, dataVars
  <2>4. StepsInOrder'
    BY <1>1, <2>1, <2>2, <2>3, GotoOrder DEF ProcessPCs
  <2>. QED
    BY <2>1, <2>4 DEF Inbox!vars, dataVars
<1>10. CASE CreateMessage(w)
  <2>1. /\ rows' = IF rows[Msg(w)] > 0 THEN rows ELSE [rows EXCEPT ![Msg(w)] = 1]
        /\ UNCHANGED <<customers, sessions, replies>>
        /\ Goto(w, "reply")
    BY <1>10 DEF CreateMessage
  <2>2. rows[Msg(w)] \in {0, 1} /\ sessions[Sender[Msg(w)]] > 0
    BY <1>2, <1>3, <1>10 DEF CreateMessage, PhaseOrder, StepsInOrder
  <2>3. TablesGrow /\ rows'[Msg(w)] = 1
    BY <1>2, <2>1, <2>2 DEF TablesGrow, TypeOK
  <2>4. StepsInOrder'
    BY <1>1, <2>1, <2>3, GotoOrder DEF ProcessPCs
  <2>5. CASE rows[Msg(w)] = 0
    <3>1. Inbox!Record(Msg(w))
      BY <2>1, <2>2, <2>5 DEF Inbox!Record
    <3>. QED
      BY <1>2, <2>4, <3>1 DEF Inbox!Next
  <2>6. CASE rows[Msg(w)] = 1
    BY <2>1, <2>4, <2>6 DEF Inbox!vars
  <2>. QED
    BY <2>2, <2>5, <2>6
<1>11. CASE RejectMessage(w)
  <2>1. UNCHANGED dataVars /\ TablesGrow
    BY <1>11, UnchangedTables DEF RejectMessage
  <2>2. StepsInOrder'
    BY <1>11, <2>1, DoneOrder DEF RejectMessage, ReleaseOrFail
  <2>. QED
    BY <2>1, <2>2 DEF Inbox!vars, dataVars
<1>12. CASE Reply(w)
  <2>1. /\ replies' = [replies EXCEPT ![Msg(w)] = @ + 1] \/ UNCHANGED replies
        /\ UNCHANGED <<customers, sessions, rows>>
        /\ Goto(w, "finish")
    BY <1>12 DEF Reply
  <2>2. TablesGrow
    BY <2>1 DEF TablesGrow, TypeOK
  <2>3. rows[Msg(w)] = 1
    BY <1>3, <1>12 DEF Reply, PhaseOrder
  <2>4. StepsInOrder'
    BY <1>1, <2>1, <2>2, <2>3, GotoOrder DEF ProcessPCs
  <2>5. Inbox!Answer(Msg(w)) \/ UNCHANGED Inbox!vars
    BY <2>1, <2>3 DEF Inbox!Answer, Inbox!vars
  <2>. QED
    BY <1>2, <2>4, <2>5 DEF Inbox!Next
<1>13. CASE FinishJob(w)
  <2>1. UNCHANGED dataVars /\ TablesGrow
    BY <1>13, UnchangedTables DEF FinishJob
  <2>2. StepsInOrder'
    BY <1>13, <2>1, DoneOrder DEF FinishJob
  <2>. QED
    BY <2>1, <2>2 DEF Inbox!vars, dataVars
<1>. QED
  BY <1>5, <1>6, <1>7, <1>8, <1>9, <1>10, <1>11, <1>12, <1>13 DEF RunJob

LEMMA NextOrder ==
    ASSUME TypeOK, TypeOK', StepsInOrder, [Next]_vars
    PROVE  StepsInOrder' /\ [Inbox!Next]_(Inbox!vars)
<1>1. CASE UNCHANGED <<work, dataVars>>
  BY <1>1, SameWorkOrder DEF Inbox!vars, dataVars
<1>2. ASSUME NEW w \in Workers,
             Take(w) \/ TakeExhausted(w) \/ Throw(w) \/ Crash(w) \/ Redeliver(w) \/ RunListener(w)
      PROVE  StepsInOrder' /\ [Inbox!Next]_(Inbox!vars)
  BY <1>2, QueueOrder DEF Inbox!vars, dataVars
<1>3. ASSUME NEW m \in Messages, Receive(m) \/ RequestStep(m) \/ RequestFails(m) \/ Expire(m)
      PROVE  UNCHANGED <<work, dataVars>>
  BY <1>3 DEF Receive, RequestStep, LogWebhook, FireEvent, RequestFails, Expire
<1>4. CASE UNCHANGED vars
  BY <1>1, <1>4 DEF vars
<1>. QED
  BY <1>1, <1>2, <1>3, <1>4, JobOrder DEF Next, WorkerStep

\* Every behaviour of the ingest is one of MessageInbox, whatever is delivered twice,
\* redelivered, retried or interrupted: a message is recorded once and in a session of
\* a customer that exists, and only recorded messages are answered.
THEOREM RefinesInbox == Spec => ImplementsInbox
<1>1. Init => Inbox!Init
  BY DEF Init, Inbox!Init
<1>2. TypeOK /\ TypeOK' /\ StepsInOrder /\ [Next]_vars => StepsInOrder'
  BY NextOrder
<1>3. TypeOK /\ TypeOK' /\ StepsInOrder /\ [Next]_vars => [Inbox!Next]_(Inbox!vars)
  BY NextOrder
<1>. QED
  BY <1>1, <1>2, <1>3, InitOrder, TypeCorrect, PTL DEF Spec, ImplementsInbox, Inbox!Spec

\* A step of the inbox never takes away what another row stands on.
LEMMA InboxCoherent == Inbox!Spec => []Inbox!Coherent
<1>. DEFINE Counts == /\ sessions \in [Customers -> Nat]
                      /\ rows \in [Messages -> Nat]
                      /\ replies \in [Messages -> Nat]
<1>1. Inbox!Init => Counts /\ Inbox!Coherent
  BY DEF Inbox!Init, Inbox!Coherent
<1>2. Counts /\ Inbox!Coherent /\ [Inbox!Next]_(Inbox!vars) => Counts' /\ Inbox!Coherent'
  <2>. SUFFICES ASSUME Counts, Inbox!Coherent, [Inbox!Next]_(Inbox!vars)
                PROVE  Counts' /\ Inbox!Coherent'
    OBVIOUS
  <2>1. \A m \in Messages : Sender[m] \in Customers
    BY SenderAssumption
  <2>2. ASSUME NEW c \in Customers, Inbox!Meet(c)
        PROVE  Counts' /\ Inbox!Coherent'
    BY <2>2 DEF Inbox!Meet, Inbox!Coherent
  <2>3. ASSUME NEW c \in Customers, Inbox!Open(c)
        PROVE  Counts' /\ Inbox!Coherent'
    BY <2>1, <2>3 DEF Inbox!Open, Inbox!Coherent
  <2>4. ASSUME NEW m \in Messages, Inbox!Record(m)
        PROVE  Counts' /\ Inbox!Coherent'
    BY <2>4 DEF Inbox!Record, Inbox!Coherent
  <2>5. ASSUME NEW m \in Messages, Inbox!Answer(m)
        PROVE  Counts' /\ Inbox!Coherent'
    BY <2>5 DEF Inbox!Answer, Inbox!Coherent
  <2>6. CASE UNCHANGED Inbox!vars
    BY <2>6 DEF Inbox!vars, Inbox!Coherent
  <2>. QED
    BY <2>2, <2>3, <2>4, <2>5, <2>6 DEF Inbox!Next
<1>. HIDE DEF Counts
<1>. QED
  BY <1>1, <1>2, PTL DEF Inbox!Spec

\* At no moment, between whatever statements of whatever jobs, does a reader of the
\* tables find an answer to a message that is not there, a message of a customer who
\* has no session, or a session of nobody.
THEOREM TablesCoherent == Spec => []Inbox!Coherent
  BY RefinesInbox, InboxCoherent, PTL DEF ImplementsInbox

-----------------------------------------------------------------------------
(* The number of active sessions of a customer *)

\* The workers about to create a session for customer c.
Opening(c) == {w \in Workers : At(w, "newSession") /\ Sender[Msg(w)] = c}

\* A session for each of them is already provided for: a worker can only join them
\* while the customer has no session.
SessionsCovered ==
    \A c \in Customers : sessions[c] + Cardinality(Opening(c)) <= Cardinality(Workers)

LEMMA OpeningSize ==
    ASSUME NEW c
    PROVE  /\ Cardinality(Opening(c)) \in Nat
           /\ Cardinality(Opening(c)) <= Cardinality(Workers)
           /\ IsFiniteSet(Opening(c))
           /\ Cardinality(Workers) \in Nat
<1>1. Opening(c) \in SUBSET Workers
  BY DEF Opening
<1>. QED
  BY <1>1, IngestBounds, FS_Subset, FS_CardinalityType

LEMMA OpeningSizePrime ==
    ASSUME NEW c
    PROVE  /\ Cardinality(Opening(c)') \in Nat
           /\ Cardinality(Opening(c)') <= Cardinality(Workers)
<1>1. Opening(c)' \in SUBSET Workers
  BY DEF Opening
<1>. QED
  BY <1>1, IngestBounds, FS_Subset, FS_CardinalityType

LEMMA InitCovered == Init => SessionsCovered
<1>. SUFFICES ASSUME Init, NEW c \in Customers
              PROVE  sessions[c] + Cardinality(Opening(c)) <= Cardinality(Workers)
  BY DEF SessionsCovered
<1>. QED
  BY OpeningSize DEF Init

\* A customer without a new session, and whom no worker has joined, stays covered.
LEMMA StillCovered ==
    ASSUME TypeOK, SessionsCovered, NEW c \in Customers, sessions'[c] = sessions[c],
           \A v \in Workers : At(v, "newSession")' /\ Sender[Msg(v)'] = c =>
                At(v, "newSession") /\ Msg(v)' = Msg(v)
    PROVE  sessions'[c] + Cardinality(Opening(c)') <= Cardinality(Workers)
<1>1. Opening(c)' \subseteq Opening(c)
  BY DEF Opening
<1>2. Cardinality(Opening(c)') <= Cardinality(Opening(c))
  BY <1>1, OpeningSize, FS_Subset
<1>3. sessions[c] \in Nat /\ sessions[c] + Cardinality(Opening(c)) <= Cardinality(Workers)
  BY DEF TypeOK, SessionsCovered
<1>. QED
  BY <1>2, <1>3, OpeningSize, OpeningSizePrime

\* A step in which no worker goes to "newSession" or creates a session.
LEMMA NobodyOpens ==
    ASSUME TypeOK, SessionsCovered, UNCHANGED sessions,
           \A v \in Workers : At(v, "newSession")' => At(v, "newSession") /\ Msg(v)' = Msg(v)
    PROVE  SessionsCovered'
<1>1. ASSUME NEW c \in Customers
      PROVE  sessions'[c] + Cardinality(Opening(c)') <= Cardinality(Workers)
  BY StillCovered
<1>. QED
  BY <1>1 DEF SessionsCovered

LEMMA DoneCovered ==
    ASSUME TypeOK, SessionsCovered, NEW w \in Workers, Done(w), UNCHANGED sessions
    PROVE  SessionsCovered'
<1>1. work'[w] = Idle /\ \A v \in Workers \ {w} : work'[v] = work[v]
  BY DEF Done, TypeOK
<1>2. \A v \in Workers : At(v, "newSession")' => At(v, "newSession") /\ Msg(v)' = Msg(v)
  BY <1>1 DEF At, Msg
<1>. QED
  BY <1>2, NobodyOpens

LEMMA GotoCovered ==
    ASSUME TypeOK, SessionsCovered, NEW w \in Workers, work[w] # Idle,
           NEW pc \in ListenerPCs \cup ProcessPCs, pc # "newSession", Goto(w, pc),
           UNCHANGED sessions
    PROVE  SessionsCovered'
<1>1. work'[w].pc = pc /\ \A v \in Workers \ {w} : work'[v] = work[v]
  BY GotoStep
<1>2. \A v \in Workers : At(v, "newSession")' => At(v, "newSession") /\ Msg(v)' = Msg(v)
  BY <1>1 DEF At, Msg
<1>. QED
  BY <1>2, NobodyOpens

\* The step that looks for a session: a worker goes on to create one only while there
\* is none, and then the workers themselves bound how many will be created.
LEMMA FindSessionCovered ==
    ASSUME TypeOK, SessionsCovered, NEW w \in Workers, FindSession(w)
    PROVE  SessionsCovered'
<1>1. UNCHANGED sessions /\ work[w] # Idle
  BY DEF FindSession, dataVars, At
<1>2. CASE sessions[Sender[Msg(w)]] > 0
  BY <1>1, <1>2, GotoCovered DEF FindSession, ProcessPCs
<1>3. CASE ~(sessions[Sender[Msg(w)]] > 0)
  <2>1. Goto(w, "newSession")
    BY <1>3 DEF FindSession
  <2>2. Msg(w)' = Msg(w) /\ \A v \in Workers \ {w} : work'[v] = work[v]
    BY <1>1, <2>1, GotoStep DEF Msg, ProcessPCs
  <2>3. ASSUME NEW c \in Customers
        PROVE  sessions'[c] + Cardinality(Opening(c)') <= Cardinality(Workers)
    <3>1. CASE c = Sender[Msg(w)]
      <4>1. sessions'[c] = 0
        BY <1>1, <1>3, <3>1 DEF TypeOK
      <4>. QED
        BY <4>1, OpeningSize, OpeningSizePrime
    <3>2. CASE c # Sender[Msg(w)]
      <4>1. \A v \in Workers : At(v, "newSession")' /\ Sender[Msg(v)'] = c =>
                At(v, "newSession") /\ Msg(v)' = Msg(v)
        BY <2>2, <3>2 DEF At, Msg
      <4>. QED
        BY <1>1, <4>1, StillCovered
    <3>. QED
      BY <3>1, <3>2
  <2>. QED
    BY <2>3 DEF SessionsCovered
<1>. QED
  BY <1>2, <1>3

\* The step that creates one: the customer has one session more, and one worker less
\* that is about to create another.
LEMMA CreateSessionCovered ==
    ASSUME TypeOK, SessionsCovered, NEW w \in Workers, CreateSession(w)
    PROVE  SessionsCovered'
<1>1. /\ At(w, "newSession") /\ work[w] # Idle
      /\ sessions' = [sessions EXCEPT ![Sender[Msg(w)]] = @ + 1]
      /\ Goto(w, "message")
  BY DEF CreateSession, At
<1>2. work'[w].pc = "message" /\ \A v \in Workers \ {w} : work'[v] = work[v]
  BY <1>1, GotoStep DEF ProcessPCs
<1>3. \A v \in Workers : At(v, "newSession")' => At(v, "newSession") /\ Msg(v)' = Msg(v)
  BY <1>2 DEF At, Msg
<1>4. ASSUME NEW c \in Customers
      PROVE  sessions'[c] + Cardinality(Opening(c)') <= Cardinality(Workers)
  <2>1. CASE c = Sender[Msg(w)]
    <3>1. sessions[c] \in Nat /\ sessions'[c] = sessions[c] + 1
      BY <1>1, <2>1 DEF TypeOK
    <3>2. w \in Opening(c) /\ Opening(c)' = Opening(c) \ {w}
      BY <1>1, <1>2, <2>1 DEF Opening, At, Msg
    <3>3. Cardinality(Opening(c)') = Cardinality(Opening(c)) - 1
      BY <3>2, OpeningSize, FS_RemoveElement
    <3>. QED
      BY <3>1, <3>3, OpeningSize DEF SessionsCovered
  <2>2. CASE c # Sender[Msg(w)]
    <3>1. sessions'[c] = sessions[c]
      BY <1>1, <2>2 DEF TypeOK
    <3>. QED
      BY <1>3, <3>1, StillCovered
  <2>. QED
    BY <2>1, <2>2
<1>. QED
  BY <1>4 DEF SessionsCovered

\* All other steps.
LEMMA QueueCovered ==
    ASSUME TypeOK, SessionsCovered, NEW w \in Workers,
           Take(w) \/ TakeExhausted(w) \/ Throw(w) \/ Crash(w) \/ Redeliver(w)
    PROVE  SessionsCovered'
<1>1. UNCHANGED sessions
  BY DEF Take, TakeExhausted, Throw, Crash, Redeliver, dataVars
<1>2. CASE Take(w)
  <2>1. work'[w].pc # "newSession" /\ \A v \in Workers \ {w} : work'[v] = work[v]
    BY <1>2 DEF Take, TypeOK
  <2>2. \A v \in Workers : At(v, "newSession")' => At(v, "newSession") /\ Msg(v)' = Msg(v)
    BY <2>1 DEF At, Msg
  <2>. QED
    BY <1>1, <2>2, NobodyOpens
<1>3. CASE TakeExhausted(w)
  BY <1>1, <1>3, NobodyOpens DEF TakeExhausted, At, Msg
<1>4. CASE Throw(w) \/ Crash(w)
  BY <1>1, <1>4, DoneCovered DEF Throw, Crash, ReleaseOrFail
<1>5. CASE Redeliver(w)
  <2>1. work[w] \in Work /\ work' = [work EXCEPT ![w] = [work[w] EXCEPT !.reserved = FALSE]]
    BY <1>5, RunningType DEF Redeliver
  <2>2. \A v \in Workers : /\ At(v, "newSession")' => At(v, "newSession")
                           /\ Msg(v)' = Msg(v)
    BY <1>5, <2>1 DEF Redeliver, Work, TypeOK, At, Msg
  <2>. QED
    BY <1>1, <2>2, NobodyOpens
<1>. QED
  BY <1>2, <1>3, <1>4, <1>5

LEMMA NextCovered ==
    ASSUME TypeOK, SessionsCovered, [Next]_vars
    PROVE  SessionsCovered'
<1>1. CASE UNCHANGED <<work, sessions>>
  BY <1>1, NobodyOpens DEF At, Msg
<1>2. ASSUME NEW m \in Messages, Receive(m) \/ RequestStep(m) \/ RequestFails(m) \/ Expire(m)
      PROVE  UNCHANGED <<work, sessions>>
  BY <1>2 DEF Receive, RequestStep, LogWebhook, FireEvent, RequestFails, Expire, dataVars
<1>3. ASSUME NEW w \in Workers, RunListener(w) \/ RunJob(w)
      PROVE  SessionsCovered'
  <2>1. CASE FindSession(w)
    BY <2>1, FindSessionCovered
  <2>2. CASE CreateSession(w)
    BY <2>2, CreateSessionCovered
  <2>3. CASE ~FindSession(w) /\ ~CreateSession(w)
    <3>1. UNCHANGED sessions /\ work[w] # Idle
      BY <1>3, <2>3 DEF RunListener, CheckEvent, MarkEvent, CheckMessage, ClaimMessage, Dispatch,
            ConfirmEvent, RunJob, FindCustomer, CreateCustomer, FindMessage, CreateMessage,
            RejectMessage, Reply, FinishJob, dataVars, At
    <3>2. Done(w) \/ \E pc \in (ListenerPCs \cup ProcessPCs) \ {"newSession"} : Goto(w, pc)
      BY <1>3, <2>3 DEF RunListener, CheckEvent, MarkEvent, CheckMessage, ClaimMessage, Dispatch,
            ConfirmEvent, RunJob, FindCustomer, CreateCustomer, CatchDuplicateKey, FindMessage,
            CreateMessage, RejectMessage, ReleaseOrFail, Reply, FinishJob, ListenerPCs, ProcessPCs
    <3>. QED
      BY <3>1, <3>2, DoneCovered, GotoCovered
  <2>. QED
    BY <2>1, <2>2, <2>3
<1>4. CASE UNCHANGED vars
  BY <1>1, <1>4 DEF vars, dataVars
<1>. QED
  BY <1>1, <1>2, <1>3, <1>4, QueueCovered DEF Next, WorkerStep

\* Looking for an active session and creating one are two statements, and nothing locks
\* them; all the same a customer never gets more active sessions than there are workers.
THEOREM SessionsSafe == Spec => []SessionsBounded
<1>1. TypeOK /\ SessionsCovered /\ [Next]_vars => SessionsCovered'
  BY NextCovered
<1>2. TypeOK /\ SessionsCovered => SessionsBounded
  <2>. SUFFICES ASSUME TypeOK, SessionsCovered, NEW c \in Customers
                PROVE  sessions[c] <= Cardinality(Workers)
    BY DEF SessionsBounded
  <2>1. sessions[c] \in Nat /\ sessions[c] + Cardinality(Opening(c)) <= Cardinality(Workers)
    BY DEF TypeOK, SessionsCovered
  <2>. QED
    BY <2>1, OpeningSize
<1>. QED
  BY <1>1, <1>2, InitCovered, TypeCorrect, PTL DEF Spec

-----------------------------------------------------------------------------
(* Tries *)

\* Every delivery of a job but its first follows an interruption of its message.
Tried(m) ==
    /\ \A j \in Jobs : j.msg = m /\ queue[j] > 0 => j.attempts <= interrupts[m]
    /\ \A w \in Workers :
          work[w] # Idle /\ Msg(w) = m => work[w].attempts <= interrupts[m] + 1
    /\ m \in failed => interrupts[m] >= Tries

TriesCounted == \A m \in Messages \ Unsupported : Tried(m)

LEMMA PutCount ==
    ASSUME TypeOK, NEW j \in Jobs, NEW n, Put(j, n)
    PROVE  \A i \in Jobs : queue'[i] = IF i = j THEN queue[i] + n ELSE queue[i]
  BY DEF TypeOK, Put

LEMMA InterruptedCount ==
    ASSUME TypeOK, NEW m \in Messages, Interrupted(m)
    PROVE  /\ interrupts[m] \in Nat /\ interrupts'[m] = interrupts[m] + 1
           /\ \A m2 \in Messages \ {m} : interrupts'[m2] = interrupts[m2]
  BY DEF TypeOK, Interrupted

LEMMA KeptTries ==
    ASSUME TypeOK, TypeOK', TriesCounted,
           \A m \in Messages : interrupts'[m] >= interrupts[m],
           \A j \in Jobs : j.msg \notin Unsupported /\ queue'[j] > 0
                              => queue[j] > 0 \/ j.attempts <= interrupts'[j.msg],
           \A w \in Workers : work'[w] # Idle =>
               \/ /\ work[w] # Idle
                  /\ work'[w].msg = work[w].msg /\ work'[w].attempts = work[w].attempts
               \/ Msg(w)' \notin Unsupported => work'[w].attempts <= interrupts'[Msg(w)'] + 1,
           \A m \in failed' \ Unsupported : m \in failed \/ interrupts'[m] >= Tries
    PROVE  TriesCounted'
<1>. SUFFICES ASSUME NEW m \in Messages \ Unsupported
              PROVE  Tried(m)'
  BY DEF TriesCounted
<1>0. interrupts[m] \in Nat /\ interrupts'[m] \in Nat /\ Tries \in Nat /\ Tried(m)
  BY IngestBounds DEF TypeOK, TriesCounted
<1>1. ASSUME NEW j \in Jobs, j.msg = m, queue'[j] > 0
      PROVE  j.attempts <= interrupts'[m]
  <2>1. j.attempts \in Nat
    BY IngestBounds DEF Jobs
  <2>. QED
    BY <1>0, <1>1, <2>1 DEF Tried
<1>2. ASSUME NEW w \in Workers, work'[w] # Idle, Msg(w)' = m
      PROVE  work'[w].attempts <= interrupts'[m] + 1
  <2>1. CASE /\ work[w] # Idle
             /\ work'[w].msg = work[w].msg /\ work'[w].attempts = work[w].attempts
    <3>1. work[w].attempts \in Nat /\ Msg(w) = m
      BY <1>2, <2>1, IngestBounds DEF TypeOK, Work, Msg
    <3>. QED
      BY <1>0, <2>1, <3>1 DEF Tried
  <2>. QED
    BY <1>2, <2>1
<1>3. m \in failed' => interrupts'[m] >= Tries
  BY <1>0 DEF Tried
<1>. QED
  BY <1>1, <1>2, <1>3 DEF Tried

LEMMA InitTries == Init => TriesCounted
  BY DEF Init, TriesCounted, Tried

LEMMA SameTries ==
    ASSUME TypeOK, TypeOK', TriesCounted, UNCHANGED <<queue, work, failed, interrupts>>
    PROVE  TriesCounted'
<1>1. \A m \in Messages : interrupts'[m] >= interrupts[m]
  BY DEF TypeOK
<1>. QED
  BY <1>1, KeptTries

LEMMA RequestTries ==
    ASSUME TypeOK, TypeOK', TriesCounted, NEW m \in Messages,
           Receive(m) \/ RequestStep(m) \/ RequestFails(m) \/ Expire(m)
    PROVE  TriesCounted'
<1>1. CASE FireEvent(m)
  <2>1. UNCHANGED <<work, failed, interrupts>> /\ Put(NewJob("listener", m), ListenerCopies)
    BY <1>1 DEF FireEvent
  <2>2. NewJob("listener", m) \in Jobs /\ NewJob("listener", m).attempts = 0
    BY NewJobType DEF NewJob
  <2>3. \A j \in Jobs : j.msg \in Messages /\ interrupts[j.msg] \in Nat
    BY DEF Jobs, TypeOK
  <2>4. \A j \in Jobs : queue'[j] > 0 => queue[j] > 0 \/ j.attempts <= interrupts'[j.msg]
    BY <2>1, <2>2, <2>3, PutCount
  <2>5. \A m2 \in Messages : interrupts'[m2] >= interrupts[m2]
    BY <2>1 DEF TypeOK
  <2>. QED
    BY <2>1, <2>4, <2>5, KeptTries
<1>2. CASE Receive(m) \/ LogWebhook(m) \/ RequestFails(m) \/ Expire(m)
  <2>1. UNCHANGED <<work, failed, queue>> /\ (UNCHANGED interrupts \/ Interrupted(m))
    BY <1>2 DEF Receive, LogWebhook, RequestFails, Expire
  <2>2. \A m2 \in Messages : interrupts'[m2] >= interrupts[m2]
    BY <2>1, InterruptedCount DEF TypeOK
  <2>. QED
    BY <2>1, <2>2, KeptTries
<1>. QED
  BY <1>1, <1>2 DEF RequestStep

\* A worker that lets go of its job, or of its delivery, after an interruption.
LEMMA InterruptedTries ==
    ASSUME TypeOK, TypeOK', TriesCounted, NEW w \in Workers,
           Throw(w) \/ Crash(w) \/ Redeliver(w)
    PROVE  TriesCounted'
<1>1. work[w] # Idle /\ Interrupted(Msg(w))
  BY DEF Throw, Crash, Redeliver
<1>2. /\ work[w] \in Work /\ Msg(w) \in Messages /\ JobOf(work[w]) \in Jobs
      /\ JobOf(work[w]).attempts = work[w].attempts /\ JobOf(work[w]).msg = Msg(w)
      /\ work[w].attempts \in Nat /\ Tries \in Nat
  BY <1>1, RunningType, IngestBounds DEF JobOf, Msg, Work
<1>3. \A m \in Messages : interrupts'[m] >= interrupts[m]
  BY <1>1, <1>2, InterruptedCount DEF TypeOK
<1>4. Msg(w) \notin Unsupported => work[w].attempts <= interrupts'[Msg(w)]
  BY <1>1, <1>2, InterruptedCount DEF TriesCounted, Tried
<1>5. /\ Put(JobOf(work[w]), 1) \/ UNCHANGED queue
      /\ failed' = failed \/ (work[w].attempts = Tries /\ failed' = failed \cup {Msg(w)})
  BY DEF Throw, ReleaseOrFail, Crash, Redeliver
<1>6. \A v \in Workers : work'[v] # Idle =>
          /\ work[v] # Idle
          /\ work'[v].msg = work[v].msg /\ work'[v].attempts = work[v].attempts
  <2>1. CASE Done(w)
    BY <2>1 DEF Done, TypeOK
  <2>2. CASE Redeliver(w)
    <3>1. work' = [work EXCEPT ![w] = [work[w] EXCEPT !.reserved = FALSE]]
      BY <2>2 DEF Redeliver
    <3>. QED
      BY <1>1, <1>2, <3>1 DEF TypeOK, Work
  <2>. QED
    BY <2>1, <2>2 DEF Throw, ReleaseOrFail, Crash
<1>7. \A j \in Jobs : j.msg \notin Unsupported /\ queue'[j] > 0
                         => queue[j] > 0 \/ j.attempts <= interrupts'[j.msg]
  BY <1>2, <1>4, <1>5, PutCount
<1>8. \A m \in failed' \ Unsupported : m \in failed \/ interrupts'[m] >= Tries
  BY <1>2, <1>4, <1>5
<1>. QED
  BY <1>3, <1>6, <1>7, <1>8, KeptTries

LEMMA TakeTries ==
    ASSUME TypeOK, TypeOK', TriesCounted, NEW w \in Workers, Take(w) \/ TakeExhausted(w)
    PROVE  TriesCounted'
<1>0. \A m \in Messages : interrupts'[m] >= interrupts[m]
  BY DEF Take, TakeExhausted, historyVars, TypeOK
<1>1. CASE Take(w)
  <2>1. PICK j \in Jobs :
            /\ queue[j] > 0
            /\ Put(j, -1)
            /\ work' = [work EXCEPT ![w] =
                          [kind |-> j.kind, msg |-> j.msg, attempts |-> j.attempts + 1,
                           pc |-> IF j.kind = "listener" THEN "event" ELSE "customer",
                           reserved |-> TRUE]]
    BY <1>1 DEF Take
  <2>2. /\ work'[w].msg = j.msg /\ work'[w].attempts = j.attempts + 1
        /\ \A v \in Workers \ {w} : work'[v] = work[v]
    BY <2>1 DEF TypeOK
  <2>3. j.msg \in Messages /\ j.attempts \in Nat /\ interrupts[j.msg] \in Nat
    BY IngestBounds DEF Jobs, TypeOK
  <2>4. j.msg \notin Unsupported => j.attempts <= interrupts[j.msg]
    BY <2>1, <2>3 DEF TriesCounted, Tried
  <2>5. UNCHANGED <<interrupts, failed>>
    BY <1>1 DEF Take, historyVars
  <2>6. \A i \in Jobs : queue'[i] > 0 => queue[i] > 0
    BY <2>1, PutCount DEF TypeOK
  <2>7. Msg(w)' \notin Unsupported => work'[w].attempts <= interrupts'[Msg(w)'] + 1
    BY <2>2, <2>3, <2>4, <2>5 DEF Msg
  <2>. QED
    BY <1>0, <2>2, <2>5, <2>6, <2>7, KeptTries
<1>2. CASE TakeExhausted(w)
  <2>1. PICK j \in Jobs : /\ queue[j] > 0 /\ j.attempts = Tries
                          /\ Put(j, -1) /\ failed' = failed \cup {j.msg}
    BY <1>2 DEF TakeExhausted
  <2>2. UNCHANGED <<interrupts, work>> /\ j.msg \in Messages
    BY <1>2 DEF TakeExhausted, Jobs
  <2>3. j.msg \notin Unsupported => interrupts'[j.msg] >= Tries
    BY <2>1, <2>2, IngestBounds DEF TriesCounted, Tried, TypeOK
  <2>4. \A i \in Jobs : queue'[i] > 0 => queue[i] > 0
    BY <2>1, PutCount DEF TypeOK
  <2>. QED
    BY <1>0, <2>1, <2>2, <2>3, <2>4, KeptTries
<1>. QED
  BY <1>1, <1>2

LEMMA RunTries ==
    ASSUME TypeOK, TypeOK', TriesCounted, NEW w \in Workers, RunListener(w) \/ RunJob(w)
    PROVE  TriesCounted'
<1>1. work[w] # Idle /\ UNCHANGED interrupts
  BY DEF RunListener, At, CheckEvent, MarkEvent, CheckMessage, ClaimMessage, Dispatch, ConfirmEvent,
         RunJob, FindCustomer, CreateCustomer, FindSession, CreateSession, FindMessage,
         CreateMessage, RejectMessage, Reply, FinishJob, historyVars
<1>2. /\ work[w] \in Work /\ Msg(w) \in Messages /\ JobOf(work[w]) \in Jobs
      /\ JobOf(work[w]).msg = Msg(w)
  BY <1>1, RunningType DEF JobOf, Msg
<1>3. \A m \in Messages : interrupts'[m] >= interrupts[m]
  BY <1>1 DEF TypeOK
<1>4. \A v \in Workers : work'[v] # Idle =>
          /\ work[v] # Idle
          /\ work'[v].msg = work[v].msg /\ work'[v].attempts = work[v].attempts
  <2>1. Done(w) \/ \E pc \in ListenerPCs \cup ProcessPCs : Goto(w, pc)
    BY DEF RunListener, CheckEvent, MarkEvent, CheckMessage, ClaimMessage, Dispatch, ConfirmEvent,
           RunJob, FindCustomer, CreateCustomer, CatchDuplicateKey, FindSession, CreateSession,
           FindMessage, CreateMessage, RejectMessage, ReleaseOrFail, Reply, FinishJob,
           ListenerPCs, ProcessPCs
  <2>2. CASE Done(w)
    BY <2>2 DEF Done, TypeOK
  <2>3. ASSUME NEW pc \in ListenerPCs \cup ProcessPCs, Goto(w, pc)
        PROVE  \A v \in Workers : work'[v] # Idle =>
                  /\ work[v] # Idle
                  /\ work'[v].msg = work[v].msg /\ work'[v].attempts = work[v].attempts
    <3>1. work' = [work EXCEPT ![w] = [work[w] EXCEPT !.pc = pc]]
      BY <2>3 DEF Goto
    <3>. QED
      BY <1>1, <1>2, <3>1 DEF TypeOK, Work
  <2>. QED
    BY <2>1, <2>2, <2>3
<1>5. CASE Dispatch(w)
  <2>1. Put(NewJob("process", Msg(w)), 1) /\ UNCHANGED failed
    BY <1>5 DEF Dispatch
  <2>2. NewJob("process", Msg(w)) \in Jobs /\ NewJob("process", Msg(w)).attempts = 0
    BY <1>2, NewJobType DEF NewJob
  <2>3. \A j \in Jobs : j.msg \in Messages /\ interrupts'[j.msg] \in Nat
    BY <1>1 DEF Jobs, TypeOK
  <2>4. \A j \in Jobs : queue'[j] > 0 => queue[j] > 0 \/ j.attempts <= interrupts'[j.msg]
    BY <2>1, <2>2, <2>3, PutCount
  <2>. QED
    BY <1>3, <1>4, <2>1, <2>4, KeptTries
<1>6. CASE RejectMessage(w)
  <2>1. /\ Msg(w) \in Unsupported
        /\ Put(JobOf(work[w]), 1) \/ UNCHANGED queue
        /\ failed' = failed \/ failed' = failed \cup {Msg(w)}
    BY <1>6 DEF RejectMessage, ReleaseOrFail
  <2>2. \A j \in Jobs : j.msg \notin Unsupported /\ queue'[j] > 0 => queue[j] > 0
    BY <1>2, <2>1, PutCount
  <2>. QED
    BY <1>3, <1>4, <2>1, <2>2, KeptTries
<1>7. CASE ~Dispatch(w) /\ ~RejectMessage(w)
  <2>1. UNCHANGED <<queue, failed>>
    BY <1>7 DEF RunListener, CheckEvent, MarkEvent, CheckMessage, ClaimMessage, ConfirmEvent,
           RunJob, FindCustomer, CreateCustomer, FindSession, CreateSession,
           FindMessage, CreateMessage, Reply, FinishJob, historyVars
  <2>. QED
    BY <1>3, <1>4, <2>1, KeptTries
<1>. QED
  BY <1>5, <1>6, <1>7

LEMMA NextTries ==
    ASSUME TypeOK, TypeOK', TriesCounted, [Next]_vars
    PROVE  TriesCounted'
<1>1. CASE UNCHANGED vars
  BY <1>1, SameTries DEF vars, historyVars
<1>. QED
  BY <1>1, RequestTries, InterruptedTries, TakeTries, RunTries DEF Next, WorkerStep

\* However deliveries, crashes, redeliveries and retries mix, a job fails for good only when
\* each of its tries was interrupted.
THEOREM RetriesSafe == Spec => []RetriesHonoured
<1>1. TypeOK /\ TriesCounted => RetriesHonoured
  BY DEF TriesCounted, Tried, RetriesHonoured, TypeOK
<1>2. TypeOK /\ TypeOK' /\ TriesCounted /\ [Next]_vars => TriesCounted'
  BY NextTries
<1>. QED
  BY <1>1, <1>2, InitTries, TypeCorrect, PTL DEF Spec

-----------------------------------------------------------------------------
(* Losses *)

Queued(kind, m) == queue[NewJob(kind, m)] > 0
RunsAt(m, pcs) == \E w \in Workers : work[w] # Idle /\ Msg(w) = m /\ work[w].pc \in pcs

\* How far the handling of m is assured, if nothing interrupts it: a job will
\* record it, a listener will dispatch that job, a listener that has marked the
\* event will, or something will that has been asked for.
Recording(m) == rows[m] > 0 \/ Queued("process", m) \/ RunsAt(m, ProcessPCs)
Claimed(m) == Recording(m) \/ RunsAt(m, {"dispatch"})
Marked(m) == Claimed(m) \/ RunsAt(m, {"check", "claim"})
Begun(m) ==
    \/ Marked(m)
    \/ RunsAt(m, {"event", "mark"})
    \/ Queued("listener", m)
    \/ checked[m] > 0 \/ logged[m] > 0

Smooth(m) == interrupts[m] = 0 /\ m \notin collided /\ m \notin Unsupported

\* Whatever makes a duplicate check turn a delivery away stands for one that is
\* further on.
Assured(m) ==
    /\ deliveries[m] > 0 \/ m \in webhookLog => Begun(m)
    /\ m \in eventKey => Marked(m)
    /\ m \in processedKey => Claimed(m)
    /\ RunsAt(m, {"confirm"}) => Recording(m)

LossInv == \A m \in Messages : Smooth(m) => Assured(m)

LEMMA SmoothBefore ==
    ASSUME TypeOK, [Next]_vars, NEW m \in Messages, Smooth(m)'
    PROVE  Smooth(m) /\ interrupts'[m] = interrupts[m]
<1>0. interrupts[m] \in Nat
  BY DEF TypeOK
<1>1. interrupts'[m] >= interrupts[m] /\ collided \subseteq collided'
  <2>1. CASE UNCHANGED vars
    BY <1>0, <2>1 DEF vars, historyVars
  <2>2. ASSUME NEW m2 \in Messages,
               Receive(m2) \/ RequestStep(m2) \/ RequestFails(m2) \/ Expire(m2)
        PROVE  interrupts'[m] >= interrupts[m] /\ collided \subseteq collided'
    <3>1. collided' = collided /\ (UNCHANGED interrupts \/ Interrupted(m2))
      BY <2>2 DEF Receive, RequestStep, LogWebhook, FireEvent, RequestFails, Expire
    <3>. QED
      BY <1>0, <3>1, InterruptedCount
  <2>3. ASSUME NEW w \in Workers, Throw(w) \/ Crash(w) \/ Redeliver(w)
        PROVE  interrupts'[m] >= interrupts[m] /\ collided \subseteq collided'
    <3>1. Interrupted(Msg(w)) /\ collided' = collided /\ Msg(w) \in Messages
      BY <2>3, RunningType DEF Throw, Crash, Redeliver
    <3>. QED
      BY <1>0, <3>1, InterruptedCount
  <2>4. ASSUME NEW w \in Workers, WorkerStep(w)
        PROVE  interrupts'[m] >= interrupts[m] /\ collided \subseteq collided'
    <3>1. UNCHANGED interrupts /\ collided \subseteq collided'
      BY <2>4 DEF WorkerStep, Take, TakeExhausted, RunListener, CheckEvent, MarkEvent,
         CheckMessage, ClaimMessage, Dispatch, ConfirmEvent, RunJob, FindCustomer,
         CreateCustomer, CatchDuplicateKey, FindSession, CreateSession, FindMessage,
         CreateMessage, RejectMessage, Reply, FinishJob, historyVars
    <3>. QED
      BY <1>0, <3>1
  <2>. QED
    BY <2>1, <2>2, <2>3, <2>4 DEF Next
<1>. QED
  BY <1>0, <1>1 DEF Smooth

\* Nothing that assures m goes, and no check turns more deliveries away.
LEMMA KeptAssured ==
    ASSUME NEW m \in Messages, Assured(m),
           deliveries'[m] = deliveries[m],
           m \in webhookLog' => m \in webhookLog,
           m \in eventKey' => m \in eventKey,
           m \in processedKey' => m \in processedKey,
           rows[m] > 0 => rows'[m] > 0,
           checked[m] > 0 => checked'[m] > 0,
           logged[m] > 0 => logged'[m] > 0,
           Queued("listener", m) => Queued("listener", m)',
           Queued("process", m) => Queued("process", m)',
           \A v \in Workers : (work[v] # Idle /\ Msg(v) = m) \/ (work'[v] # Idle /\ Msg(v)' = m)
                                 => work'[v] = work[v]
    PROVE  Assured(m)'
<1>1. ASSUME NEW pcs
      PROVE  RunsAt(m, pcs)' <=> RunsAt(m, pcs)
  BY DEF RunsAt, Msg
<1>. QED
  BY <1>1 DEF Assured, Begun, Marked, Claimed, Recording

LEMMA GotoRuns ==
    ASSUME TypeOK, NEW w \in Workers, work[w] # Idle, NEW m \in Messages, Msg(w) = m,
           NEW pc \in ListenerPCs \cup ProcessPCs, Goto(w, pc), NEW pcs
    PROVE  /\ pc \in pcs => RunsAt(m, pcs)'
           /\ RunsAt(m, pcs) /\ work[w].pc \notin pcs => RunsAt(m, pcs)'
           /\ RunsAt(m, pcs)' /\ pc \notin pcs => RunsAt(m, pcs)
<1>1. /\ work'[w].pc = pc /\ work'[w].msg = m
      /\ \A v \in Workers \ {w} : work'[v] = work[v]
  BY GotoStep DEF Msg
<1>2. work'[w] # Idle
  BY GotoType, IdleAssumption DEF TypeOK, Goto, Work
<1>. QED
  BY <1>1, <1>2 DEF RunsAt, Msg

LEMMA DoneRuns ==
    ASSUME TypeOK, NEW w \in Workers, work[w] # Idle, NEW m \in Messages, Msg(w) = m,
           Done(w), NEW pcs
    PROVE  /\ RunsAt(m, pcs) /\ work[w].pc \notin pcs => RunsAt(m, pcs)'
           /\ RunsAt(m, pcs)' => RunsAt(m, pcs)
<1>1. work'[w] = Idle /\ \A v \in Workers \ {w} : work'[v] = work[v]
  BY DEF Done, TypeOK
<1>. QED
  BY <1>1 DEF RunsAt, Msg

\* A worker that goes on takes what it assures along, or leaves it done.
LEMMA GotoLevels ==
    ASSUME TypeOK, NEW w \in Workers, work[w] # Idle, NEW m \in Messages, Msg(w) = m,
           NEW pc \in ListenerPCs \cup ProcessPCs, Goto(w, pc),
           rows[m] > 0 => rows'[m] > 0, UNCHANGED <<checked, logged>>,
           Queued("listener", m) => Queued("listener", m)',
           Queued("process", m) => Queued("process", m)',
           work[w].pc \in ProcessPCs => pc \in ProcessPCs,
           work[w].pc = "dispatch" => Queued("process", m)',
           work[w].pc \in {"check", "claim"} => pc \in {"claim", "dispatch"},
           work[w].pc \in {"event", "mark"} => pc \in {"mark", "check"}
    PROVE  /\ Recording(m) => Recording(m)'
           /\ Claimed(m) => Claimed(m)'
           /\ Marked(m) => Marked(m)'
           /\ Begun(m) => Begun(m)'
           /\ RunsAt(m, {"confirm"})' => RunsAt(m, {"confirm"}) \/ pc = "confirm"
<1>1. Recording(m) => Recording(m)'
  <2>1. RunsAt(m, ProcessPCs) => RunsAt(m, ProcessPCs)'
    BY GotoRuns
  <2>. QED
    BY <2>1 DEF Recording
<1>2. RunsAt(m, {"dispatch"}) => Claimed(m)'
  <2>1. work[w].pc # "dispatch" /\ RunsAt(m, {"dispatch"}) => RunsAt(m, {"dispatch"})'
    BY GotoRuns
  <2>. QED
    BY <2>1 DEF Claimed, Recording
<1>3. RunsAt(m, {"check", "claim"}) => Marked(m)'
  <2>1. work[w].pc \notin {"check", "claim"} /\ RunsAt(m, {"check", "claim"})
            => RunsAt(m, {"check", "claim"})'
    BY GotoRuns
  <2>2. pc = "claim" => RunsAt(m, {"check", "claim"})'
    BY GotoRuns
  <2>3. pc = "dispatch" => RunsAt(m, {"dispatch"})'
    BY GotoRuns
  <2>. QED
    BY <2>1, <2>2, <2>3 DEF Marked, Claimed
<1>4. RunsAt(m, {"event", "mark"}) => Begun(m)'
  <2>1. work[w].pc \notin {"event", "mark"} /\ RunsAt(m, {"event", "mark"})
            => RunsAt(m, {"event", "mark"})'
    BY GotoRuns
  <2>2. pc = "mark" => RunsAt(m, {"event", "mark"})'
    BY GotoRuns
  <2>3. pc = "check" => RunsAt(m, {"check", "claim"})'
    BY GotoRuns
  <2>. QED
    BY <2>1, <2>2, <2>3 DEF Begun, Marked
<1>5. RunsAt(m, {"confirm"})' => RunsAt(m, {"confirm"}) \/ pc = "confirm"
  BY GotoRuns
<1>. QED
  BY <1>1, <1>2, <1>3, <1>4, <1>5 DEF Begun, Marked, Claimed

\* One that ends leaves what it assured to another.
LEMMA DoneLevels ==
    ASSUME TypeOK, NEW w \in Workers, work[w] # Idle, NEW m \in Messages, Msg(w) = m,
           Done(w), UNCHANGED <<rows, queue, checked, logged>>,
           work[w].pc \in ProcessPCs => rows[m] > 0,
           work[w].pc # "dispatch",
           work[w].pc \in {"check", "claim"} => Claimed(m),
           work[w].pc \in {"event", "mark"} => Marked(m)
    PROVE  /\ Recording(m) => Recording(m)'
           /\ Claimed(m) => Claimed(m)'
           /\ Marked(m) => Marked(m)'
           /\ Begun(m) => Begun(m)'
           /\ RunsAt(m, {"confirm"})' => RunsAt(m, {"confirm"})
<1>0. /\ Queued("listener", m)' <=> Queued("listener", m)
      /\ Queued("process", m)' <=> Queued("process", m)
  BY DEF Queued
<1>1. Recording(m) => Recording(m)'
  <2>1. RunsAt(m, ProcessPCs) /\ work[w].pc \notin ProcessPCs => RunsAt(m, ProcessPCs)'
    BY DoneRuns
  <2>. QED
    BY <1>0, <2>1 DEF Recording
<1>2. Claimed(m) => Claimed(m)'
  <2>1. RunsAt(m, {"dispatch"}) => RunsAt(m, {"dispatch"})'
    BY DoneRuns
  <2>. QED
    BY <1>1, <2>1 DEF Claimed
<1>3. Marked(m) => Marked(m)'
  <2>1. RunsAt(m, {"check", "claim"}) /\ work[w].pc \notin {"check", "claim"}
            => RunsAt(m, {"check", "claim"})'
    BY DoneRuns
  <2>. QED
    BY <1>2, <2>1 DEF Marked
<1>4. Begun(m) => Begun(m)'
  <2>1. RunsAt(m, {"event", "mark"}) /\ work[w].pc \notin {"event", "mark"}
            => RunsAt(m, {"event", "mark"})'
    BY DoneRuns
  <2>. QED
    BY <1>0, <1>3, <2>1 DEF Begun
<1>5. RunsAt(m, {"confirm"})' => RunsAt(m, {"confirm"})
  BY DoneRuns
<1>. QED
  BY <1>1, <1>2, <1>3, <1>4, <1>5

LEMMA ListenerAssured ==
    ASSUME TypeOK, NEW w \in Workers, NEW m \in Messages, Msg(w) = m, Assured(m), RunListener(w)
    PROVE  Assured(m)'
<1>0. work[w] # Idle
  BY DEF RunListener, At, CheckEvent, MarkEvent, CheckMessage, ClaimMessage, Dispatch, ConfirmEvent
<1>. USE DEF At, Assured
<1>. DEFINE Levels == /\ Recording(m) => Recording(m)'
                      /\ Claimed(m) => Claimed(m)'
                      /\ Marked(m) => Marked(m)'
                      /\ Begun(m) => Begun(m)'
<1>1. CASE CheckEvent(w)
  <2>1. UNCHANGED <<rows, queue, checked, logged, deliveries, webhookLog, eventKey, processedKey>>
    BY <1>1 DEF CheckEvent, hookVars, keyVars, dataVars
  <2>2. CASE m \in eventKey /\ Done(w)
    BY <1>0, <1>1, <2>1, <2>2, DoneLevels DEF CheckEvent, ProcessPCs
  <2>3. CASE Goto(w, "mark")
    BY <1>0, <1>1, <2>1, <2>3, GotoLevels DEF CheckEvent, ProcessPCs, ListenerPCs, Queued
  <2>. QED
    BY <1>1, <2>2, <2>3 DEF CheckEvent
<1>2. CASE MarkEvent(w)
  <2>1. /\ UNCHANGED <<rows, queue, checked, logged, deliveries, webhookLog, processedKey>>
        /\ Goto(w, "check") /\ work[w].pc = "mark"
    BY <1>2 DEF MarkEvent, hookVars, dataVars
  <2>2. RunsAt(m, {"check", "claim"})'
    BY <1>0, <2>1, GotoRuns DEF ListenerPCs
  <2>3. Levels /\ (RunsAt(m, {"confirm"})' => RunsAt(m, {"confirm"}))
    BY <1>0, <2>1, GotoLevels DEF ProcessPCs, ListenerPCs, Queued
  <2>. QED
    BY <2>1, <2>2, <2>3 DEF Marked
<1>3. CASE CheckMessage(w)
  <2>1. /\ UNCHANGED <<rows, queue, checked, logged, deliveries, webhookLog, eventKey>>
        /\ work[w].pc = "check"
    BY <1>3 DEF CheckMessage, hookVars, dataVars
  <2>2. CASE (m \in processedKey \/ rows[m] > 0) /\ Done(w)
    <3>1. Claimed(m)
      BY <2>2 DEF Claimed, Recording
    <3>2. Levels /\ (RunsAt(m, {"confirm"})' => RunsAt(m, {"confirm"}))
      BY <1>0, <2>1, <2>2, <3>1, DoneLevels DEF ProcessPCs
    <3>. QED
      BY <2>1, <3>1, <3>2
  <2>3. CASE Goto(w, "claim") /\ UNCHANGED processedKey
    <3>1. Levels /\ (RunsAt(m, {"confirm"})' => RunsAt(m, {"confirm"}))
      BY <1>0, <2>1, <2>3, GotoLevels DEF ProcessPCs, ListenerPCs, Queued
    <3>. QED
      BY <2>1, <2>3, <3>1
  <2>. QED
    BY <1>3, <2>2, <2>3 DEF CheckMessage
<1>4. CASE ClaimMessage(w)
  <2>1. /\ UNCHANGED <<rows, queue, checked, logged, deliveries, webhookLog, eventKey>>
        /\ Goto(w, "dispatch") /\ work[w].pc = "claim"
    BY <1>4 DEF ClaimMessage, hookVars, dataVars
  <2>2. RunsAt(m, {"dispatch"})'
    BY <1>0, <2>1, GotoRuns DEF ListenerPCs
  <2>3. Levels /\ (RunsAt(m, {"confirm"})' => RunsAt(m, {"confirm"}))
    BY <1>0, <2>1, GotoLevels DEF ProcessPCs, ListenerPCs, Queued
  <2>. QED
    BY <2>1, <2>2, <2>3 DEF Claimed
<1>5. CASE Dispatch(w)
  <2>1. /\ UNCHANGED <<rows, checked, logged, deliveries, webhookLog, eventKey, processedKey>>
        /\ Goto(w, "confirm") /\ work[w].pc = "dispatch"
        /\ Put(NewJob("process", m), 1)
    BY <1>5 DEF Dispatch, hookVars, keyVars, dataVars
  <2>2. /\ Queued("listener", m) => Queued("listener", m)'
        /\ Queued("process", m)'
    BY <2>1, NewJobType, PutCount DEF Queued, TypeOK
  <2>3. Levels
    BY <1>0, <2>1, <2>2, GotoLevels DEF ProcessPCs, ListenerPCs
  <2>. QED
    BY <2>1, <2>2, <2>3 DEF Recording
<1>6. CASE ConfirmEvent(w)
  <2>1. /\ UNCHANGED <<rows, queue, checked, logged, deliveries, webhookLog, processedKey>>
        /\ Done(w) /\ work[w].pc = "confirm"
    BY <1>6 DEF ConfirmEvent, hookVars, dataVars
  <2>2. RunsAt(m, {"confirm"})
    BY <1>0, <2>1 DEF RunsAt
  <2>3. Levels
    BY <1>0, <2>1, DoneLevels DEF ProcessPCs
  <2>4. Marked(m)'
    BY <2>2, <2>3 DEF Marked, Claimed
  <2>. QED
    BY <1>0, <2>1, <2>2, <2>3, <2>4, DoneRuns
<1>. QED
  BY <1>1, <1>2, <1>3, <1>4, <1>5, <1>6 DEF RunListener

LEMMA JobAssured ==
    ASSUME TypeOK, StepsInOrder, NEW w \in Workers, NEW m \in Messages, Msg(w) = m,
           Assured(m), RunJob(w), Smooth(m)'
    PROVE  Assured(m)'
<1>0. work[w] # Idle
  BY DEF RunJob, At, FindCustomer, CreateCustomer, FindSession, CreateSession, FindMessage,
         CreateMessage, RejectMessage, Reply, FinishJob
<1>1. work[w].pc \in ProcessPCs
  BY DEF RunJob, At, FindCustomer, CreateCustomer, FindSession, CreateSession, FindMessage,
         CreateMessage, RejectMessage, Reply, FinishJob, ProcessPCs
<1>. DEFINE Levels == /\ Recording(m) => Recording(m)'
                      /\ Claimed(m) => Claimed(m)'
                      /\ Marked(m) => Marked(m)'
                      /\ Begun(m) => Begun(m)'
                      /\ RunsAt(m, {"confirm"})' => RunsAt(m, {"confirm"})
<1>2. ~RejectMessage(w)
  BY DEF Smooth, RejectMessage
<1>3. CASE FinishJob(w)
  <2>1. /\ UNCHANGED <<rows, queue, checked, logged, deliveries, webhookLog, eventKey>>
        /\ Done(w) /\ work[w].pc = "finish"
    BY <1>3 DEF FinishJob, At, hookVars, dataVars
  <2>2. rows[m] = 1
    BY <1>0, <2>1 DEF StepsInOrder, PhaseOrder, At
  <2>3. Levels
    BY <1>0, <2>1, <2>2, DoneLevels DEF ProcessPCs
  <2>4. Recording(m)'
    BY <2>2, <2>3 DEF Recording
  <2>. QED
    BY <2>1, <2>3, <2>4 DEF Assured, Claimed
<1>4. CASE ~FinishJob(w)
  <2>1. /\ UNCHANGED <<queue, checked, logged, deliveries, webhookLog, eventKey, processedKey>>
        /\ \E pc \in ProcessPCs : Goto(w, pc)
    BY <1>2, <1>4 DEF RunJob, FindCustomer, CreateCustomer, CatchDuplicateKey, FindSession,
       CreateSession, FindMessage, CreateMessage, Reply, hookVars, keyVars, ProcessPCs, Smooth
  <2>2. rows[m] > 0 => rows'[m] > 0
    BY <1>2, <1>4 DEF RunJob, FindCustomer, CreateCustomer, FindSession, CreateSession,
       FindMessage, CreateMessage, Reply, dataVars
  <2>3. /\ "dispatch" \notin ProcessPCs /\ "confirm" \notin ProcessPCs
        /\ \A pc \in {"check", "claim", "event", "mark"} : pc \notin ProcessPCs
    BY DEF ProcessPCs
  <2>4. Levels
    BY <1>0, <1>1, <2>1, <2>2, <2>3, GotoLevels DEF Queued
  <2>. QED
    BY <2>1, <2>4 DEF Assured
<1>. QED
  BY <1>3, <1>4

LEMMA RequestAssured ==
    ASSUME TypeOK, NEW m \in Messages, Assured(m), interrupts'[m] = interrupts[m],
           NEW m2 \in Messages,
           Receive(m2) \/ RequestStep(m2) \/ RequestFails(m2) \/ Expire(m2)
    PROVE  Assured(m)'
<1>0. work' = work /\ rows' = rows
  BY DEF Receive, RequestStep, LogWebhook, FireEvent, RequestFails, Expire, dataVars
<1>. DEFINE Same == \A pcs : RunsAt(m, pcs)' <=> RunsAt(m, pcs)
<1>1. Same
  BY <1>0 DEF RunsAt, Msg
<1>2. CASE Receive(m2)
  <2>1. /\ UNCHANGED <<queue, logged, webhookLog, eventKey, processedKey>>
        /\ checked[m] > 0 => checked'[m] > 0
        /\ deliveries'[m] # deliveries[m] =>
               rows[m] > 0 \/ m \in webhookLog \/ checked'[m] > 0
    BY <1>2 DEF Receive, KnownToWebhook, keyVars, TypeOK
  <2>2. Begun(m) => Begun(m)'
    BY <1>0, <1>1, <2>1 DEF Begun, Marked, Claimed, Recording, Queued
  <2>3. rows[m] > 0 \/ checked'[m] > 0 => Begun(m)'
    BY <1>0 DEF Begun, Marked, Claimed, Recording
  <2>. QED
    BY <1>0, <1>1, <2>1, <2>2, <2>3 DEF Assured, Marked, Claimed, Recording, Queued
<1>3. CASE LogWebhook(m2)
  <2>1. /\ UNCHANGED <<queue, deliveries, eventKey, processedKey>>
        /\ checked[m] > 0 => checked'[m] > 0 \/ logged'[m] > 0
        /\ logged[m] > 0 => logged'[m] > 0
        /\ m \in webhookLog' => m \in webhookLog \/ logged'[m] > 0
    BY <1>3 DEF LogWebhook, keyVars, TypeOK
  <2>. QED
    BY <1>0, <1>1, <2>1 DEF Assured, Begun, Marked, Claimed, Recording, Queued
<1>4. CASE FireEvent(m2)
  <2>1. /\ UNCHANGED <<deliveries, checked, webhookLog, eventKey, processedKey>>
        /\ Put(NewJob("listener", m2), ListenerCopies)
        /\ m2 # m => logged'[m] = logged[m]
    BY <1>4 DEF FireEvent, keyVars, TypeOK
  <2>2. /\ NewJob("listener", m2) \in Jobs
        /\ NewJob("listener", m) \in Jobs /\ NewJob("process", m) \in Jobs
    BY NewJobType
  <2>3. /\ Queued("listener", m) => Queued("listener", m)'
        /\ Queued("process", m) => Queued("process", m)'
        /\ m2 = m => Queued("listener", m)'
    BY <2>1, <2>2, PutCount, IngestBounds DEF Queued, TypeOK
  <2>. QED
    BY <1>0, <1>1, <2>1, <2>3 DEF Assured, Begun, Marked, Claimed, Recording
<1>5. CASE RequestFails(m2)
  <2>1. Interrupted(m2) /\ UNCHANGED <<queue, deliveries, webhookLog, eventKey, processedKey>>
    BY <1>5 DEF RequestFails, keyVars
  <2>2. m2 # m
    BY <2>1, InterruptedCount
  <2>3. checked'[m] = checked[m] /\ logged'[m] = logged[m]
    BY <1>5, <2>2 DEF RequestFails, TypeOK
  <2>. QED
    BY <1>0, <1>1, <2>1, <2>3 DEF Assured, Begun, Marked, Claimed, Recording, Queued
<1>6. CASE Expire(m2)
  <2>1. /\ UNCHANGED <<queue, deliveries, checked, logged>>
        /\ webhookLog' \subseteq webhookLog /\ eventKey' \subseteq eventKey
        /\ processedKey' \subseteq processedKey
    BY <1>6 DEF Expire, keyVars
  <2>. QED
    BY <1>0, <1>1, <2>1 DEF Assured, Begun, Marked, Claimed, Recording, Queued
<1>. QED
  BY <1>2, <1>3, <1>4, <1>5, <1>6 DEF RequestStep

\* A fresh job that is taken is with a worker now; one tried before assured nothing.
LEMMA TakeAssured ==
    ASSUME TypeOK, NEW m \in Messages, Assured(m), NEW w \in Workers, Take(w)
    PROVE  Assured(m)'
<1>1. PICK j \in Jobs :
          /\ j.attempts < Tries
          /\ Put(j, -1)
          /\ work' = [work EXCEPT ![w] =
                        [kind |-> j.kind, msg |-> j.msg, attempts |-> j.attempts + 1,
                         pc |-> IF j.kind = "listener" THEN "event" ELSE "customer",
                         reserved |-> TRUE]]
  BY DEF Take
<1>2. UNCHANGED <<deliveries, checked, logged, webhookLog, eventKey, processedKey, rows>>
  BY DEF Take, hookVars, keyVars, dataVars
<1>3. /\ work[w] = Idle
      /\ work'[w].msg = j.msg
      /\ work'[w].pc = IF j.kind = "listener" THEN "event" ELSE "customer"
      /\ \A v \in Workers \ {w} : work'[v] = work[v]
  BY <1>1 DEF Take, TypeOK
<1>4. work'[w] # Idle
  <2>1. [kind |-> j.kind, msg |-> j.msg, attempts |-> j.attempts + 1,
         pc |-> IF j.kind = "listener" THEN "event" ELSE "customer",
         reserved |-> TRUE] \in Work
    BY <1>1, IngestBounds DEF Jobs, Work, ListenerPCs, ProcessPCs
  <2>. QED
    BY <1>1, <2>1, IdleAssumption DEF TypeOK
<1>5. \A pcs : RunsAt(m, pcs) => RunsAt(m, pcs)'
  BY <1>3 DEF RunsAt, Msg
<1>6. RunsAt(m, {"confirm"})' => RunsAt(m, {"confirm"})
  BY <1>3 DEF RunsAt, Msg
<1>7. \A kind \in {"listener", "process"} :
          Queued(kind, m) /\ j # NewJob(kind, m) => Queued(kind, m)'
  BY <1>1, NewJobType, PutCount DEF Queued
<1>8. j = NewJob("listener", m) => RunsAt(m, {"event", "mark"})'
  BY <1>3, <1>4 DEF RunsAt, Msg, NewJob
<1>9. j = NewJob("process", m) => RunsAt(m, ProcessPCs)'
  BY <1>3, <1>4 DEF RunsAt, Msg, NewJob, ProcessPCs
<1>. QED
  BY <1>2, <1>5, <1>6, <1>7, <1>8, <1>9 DEF Assured, Begun, Marked, Claimed, Recording

\* A worker whose job is of another message.
LEMMA OtherWorkerAssured ==
    ASSUME TypeOK, NEW m \in Messages, Assured(m), NEW w \in Workers,
           work[w] # Idle, Msg(w) # m,
           RunListener(w) \/ RunJob(w) \/ Throw(w) \/ Crash(w) \/ Redeliver(w)
    PROVE  Assured(m)'
<1>1. Msg(w) \in Messages /\ JobOf(work[w]) \in Jobs /\ JobOf(work[w]).msg = Msg(w)
  BY RunningType DEF JobOf, Msg
<1>2. \A v \in Workers \ {w} : work'[v] = work[v]
  BY DEF RunListener, RunJob, CheckEvent, MarkEvent, CheckMessage, ClaimMessage, Dispatch,
         ConfirmEvent, FindCustomer, CreateCustomer, CatchDuplicateKey, FindSession, CreateSession,
         FindMessage, CreateMessage, RejectMessage, ReleaseOrFail, Reply, FinishJob, Throw, Crash,
         Redeliver, Done, Goto, TypeOK
<1>3. work'[w] # Idle => Msg(w)' # m
  <2>1. CASE Done(w)
    BY <2>1 DEF Done, TypeOK
  <2>2. ASSUME NEW pc \in ListenerPCs \cup ProcessPCs, Goto(w, pc)
        PROVE  Msg(w)' # m
    BY <2>2, GotoStep DEF Msg
  <2>3. CASE Redeliver(w)
    <3>1. work[w] \in Work /\ work' = [work EXCEPT ![w] = [work[w] EXCEPT !.reserved = FALSE]]
      BY <2>3, RunningType DEF Redeliver
    <3>. QED
      BY <3>1 DEF Work, TypeOK, Msg
  <2>. QED
    BY <2>1, <2>2, <2>3
       DEF RunListener, RunJob, CheckEvent, MarkEvent, CheckMessage, ClaimMessage, Dispatch,
           ConfirmEvent, FindCustomer, CreateCustomer, CatchDuplicateKey, FindSession,
           CreateSession, FindMessage, CreateMessage, RejectMessage, ReleaseOrFail, Reply,
           FinishJob, Throw, Crash, ListenerPCs, ProcessPCs
<1>4. \/ UNCHANGED queue
      \/ Put(NewJob("process", Msg(w)), 1)
      \/ Put(JobOf(work[w]), 1)
  BY DEF RunListener, RunJob, CheckEvent, MarkEvent, CheckMessage, ClaimMessage, Dispatch,
         ConfirmEvent, FindCustomer, CreateCustomer, FindSession, CreateSession,
         FindMessage, CreateMessage, RejectMessage, ReleaseOrFail, Reply, FinishJob, Throw, Crash,
         Redeliver
<1>5. /\ Queued("listener", m)' <=> Queued("listener", m)
      /\ Queued("process", m)' <=> Queued("process", m)
  <2>1. \A kind \in {"listener", "process"} :
            NewJob(kind, m) \in Jobs /\ NewJob(kind, m).msg = m
    BY NewJobType DEF NewJob
  <2>2. NewJob("process", Msg(w)) \in Jobs /\ NewJob("process", Msg(w)).msg = Msg(w)
    BY <1>1, NewJobType DEF NewJob
  <2>. QED
    BY <1>1, <1>4, <2>1, <2>2, PutCount DEF Queued
<1>6. /\ UNCHANGED <<deliveries, checked, logged, webhookLog>>
      /\ m \in eventKey' => m \in eventKey
      /\ m \in processedKey' => m \in processedKey
  BY DEF RunListener, RunJob, CheckEvent, MarkEvent, CheckMessage, ClaimMessage, Dispatch,
         ConfirmEvent, FindCustomer, CreateCustomer, CatchDuplicateKey, FindSession, CreateSession,
         FindMessage, CreateMessage, RejectMessage, Reply, FinishJob, Throw, Crash, Redeliver,
         hookVars, keyVars
<1>7. rows'[m] = rows[m]
  BY DEF RunListener, RunJob, CheckEvent, MarkEvent, CheckMessage, ClaimMessage, Dispatch,
         ConfirmEvent, FindCustomer, CreateCustomer, FindSession, CreateSession,
         FindMessage, CreateMessage, RejectMessage, Reply, FinishJob, Throw, Crash, Redeliver,
         dataVars, TypeOK
<1>8. \A v \in Workers : (work[v] # Idle /\ Msg(v) = m) \/ (work'[v] # Idle /\ Msg(v)' = m)
                            => work'[v] = work[v]
  BY <1>2, <1>3
<1>. QED
  BY <1>5, <1>6, <1>7, <1>8, KeptAssured

LEMMA ExhaustedAssured ==
    ASSUME TypeOK, NEW m \in Messages, Assured(m), NEW w \in Workers, TakeExhausted(w)
    PROVE  Assured(m)'
<1>1. PICK j \in Jobs : j.attempts = Tries /\ Put(j, -1)
  BY DEF TakeExhausted
<1>2. \A kind \in {"listener", "process"} :
          NewJob(kind, m) \in Jobs /\ NewJob(kind, m) # j
  BY <1>1, NewJobType, IngestBounds DEF NewJob
<1>3. /\ Queued("listener", m)' <=> Queued("listener", m)
      /\ Queued("process", m)' <=> Queued("process", m)
  BY <1>1, <1>2, PutCount DEF Queued
<1>4. UNCHANGED <<deliveries, checked, logged, webhookLog, work, eventKey, processedKey, rows>>
  BY DEF TakeExhausted, hookVars, keyVars, dataVars
<1>. QED
  BY <1>3, <1>4, KeptAssured

LEMMA NextLoss ==
    ASSUME TypeOK, StepsInOrder, LossInv, [Next]_vars
    PROVE  LossInv'
<1>. SUFFICES ASSUME NEW m \in Messages, Smooth(m)'
              PROVE  Assured(m)'
  BY DEF LossInv
<1>0. Assured(m) /\ interrupts'[m] = interrupts[m]
  BY SmoothBefore DEF LossInv
<1>1. CASE UNCHANGED vars
  BY <1>0, <1>1, KeptAssured DEF vars, hookVars, keyVars, dataVars, Queued
<1>2. ASSUME NEW m2 \in Messages,
             Receive(m2) \/ RequestStep(m2) \/ RequestFails(m2) \/ Expire(m2)
      PROVE  Assured(m)'
  BY <1>0, <1>2, RequestAssured
<1>3. ASSUME NEW w \in Workers, Take(w) \/ TakeExhausted(w)
      PROVE  Assured(m)'
  BY <1>0, <1>3, TakeAssured, ExhaustedAssured
<1>4. ASSUME NEW w \in Workers,
             RunListener(w) \/ RunJob(w) \/ Throw(w) \/ Crash(w) \/ Redeliver(w)
      PROVE  Assured(m)'
  <2>1. work[w] # Idle
    BY <1>4 DEF RunListener, At, CheckEvent, MarkEvent, CheckMessage, ClaimMessage, Dispatch,
       ConfirmEvent, RunJob, FindCustomer, CreateCustomer, FindSession, CreateSession, FindMessage,
       CreateMessage, RejectMessage, Reply, FinishJob, Throw, Crash, Redeliver
  <2>2. CASE Msg(w) # m
    BY <1>0, <1>4, <2>1, <2>2, OtherWorkerAssured
  <2>3. CASE Msg(w) = m
    <3>1. ~(Throw(w) \/ Crash(w) \/ Redeliver(w))
      BY <1>0, <2>3, InterruptedCount DEF Throw, Crash, Redeliver
    <3>. QED
      BY <1>0, <1>4, <2>3, <3>1, ListenerAssured, JobAssured
  <2>. QED
    BY <2>2, <2>3
<1>. QED
  BY <1>1, <1>2, <1>3, <1>4 DEF Next, WorkerStep

LEMMA InitLoss == Init => LossInv
<1>. SUFFICES ASSUME Init, NEW m \in Messages PROVE Assured(m)
  BY DEF LossInv
<1>1. ~RunsAt(m, {"confirm"})
  BY DEF Init, RunsAt
<1>. QED
  BY <1>1 DEF Init, Assured

\* Five checks for work already done, none of them atomic, and any number of listeners and
\* workers: a message that was delivered and left no row was interrupted, met another first
\* message of its customer, or has a type the table rejects.
THEOREM LossSafe == Spec => []LossExplained
<1>1. TypeOK /\ LossInv => LossExplained
  <2>. SUFFICES ASSUME TypeOK, LossInv, NEW m \in Messages,
                       deliveries[m] > 0, Quiet(m), Smooth(m), rows[m] = 0
                PROVE  FALSE
    BY DEF LossExplained, Smooth, TypeOK
  <2>1. Begun(m)
    BY DEF LossInv, Assured
  <2>2. ~Queued("listener", m) /\ ~Queued("process", m)
    BY NewJobType DEF Quiet, Queued, NewJob
  <2>3. \A pcs : ~RunsAt(m, pcs)
    BY DEF Quiet, RunsAt
  <2>. QED
    BY <2>1, <2>2, <2>3 DEF Quiet, Begun, Marked, Claimed, Recording
<1>2. TypeOK /\ StepsInOrder /\ LossInv /\ [Next]_vars => LossInv'
  BY NextLoss
<1>3. TypeOK /\ TypeOK' /\ StepsInOrder /\ [Next]_vars => StepsInOrder'
  BY NextOrder
<1>. QED
  BY <1>1, <1>2, <1>3, InitLoss, InitOrder, TypeCorrect, PTL DEF Spec

-----------------------------------------------------------------------------
(* The number of answers to a message *)

\* The copies of message m's job that wait, each with a number of its own, and the
\* workers that run it and have not answered yet.
Waiting(m) == {p \in Jobs \X (Nat \ {0}) :
                 p[1].kind = "process" /\ p[1].msg = m /\ p[2] <= queue[p[1]]}
Answering(m) == {w \in Workers : work[w] # Idle /\ Msg(w) = m
                                   /\ work[w].pc \in ProcessPCs \ {"finish"}}

\* Every answer, waiting copy and unanswered run of a job of m has a dispatch or an
\* interruption of its own behind it.
Accounted(m) ==
    /\ IsFiniteSet(Waiting(m))
    /\ replies[m] + Cardinality(Waiting(m)) + Cardinality(Answering(m))
         <= dispatched[m] + interrupts[m]

\* A message the table rejects is released without an interruption, but never answered.
RepliesAccounted ==
    /\ \A m \in Messages \ Unsupported : Accounted(m)
    /\ \A m \in Messages \cap Unsupported : rows[m] = 0 /\ replies[m] = 0

\* One element more or less in a finite set.
LEMMA AddedSize ==
    ASSUME NEW S, NEW x, IsFiniteSet(S)
    PROVE  /\ IsFiniteSet(S \cup {x})
           /\ Cardinality(S \cup {x}) \in Nat /\ Cardinality(S) \in Nat
           /\ Cardinality(S \cup {x}) <= Cardinality(S) + 1
<1>1. IsFiniteSet(S \cup {x})
      /\ Cardinality(S \cup {x}) = IF x \in S THEN Cardinality(S) ELSE Cardinality(S) + 1
  BY FS_AddElement
<1>2. Cardinality(S) \in Nat
  BY FS_CardinalityType
<1>. QED
  BY <1>1, <1>2

LEMMA RemovedSize ==
    ASSUME NEW S, NEW x, IsFiniteSet(S)
    PROVE  /\ IsFiniteSet(S \ {x})
           /\ Cardinality(S \ {x}) \in Nat /\ Cardinality(S) \in Nat
           /\ Cardinality(S \ {x}) = IF x \in S THEN Cardinality(S) - 1 ELSE Cardinality(S)
<1>1. IsFiniteSet(S \ {x})
      /\ Cardinality(S \ {x}) = IF x \in S THEN Cardinality(S) - 1 ELSE Cardinality(S)
  BY FS_RemoveElement
<1>2. Cardinality(S) \in Nat /\ Cardinality(S \ {x}) \in Nat
  BY <1>1, FS_CardinalityType
<1>. QED
  BY <1>1, <1>2

LEMMA AnsweringSize ==
    ASSUME NEW m
    PROVE  /\ IsFiniteSet(Answering(m)) /\ Cardinality(Answering(m)) \in Nat
           /\ IsFiniteSet(Answering(m)') /\ Cardinality(Answering(m)') \in Nat
<1>1. Answering(m) \in SUBSET Workers /\ Answering(m)' \in SUBSET Workers
  BY DEF Answering
<1>. QED
  BY <1>1, IngestBounds, FS_Subset, FS_CardinalityType

\* What a step must do for the account of m: it may add a copy or a run when an
\* interruption or a dispatch pays for it, and an answer when a run ends.
LEMMA KeptAccount ==
    ASSUME TypeOK, TypeOK', NEW m \in Messages, Accounted(m), IsFiniteSet(Waiting(m)'),
           replies'[m] + Cardinality(Waiting(m)') + Cardinality(Answering(m)')
               - dispatched'[m] - interrupts'[m]
             <= replies[m] + Cardinality(Waiting(m)) + Cardinality(Answering(m))
                  - dispatched[m] - interrupts[m]
    PROVE  Accounted(m)'
<1>1. /\ Cardinality(Waiting(m)) \in Nat /\ Cardinality(Waiting(m)') \in Nat
      /\ Cardinality(Answering(m)) \in Nat /\ Cardinality(Answering(m)') \in Nat
  BY AnsweringSize, FS_CardinalityType DEF Accounted
<1>2. /\ replies[m] \in Nat /\ dispatched[m] \in Nat /\ interrupts[m] \in Nat
      /\ replies'[m] \in Nat /\ dispatched'[m] \in Nat /\ interrupts'[m] \in Nat
  BY DEF TypeOK
<1>. QED
  BY <1>1, <1>2 DEF Accounted

\* A copy that is put is counted when it is of a job of m.
LEMMA PutWaiting ==
    ASSUME TypeOK, NEW m \in Messages, IsFiniteSet(Waiting(m)), NEW j \in Jobs, Put(j, 1)
    PROVE  /\ IsFiniteSet(Waiting(m)')
           /\ Cardinality(Waiting(m)') \in Nat /\ Cardinality(Waiting(m)) \in Nat
           /\ Cardinality(Waiting(m)') <= Cardinality(Waiting(m)) + 1
           /\ j.kind # "process" \/ j.msg # m => Waiting(m)' = Waiting(m)
<1>1. /\ \A i \in Jobs : queue[i] \in Nat
      /\ \A i \in Jobs : queue'[i] = IF i = j THEN queue[i] + 1 ELSE queue[i]
  BY PutCount DEF TypeOK
<1>. DEFINE new == <<j, queue[j] + 1>>
<1>2. Waiting(m)' \subseteq Waiting(m) \cup {new}
  <2>. SUFFICES ASSUME NEW i \in Jobs, NEW n \in Nat \ {0}, i.kind = "process", i.msg = m,
                       n <= queue'[i]
                PROVE  <<i, n>> \in Waiting(m) \cup {new}
    BY DEF Waiting
  <2>1. n <= queue[i] \/ (i = j /\ n = queue[j] + 1)
    BY <1>1
  <2>. QED
    BY <2>1 DEF Waiting
<1>3. /\ IsFiniteSet(Waiting(m) \cup {new})
      /\ Cardinality(Waiting(m) \cup {new}) <= Cardinality(Waiting(m)) + 1
      /\ Cardinality(Waiting(m) \cup {new}) \in Nat
      /\ Cardinality(Waiting(m)) \in Nat
  BY AddedSize
<1>4. /\ IsFiniteSet(Waiting(m)')
      /\ Cardinality(Waiting(m)') <= Cardinality(Waiting(m) \cup {new})
  BY <1>2, <1>3, FS_Subset
<1>5. ASSUME j.kind # "process" \/ j.msg # m
      PROVE  Waiting(m)' = Waiting(m)
  <2>1. \A i \in Jobs : i.kind = "process" /\ i.msg = m => queue'[i] = queue[i]
    BY <1>1, <1>5
  <2>. QED
    BY <2>1 DEF Waiting
<1>. QED
  BY <1>3, <1>4, <1>5, FS_CardinalityType

\* A copy that is taken is counted no more.
LEMMA TakeWaiting ==
    ASSUME TypeOK, NEW m \in Messages, IsFiniteSet(Waiting(m)), NEW j \in Jobs,
           queue[j] > 0, Put(j, -1)
    PROVE  /\ IsFiniteSet(Waiting(m)')
           /\ Cardinality(Waiting(m)') \in Nat /\ Cardinality(Waiting(m)) \in Nat
           /\ Cardinality(Waiting(m)') <= Cardinality(Waiting(m))
           /\ j.kind = "process" /\ j.msg = m
                => Cardinality(Waiting(m)') = Cardinality(Waiting(m)) - 1
<1>1. /\ \A i \in Jobs : queue[i] \in Nat
      /\ \A i \in Jobs : queue'[i] = IF i = j THEN queue[i] - 1 ELSE queue[i]
  BY PutCount DEF TypeOK
<1>. DEFINE top == <<j, queue[j]>>
<1>2. Waiting(m)' = Waiting(m) \ {top}
  <2>1. ASSUME NEW i \in Jobs, NEW n \in Nat \ {0}
        PROVE  n <= queue'[i] <=> n <= queue[i] /\ <<i, n>> # top
    BY <1>1
  <2>. QED
    BY <2>1 DEF Waiting
<1>3. j.kind = "process" /\ j.msg = m => top \in Waiting(m)
  BY <1>1 DEF Waiting
<1>. QED
  <2>1. /\ IsFiniteSet(Waiting(m) \ {top})
        /\ Cardinality(Waiting(m) \ {top}) \in Nat /\ Cardinality(Waiting(m)) \in Nat
        /\ Cardinality(Waiting(m) \ {top}) =
             IF top \in Waiting(m) THEN Cardinality(Waiting(m)) - 1 ELSE Cardinality(Waiting(m))
    BY RemovedSize
  <2>2. CASE top \in Waiting(m)
    BY <1>2, <2>1, <2>2
  <2>3. CASE top \notin Waiting(m)
    BY <1>2, <1>3, <2>1, <2>3
  <2>. QED
    BY <2>2, <2>3

\* A run of another message, or of none, does not count.
LEMMA SameAnswering ==
    ASSUME NEW m, NEW w \in Workers, \A v \in Workers \ {w} : work'[v] = work[v],
           w \in Answering(m)' => w \in Answering(m)
    PROVE  Cardinality(Answering(m)') <= Cardinality(Answering(m))
<1>1. Answering(m)' \in SUBSET Answering(m)
  BY DEF Answering, Msg
<1>. QED
  BY <1>1, AnsweringSize, FS_Subset

\* The other workers stay as they are when w moves on or ends.
LEMMA OneMoves ==
    ASSUME TypeOK, NEW w \in Workers, work[w] # Idle,
           Done(w) \/ \E pc \in ListenerPCs \cup ProcessPCs : Goto(w, pc)
    PROVE  /\ \A v \in Workers \ {w} : work'[v] = work[v]
           /\ work'[w] # Idle => work'[w].msg = work[w].msg
  BY GotoStep DEF Done, TypeOK

LEMMA RequestReplies ==
    ASSUME TypeOK, TypeOK', NEW m \in Messages, Accounted(m), NEW m2 \in Messages,
           Receive(m2) \/ RequestStep(m2) \/ RequestFails(m2) \/ Expire(m2)
    PROVE  Accounted(m)'
<1>1. UNCHANGED <<work, replies, dispatched>>
  BY DEF Receive, RequestStep, LogWebhook, FireEvent, RequestFails, Expire, dataVars
<1>2. interrupts'[m] >= interrupts[m]
  <2>1. UNCHANGED interrupts \/ Interrupted(m2)
    BY DEF Receive, RequestStep, LogWebhook, FireEvent, RequestFails, Expire
  <2>. QED
    BY <2>1, InterruptedCount DEF TypeOK
<1>3. Waiting(m)' = Waiting(m)
  <2>1. CASE FireEvent(m2)
    <3>1. \A j \in Jobs : j.kind = "process" => queue'[j] = queue[j]
      <4>1. NewJob("listener", m2) \in Jobs /\ NewJob("listener", m2).kind = "listener"
        BY NewJobType DEF NewJob
      <4>. QED
        BY <2>1, <4>1, PutCount, IngestBounds DEF FireEvent
    <3>. QED
      BY <3>1 DEF Waiting
  <2>2. CASE ~FireEvent(m2)
    BY <2>2 DEF Receive, RequestStep, LogWebhook, RequestFails, Expire, Waiting
  <2>. QED
    BY <2>1, <2>2
<1>4. Answering(m)' = Answering(m)
  BY <1>1 DEF Answering, Msg
<1>5. /\ Cardinality(Waiting(m)) \in Nat /\ Cardinality(Answering(m)) \in Nat
      /\ replies[m] \in Nat /\ dispatched[m] \in Nat
      /\ interrupts[m] \in Nat /\ interrupts'[m] \in Nat
  BY AnsweringSize, FS_CardinalityType DEF Accounted, TypeOK
<1>. QED
  BY <1>1, <1>2, <1>3, <1>4, <1>5 DEF Accounted

\* A copy becomes a run, or fails for good.
LEMMA TakeReplies ==
    ASSUME TypeOK, TypeOK', NEW m \in Messages, Accounted(m), NEW w \in Workers,
           Take(w) \/ TakeExhausted(w)
    PROVE  Accounted(m)'
<1>0. UNCHANGED <<replies, dispatched, interrupts>>
  BY DEF Take, TakeExhausted, dataVars, historyVars
<1>1. /\ replies[m] \in Nat /\ dispatched[m] \in Nat /\ interrupts[m] \in Nat
      /\ IsFiniteSet(Waiting(m))
      /\ Cardinality(Answering(m)) \in Nat /\ Cardinality(Answering(m)') \in Nat
  BY AnsweringSize DEF Accounted, TypeOK
<1>2. CASE Take(w)
  <2>1. PICK j \in Jobs :
            /\ queue[j] > 0
            /\ Put(j, -1)
            /\ work' = [work EXCEPT ![w] =
                          [kind |-> j.kind, msg |-> j.msg, attempts |-> j.attempts + 1,
                           pc |-> IF j.kind = "listener" THEN "event" ELSE "customer",
                           reserved |-> TRUE]]
    BY <1>2 DEF Take
  <2>2. /\ work'[w].msg = j.msg
        /\ work'[w].pc = IF j.kind = "listener" THEN "event" ELSE "customer"
        /\ \A v \in Workers \ {w} : work'[v] = work[v]
    BY <2>1 DEF TypeOK
  <2>3. /\ Cardinality(Waiting(m)') \in Nat /\ Cardinality(Waiting(m)) \in Nat
        /\ IsFiniteSet(Waiting(m)')
        /\ Cardinality(Waiting(m)') <= Cardinality(Waiting(m))
        /\ j.kind = "process" /\ j.msg = m
             => Cardinality(Waiting(m)') = Cardinality(Waiting(m)) - 1
    BY <1>1, <2>1, TakeWaiting
  <2>4. CASE j.kind = "process" /\ j.msg = m
    <3>1. Answering(m)' \in SUBSET (Answering(m) \cup {w})
      BY <2>2 DEF Answering, Msg
    <3>2. Cardinality(Answering(m)') <= Cardinality(Answering(m)) + 1
      <4>1. /\ IsFiniteSet(Answering(m) \cup {w})
            /\ Cardinality(Answering(m) \cup {w}) \in Nat
            /\ Cardinality(Answering(m) \cup {w}) <= Cardinality(Answering(m)) + 1
        BY AnsweringSize, AddedSize
      <4>. QED
        BY <1>1, <3>1, <4>1, FS_Subset
    <3>. QED
      BY <1>0, <1>1, <2>3, <2>4, <3>2, KeptAccount
  <2>5. CASE ~(j.kind = "process" /\ j.msg = m)
    <3>1. w \notin Answering(m)'
      <4>1. j.msg = m => j.kind = "listener"
        BY <2>5 DEF Jobs
      <4>. QED
        BY <2>2, <4>1 DEF Answering, Msg, ProcessPCs
    <3>2. Cardinality(Answering(m)') <= Cardinality(Answering(m))
      BY <2>2, <3>1, SameAnswering
    <3>. QED
      BY <1>0, <1>1, <2>3, <3>2, KeptAccount
  <2>. QED
    BY <2>4, <2>5
<1>3. CASE TakeExhausted(w)
  <2>1. PICK j \in Jobs : queue[j] > 0 /\ Put(j, -1)
    BY <1>3 DEF TakeExhausted
  <2>2. /\ Cardinality(Waiting(m)') \in Nat /\ Cardinality(Waiting(m)) \in Nat
        /\ IsFiniteSet(Waiting(m)')
        /\ Cardinality(Waiting(m)') <= Cardinality(Waiting(m))
    BY <1>1, <2>1, TakeWaiting
  <2>3. Answering(m)' = Answering(m)
    BY <1>3 DEF TakeExhausted, Answering, Msg
  <2>. QED
    BY <1>0, <1>1, <2>2, <2>3, KeptAccount
<1>. QED
  BY <1>2, <1>3

\* An interruption pays for the copy it puts back.
LEMMA InterruptedReplies ==
    ASSUME TypeOK, TypeOK', NEW m \in Messages, Accounted(m), NEW w \in Workers,
           Throw(w) \/ Crash(w) \/ Redeliver(w)
    PROVE  Accounted(m)'
<1>0. /\ UNCHANGED <<replies, dispatched>> /\ work[w] # Idle /\ Interrupted(Msg(w))
  BY DEF Throw, Crash, Redeliver, dataVars
<1>1. /\ replies[m] \in Nat /\ dispatched[m] \in Nat /\ interrupts[m] \in Nat
      /\ IsFiniteSet(Waiting(m))
      /\ Cardinality(Answering(m)) \in Nat /\ Cardinality(Answering(m)') \in Nat
  BY AnsweringSize DEF Accounted, TypeOK
<1>2. work[w] \in Work /\ Msg(w) \in Messages /\ JobOf(work[w]) \in Jobs
      /\ JobOf(work[w]).msg = Msg(w)
  BY <1>0, RunningType DEF JobOf, Msg
<1>3. Cardinality(Answering(m)') <= Cardinality(Answering(m))
  <2>1. CASE Done(w)
    <3>1. work'[w] = Idle /\ \A v \in Workers \ {w} : work'[v] = work[v]
      BY <2>1 DEF Done, TypeOK
    <3>. QED
      BY <3>1, SameAnswering DEF Answering
  <2>2. CASE Redeliver(w)
    <3>1. work' = [work EXCEPT ![w] = [work[w] EXCEPT !.reserved = FALSE]]
      BY <2>2 DEF Redeliver
    <3>2. /\ work'[w].pc = work[w].pc /\ work'[w].msg = work[w].msg
          /\ \A v \in Workers \ {w} : work'[v] = work[v]
      BY <1>2, <3>1 DEF Work, TypeOK
    <3>. QED
      BY <1>0, <3>2, SameAnswering DEF Answering, Msg
  <2>. QED
    BY <2>1, <2>2 DEF Throw, Crash, ReleaseOrFail
<1>4. /\ IsFiniteSet(Waiting(m)')
      /\ Cardinality(Waiting(m)') \in Nat /\ Cardinality(Waiting(m)) \in Nat
      /\ Cardinality(Waiting(m)') <= Cardinality(Waiting(m)) + 1
      /\ Msg(w) # m => Cardinality(Waiting(m)') <= Cardinality(Waiting(m))
  <2>1. CASE UNCHANGED queue
    <3>1. Waiting(m)' = Waiting(m)
      BY <2>1 DEF Waiting
    <3>. QED
      BY <1>1, <3>1, FS_CardinalityType
  <2>2. CASE Put(JobOf(work[w]), 1)
    BY <1>1, <1>2, <2>2, PutWaiting
  <2>. QED
    BY <2>1, <2>2 DEF Throw, Crash, Redeliver, ReleaseOrFail
<1>5. interrupts'[m] = IF Msg(w) = m THEN interrupts[m] + 1 ELSE interrupts[m]
  BY <1>0, <1>2, InterruptedCount
<1>. QED
  BY <1>0, <1>1, <1>3, <1>4, <1>5, KeptAccount

\* The listener starts a run for each job it dispatches, and none besides.
LEMMA ListenerReplies ==
    ASSUME TypeOK, TypeOK', NEW m \in Messages, Accounted(m), NEW w \in Workers,
           RunListener(w)
    PROVE  Accounted(m)'
<1>0. UNCHANGED <<replies, interrupts>> /\ work[w] # Idle
  BY DEF RunListener, At, CheckEvent, MarkEvent, CheckMessage, ClaimMessage, Dispatch,
         ConfirmEvent, dataVars, historyVars
<1>1. /\ replies[m] \in Nat /\ dispatched[m] \in Nat /\ interrupts[m] \in Nat
      /\ IsFiniteSet(Waiting(m)) /\ Cardinality(Waiting(m)) \in Nat
      /\ Cardinality(Answering(m)) \in Nat /\ Cardinality(Answering(m)') \in Nat
      /\ Msg(w) \in Messages
  BY <1>0, AnsweringSize, FS_CardinalityType, RunningType DEF Accounted, TypeOK
<1>2. Cardinality(Answering(m)') <= Cardinality(Answering(m))
  <2>1. Done(w) \/ \E pc \in ListenerPCs : Goto(w, pc)
    BY DEF RunListener, CheckEvent, MarkEvent, CheckMessage, ClaimMessage, Dispatch,
           ConfirmEvent, ListenerPCs
  <2>2. w \notin Answering(m)'
    <3>1. CASE Done(w)
      BY <3>1 DEF Done, TypeOK, Answering
    <3>2. ASSUME NEW pc \in ListenerPCs, Goto(w, pc)
          PROVE  w \notin Answering(m)'
      BY <1>0, <3>2, GotoStep DEF Answering, ListenerPCs, ProcessPCs
    <3>. QED
      BY <2>1, <3>1, <3>2
  <2>3. \A v \in Workers \ {w} : work'[v] = work[v]
    BY <1>0, <2>1, OneMoves
  <2>. QED
    BY <2>2, <2>3, SameAnswering
<1>3. CASE Dispatch(w)
  <2>1. /\ NewJob("process", Msg(w)) \in Jobs /\ NewJob("process", Msg(w)).msg = Msg(w)
        /\ Put(NewJob("process", Msg(w)), 1)
        /\ dispatched'[m] = IF Msg(w) = m THEN dispatched[m] + 1 ELSE dispatched[m]
    BY <1>1, <1>3, NewJobType DEF Dispatch, NewJob, TypeOK
  <2>2. /\ IsFiniteSet(Waiting(m)') /\ Cardinality(Waiting(m)') \in Nat
        /\ Cardinality(Waiting(m)') <= Cardinality(Waiting(m)) + 1
        /\ Msg(w) # m => Waiting(m)' = Waiting(m)
    BY <1>1, <2>1, PutWaiting
  <2>. QED
    BY <1>0, <1>1, <1>2, <2>1, <2>2, KeptAccount
<1>4. CASE ~Dispatch(w)
  <2>1. UNCHANGED <<queue, dispatched>>
    BY <1>4 DEF RunListener, CheckEvent, MarkEvent, CheckMessage, ClaimMessage, ConfirmEvent,
       historyVars
  <2>2. Waiting(m)' = Waiting(m)
    BY <2>1 DEF Waiting
  <2>. QED
    BY <1>0, <1>1, <1>2, <2>1, <2>2, KeptAccount
<1>. QED
  BY <1>3, <1>4

\* A run answers once and is then over; only a job the table rejects goes back by itself.
LEMMA JobReplies ==
    ASSUME TypeOK, TypeOK', NEW m \in Messages \ Unsupported, Accounted(m), NEW w \in Workers,
           RunJob(w)
    PROVE  Accounted(m)'
<1>0. UNCHANGED <<dispatched, interrupts>> /\ work[w] # Idle /\ work[w].pc \in ProcessPCs
  BY DEF RunJob, At, FindCustomer, CreateCustomer, FindSession, CreateSession, FindMessage,
         CreateMessage, RejectMessage, Reply, FinishJob, historyVars, ProcessPCs
<1>1. /\ replies[m] \in Nat /\ dispatched[m] \in Nat /\ interrupts[m] \in Nat
      /\ IsFiniteSet(Waiting(m)) /\ Cardinality(Waiting(m)) \in Nat
      /\ Cardinality(Answering(m)) \in Nat /\ Cardinality(Answering(m)') \in Nat
      /\ IsFiniteSet(Answering(m))
      /\ Msg(w) \in Messages
  BY <1>0, AnsweringSize, FS_CardinalityType, RunningType DEF Accounted, TypeOK
<1>2. Done(w) \/ \E pc \in ProcessPCs : Goto(w, pc)
  BY DEF RunJob, FindCustomer, CreateCustomer, CatchDuplicateKey, FindSession, CreateSession,
         FindMessage, CreateMessage, RejectMessage, ReleaseOrFail, Reply, FinishJob, ProcessPCs
<1>3. \A v \in Workers \ {w} : work'[v] = work[v]
  BY <1>0, <1>2, OneMoves
<1>4. Waiting(m)' = Waiting(m)
  <2>1. CASE RejectMessage(w)
    <3>1. Msg(w) # m /\ JobOf(work[w]) \in Jobs /\ JobOf(work[w]).msg = Msg(w)
      BY <1>0, <2>1, RunningType DEF RejectMessage, JobOf, Msg
    <3>2. UNCHANGED queue \/ Put(JobOf(work[w]), 1)
      BY <2>1 DEF RejectMessage, ReleaseOrFail
    <3>3. CASE UNCHANGED queue
      BY <3>3 DEF Waiting
    <3>. QED
      BY <1>1, <3>1, <3>2, <3>3, PutWaiting
  <2>2. CASE ~RejectMessage(w)
    BY <2>2 DEF RunJob, FindCustomer, CreateCustomer, FindSession, CreateSession, FindMessage,
       CreateMessage, Reply, FinishJob, Waiting
  <2>. QED
    BY <2>1, <2>2
<1>5. CASE Reply(w) /\ Msg(w) = m
  <2>1. work[w].pc = "reply" /\ Goto(w, "finish") /\ replies'[m] <= replies[m] + 1
    BY <1>1, <1>5 DEF Reply, At, TypeOK
  <2>2. work'[w].pc = "finish"
    BY <1>0, <2>1, GotoStep DEF ProcessPCs
  <2>3. w \in Answering(m)
    BY <1>0, <1>5, <2>1 DEF Answering, ProcessPCs
  <2>4. Answering(m)' \in SUBSET (Answering(m) \ {w})
    BY <1>3, <2>2 DEF Answering, Msg
  <2>5. Cardinality(Answering(m)') <= Cardinality(Answering(m)) - 1
    <3>1. /\ IsFiniteSet(Answering(m) \ {w})
          /\ Cardinality(Answering(m) \ {w}) = Cardinality(Answering(m)) - 1
      BY <1>1, <2>3, FS_RemoveElement
    <3>. QED
      BY <2>4, <3>1, FS_Subset
  <2>. QED
    <3>1. replies'[m] \in Nat
      BY DEF TypeOK
    <3>. QED
      BY <1>0, <1>1, <1>4, <2>1, <2>5, <3>1, KeptAccount
<1>6. CASE ~(Reply(w) /\ Msg(w) = m)
  <2>1. replies'[m] = replies[m]
    BY <1>1, <1>6 DEF RunJob, FindCustomer, CreateCustomer, FindSession, CreateSession, FindMessage,
       CreateMessage, RejectMessage, Reply, FinishJob, dataVars, TypeOK
  <2>2. w \in Answering(m)' => w \in Answering(m)
    <3>1. CASE Done(w)
      BY <3>1 DEF Done, TypeOK, Answering
    <3>2. ASSUME work'[w] # Idle, work[w].pc # "finish"
          PROVE  w \in Answering(m)' => w \in Answering(m)
      BY <1>0, <1>2, <3>2, OneMoves DEF Answering, Msg
    <3>3. work[w].pc = "finish" => Done(w)
      BY <1>0 DEF RunJob, At, FindCustomer, CreateCustomer, FindSession, CreateSession, FindMessage,
         CreateMessage, RejectMessage, Reply, FinishJob
    <3>. QED
      BY <3>1, <3>2, <3>3 DEF Answering
  <2>3. Cardinality(Answering(m)') <= Cardinality(Answering(m))
    BY <1>3, <2>2, SameAnswering
  <2>. QED
    BY <1>0, <1>1, <1>4, <2>1, <2>3, KeptAccount
<1>. QED
  BY <1>5, <1>6

\* A message the table rejects has no row, so no job of it comes to the reply.
LEMMA RejectedReplies ==
    ASSUME TypeOK, StepsInOrder, NEW m \in Messages \cap Unsupported,
           rows[m] = 0 /\ replies[m] = 0, [Next]_vars
    PROVE  rows'[m] = 0 /\ replies'[m] = 0
<1>1. CASE UNCHANGED dataVars
  BY <1>1 DEF dataVars
<1>2. ASSUME NEW w \in Workers, RunJob(w)
      PROVE  rows'[m] = 0 /\ replies'[m] = 0
  <2>1. CASE Msg(w) = m
    <3>1. ~CreateMessage(w)
      BY <2>1 DEF CreateMessage
    <3>2. ~Reply(w)
      BY <2>1 DEF Reply, StepsInOrder, PhaseOrder
    <3>. QED
      BY <1>2, <3>1, <3>2 DEF RunJob, FindCustomer, CreateCustomer, FindSession, CreateSession,
         FindMessage, RejectMessage, FinishJob, dataVars
  <2>2. CASE Msg(w) # m
    BY <1>2, <2>2 DEF RunJob, FindCustomer, CreateCustomer, FindSession, CreateSession, FindMessage,
       CreateMessage, RejectMessage, Reply, FinishJob, dataVars, TypeOK
  <2>. QED
    BY <2>1, <2>2
<1>3. ASSUME NEW w \in Workers,
             Take(w) \/ TakeExhausted(w) \/ Throw(w) \/ Crash(w) \/ Redeliver(w) \/ RunListener(w)
      PROVE  UNCHANGED dataVars
  BY <1>3 DEF Take, TakeExhausted, Throw, Crash, Redeliver, RunListener, CheckEvent, MarkEvent,
         CheckMessage, ClaimMessage, Dispatch, ConfirmEvent
<1>4. ASSUME NEW m2 \in Messages, Receive(m2) \/ RequestStep(m2) \/ RequestFails(m2) \/ Expire(m2)
      PROVE  UNCHANGED dataVars
  BY <1>4 DEF Receive, RequestStep, LogWebhook, FireEvent, RequestFails, Expire
<1>5. CASE UNCHANGED vars
  BY <1>1, <1>5 DEF vars
<1>. QED
  BY <1>1, <1>2, <1>3, <1>4, <1>5 DEF Next, WorkerStep

LEMMA NextReplies ==
    ASSUME TypeOK, TypeOK', StepsInOrder, RepliesAccounted, [Next]_vars
    PROVE  RepliesAccounted'
<1>1. ASSUME NEW m \in Messages \ Unsupported
      PROVE  Accounted(m)'
  <2>0. Accounted(m) /\ m \in Messages
    BY DEF RepliesAccounted
  <2>1. CASE UNCHANGED vars
    BY <2>0, <2>1 DEF vars, dataVars, historyVars, Accounted, Waiting, Answering, Msg
  <2>2. ASSUME NEW m2 \in Messages,
               Receive(m2) \/ RequestStep(m2) \/ RequestFails(m2) \/ Expire(m2)
        PROVE  Accounted(m)'
    BY <2>0, <2>2, RequestReplies
  <2>3. ASSUME NEW w \in Workers, WorkerStep(w) \/ Throw(w) \/ Crash(w) \/ Redeliver(w)
        PROVE  Accounted(m)'
    BY <2>0, <2>3, TakeReplies, InterruptedReplies, ListenerReplies, JobReplies DEF WorkerStep
  <2>. QED
    BY <2>1, <2>2, <2>3 DEF Next
<1>2. ASSUME NEW m \in Messages \cap Unsupported
      PROVE  rows'[m] = 0 /\ replies'[m] = 0
  BY RejectedReplies DEF RepliesAccounted
<1>. QED
  BY <1>1, <1>2 DEF RepliesAccounted

LEMMA InitReplies == Init => RepliesAccounted
<1>. SUFFICES ASSUME Init
              PROVE  RepliesAccounted
  OBVIOUS
<1>1. ASSUME NEW m \in Messages
      PROVE  Accounted(m) /\ rows[m] = 0 /\ replies[m] = 0
  <2>1. Waiting(m) = {} /\ Answering(m) = {}
    BY DEF Init, Waiting, Answering
  <2>. QED
    BY <2>1, FS_EmptySet DEF Init, Accounted
<1>. QED
  BY <1>1 DEF RepliesAccounted

\* However often the jobs of a message are dispatched, redelivered and retried, and however
\* their runs overlap, the customer gets at most one answer for each dispatch and one more
\* for each interruption.
THEOREM RepliesSafe == Spec => []RepliesBounded
<1>1. TypeOK /\ RepliesAccounted => RepliesBounded
  <2>. SUFFICES ASSUME TypeOK, RepliesAccounted, NEW m \in Messages
                PROVE  replies[m] <= dispatched[m] + interrupts[m]
    BY DEF RepliesBounded
  <2>1. replies[m] \in Nat /\ dispatched[m] \in Nat /\ interrupts[m] \in Nat
    BY DEF TypeOK
  <2>2. CASE m \in Unsupported
    BY <2>1, <2>2 DEF RepliesAccounted
  <2>3. CASE m \notin Unsupported
    <3>1. Accounted(m) /\ Cardinality(Waiting(m)) \in Nat /\ Cardinality(Answering(m)) \in Nat
      BY <2>3, AnsweringSize, FS_CardinalityType DEF RepliesAccounted, Accounted
    <3>. QED
      BY <2>1, <3>1 DEF Accounted
  <2>. QED
    BY <2>2, <2>3
<1>2. TypeOK /\ TypeOK' /\ StepsInOrder /\ RepliesAccounted /\ [Next]_vars => RepliesAccounted'
  BY NextReplies
<1>3. TypeOK /\ TypeOK' /\ StepsInOrder /\ [Next]_vars => StepsInOrder'
  BY NextOrder
<1>. QED
  BY <1>1, <1>2, <1>3, InitReplies, InitOrder, TypeCorrect, PTL DEF Spec
=============================================================================
