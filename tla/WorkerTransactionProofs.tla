---------------------- MODULE WorkerTransactionProofs ----------------------
(***************************************************************************)
(* Proofs about WorkerTransaction, for every set of messages, customers    *)
(* and workers, every number of tries and every bound.                     *)
(***************************************************************************)
EXTENDS WorkerTransaction, TLAPS

-----------------------------------------------------------------------------
(* The jobs *)

\* A worker that is not idle has a job, nobody else has it, and it is neither waiting for
\* a worker nor done.  A job that waits has a try left.
JobsInv ==
    /\ \A w \in Workers : job[w] = NoMessage <=> pc[w] = "idle"
    /\ \A w \in Workers : job[w] \notin waiting \cup marked
    /\ waiting \cap marked = {}
    /\ \A v, w \in Workers : v # w /\ job[v] = job[w] => pc[v] = "idle"
    /\ \A m \in waiting : attempts[m] < Tries

JobTypes ==
    /\ waiting \subseteq Messages
    /\ attempts \in [Messages -> 0..Tries]
    /\ job \in [Workers -> Messages \cup {NoMessage}]
    /\ pc \in [Workers -> PCs]
    /\ marked \subseteq Messages
    /\ failed \subseteq Messages

\* What a step of a worker does to its jobs.
Takes(w) ==
    /\ pc[w] = "idle" /\ pc' = [pc EXCEPT ![w] = "customer"]
    /\ \E m \in waiting :
          /\ waiting' = waiting \ {m}
          /\ attempts' = [attempts EXCEPT ![m] = @ + 1]
          /\ job' = [job EXCEPT ![w] = m]
    /\ UNCHANGED <<marked, failed>>

Edges == {<<"customer", "message">>, <<"message", "escalation">>, <<"message", "finish">>,
          <<"escalation", "agent">>, <<"agent", "finish">>, <<"agent", "commit">>,
          <<"commit", "finish">>}

Goes(w) ==
    /\ \E l \in PCs : <<pc[w], l>> \in Edges /\ pc' = [pc EXCEPT ![w] = l]
    /\ UNCHANGED <<waiting, attempts, job, marked, failed>>

GivesBack(w) == pc[w] \in {"customer", "message"} /\ GiveBack(w)

Finishes(w) ==
    /\ pc[w] = "finish" /\ pc' = [pc EXCEPT ![w] = "idle"]
    /\ job' = [job EXCEPT ![w] = NoMessage]
    /\ marked' = marked \cup {job[w]}
    /\ UNCHANGED <<waiting, attempts, failed>>

Stays == UNCHANGED <<waiting, attempts, job, pc, marked, failed>>

Act(w) == Step(w) \/ RollBack(w) \/ StatementFails(w) \/ Exit(w)

LEMMA JobStep ==
    ASSUME NEW w \in Workers, Act(w)
    PROVE  Takes(w) \/ Goes(w) \/ GivesBack(w) \/ Finishes(w) \/ Stays
<1>1. ASSUME Take(w) \/ Finish(w) \/ StatementFails(w) \/ StatementRefused(w) \/ TimeOut(w)
      PROVE  Takes(w) \/ Finishes(w) \/ GivesBack(w)
  BY <1>1 DEF Take, Finish, StatementFails, StatementRefused, TimeOut, Goto, Takes, Finishes,
              GivesBack
<1>2. ASSUME Exit(w)
      PROVE  Stays
  BY <1>2 DEF Exit, Stays, jobVars
<1>3. ASSUME \/ WriteCustomer(w) \/ WriteMessage(w) \/ BeginEscalation(w) \/ NoAgentFound(w)
             \/ HandOver(w) \/ Commit(w) \/ RollBack(w)
      PROVE  Goes(w)
  <2>1. UNCHANGED <<waiting, attempts, job, marked, failed>>
    BY <1>3 DEF WriteCustomer, WriteMessage, BeginEscalation, NoAgentFound, HandOver, Commit,
                RollBack
  <2>2. \E l \in PCs : <<pc[w], l>> \in Edges /\ pc' = [pc EXCEPT ![w] = l]
    BY <1>3 DEF WriteCustomer, WriteMessage, BeginEscalation, NoAgentFound, HandOver, Commit,
                RollBack, Running, Goto, Edges, PCs
  <2>. QED
    BY <2>1, <2>2 DEF Goes
<1>. QED
  BY <1>1, <1>2, <1>3 DEF Act, Step

LEMMA TakesJobs ==
    ASSUME JobTypes, JobsInv, NEW w \in Workers, Takes(w)
    PROVE  JobTypes' /\ JobsInv'
<1>1. PICK m \in waiting : /\ waiting' = waiting \ {m}
                           /\ attempts' = [attempts EXCEPT ![m] = @ + 1]
                           /\ job' = [job EXCEPT ![w] = m]
  BY DEF Takes
<1>2. /\ m \in Messages /\ m \notin marked /\ attempts[m] \in 0..Tries /\ attempts[m] < Tries
      /\ m # NoMessage /\ \A v \in Workers : job[v] # m
  BY WorkerBounds DEF JobTypes, JobsInv
<1>3. attempts[m] + 1 \in 0..Tries
  BY <1>2, WorkerBounds
<1>4. JobTypes'
  BY <1>1, <1>2, <1>3 DEF JobTypes, Takes, PCs
<1>5. /\ job'[w] = m /\ pc'[w] = "customer"
      /\ \A v \in Workers \ {w} : job'[v] = job[v] /\ pc'[v] = pc[v]
      /\ marked' = marked
      /\ \A n \in waiting' : n \in waiting /\ attempts'[n] = attempts[n]
  BY <1>1 DEF Takes, JobTypes
<1>6. \A v \in Workers : job'[v] = NoMessage <=> pc'[v] = "idle"
  BY <1>2, <1>5 DEF JobsInv
<1>7. \A v \in Workers : job'[v] \notin waiting' \cup marked'
  BY <1>1, <1>2, <1>5 DEF JobsInv
<1>8. \A u, v \in Workers : u # v /\ job'[u] = job'[v] => pc'[u] = "idle"
  BY <1>2, <1>5 DEF JobsInv
<1>9. waiting' \cap marked' = {} /\ \A n \in waiting' : attempts'[n] < Tries
  BY <1>5 DEF JobsInv
<1>. QED
  BY <1>4, <1>6, <1>7, <1>8, <1>9 DEF JobsInv

LEMMA GoesJobs ==
    ASSUME JobTypes, JobsInv, NEW w \in Workers, Goes(w)
    PROVE  JobTypes' /\ JobsInv'
<1>1. PICK l \in PCs : <<pc[w], l>> \in Edges /\ pc' = [pc EXCEPT ![w] = l]
  BY DEF Goes
<1>2. pc[w] # "idle" /\ l # "idle"
  BY <1>1 DEF Edges
<1>3. pc'[w] = l /\ \A v \in Workers \ {w} : pc'[v] = pc[v]
  BY <1>1 DEF JobTypes
<1>4. \A v \in Workers : pc'[v] = "idle" <=> pc[v] = "idle"
  BY <1>2, <1>3
<1>5. JobTypes'
  BY <1>1 DEF JobTypes, Goes
<1>. QED
  BY <1>4, <1>5 DEF JobsInv, Goes

\* A worker gives up its job, which nobody has then: it waits again, or is over.
LEMMA LeavesJobs ==
    ASSUME JobTypes, JobsInv, NEW w \in Workers, GivesBack(w) \/ Finishes(w)
    PROVE  JobTypes' /\ JobsInv'
<1>1. /\ job[w] \in Messages /\ job[w] \notin waiting \cup marked
      /\ \A v \in Workers \ {w} : job[v] # job[w]
  <2>1. pc[w] # "idle"
    BY DEF GivesBack, Finishes
  <2>. QED
    BY <2>1 DEF JobTypes, JobsInv
<1>2. job' = [job EXCEPT ![w] = NoMessage] /\ pc' = [pc EXCEPT ![w] = "idle"]
      /\ attempts' = attempts
  BY DEF GivesBack, GiveBack, Goto, Finishes
<1>3. \/ /\ waiting' = waiting \cup {job[w]} /\ attempts[job[w]] < Tries
         /\ marked' = marked /\ failed' = failed
      \/ waiting' = waiting /\ marked' = marked /\ failed' = failed \cup {job[w]}
      \/ waiting' = waiting /\ marked' = marked \cup {job[w]} /\ failed' = failed
  BY DEF GivesBack, GiveBack, Finishes
<1>4. JobTypes'
  BY <1>1, <1>2, <1>3 DEF JobTypes, PCs
<1>5. /\ job'[w] = NoMessage /\ pc'[w] = "idle"
      /\ \A v \in Workers \ {w} : job'[v] = job[v] /\ pc'[v] = pc[v]
  BY <1>2 DEF JobTypes
<1>6. \A v \in Workers : job'[v] = NoMessage <=> pc'[v] = "idle"
  BY <1>5 DEF JobsInv
<1>7. NoMessage \notin waiting' \cup marked'
  BY <1>4, WorkerBounds DEF JobTypes
<1>8. \A v \in Workers : job'[v] \notin waiting' \cup marked'
  BY <1>1, <1>3, <1>5, <1>7 DEF JobsInv
<1>9. \A u, v \in Workers : u # v /\ job'[u] = job'[v] => pc'[u] = "idle"
  BY <1>5, <1>6 DEF JobsInv
<1>10. waiting' \cap marked' = {} /\ \A n \in waiting' : attempts'[n] < Tries
  BY <1>1, <1>2, <1>3 DEF JobsInv
<1>. QED
  BY <1>4, <1>6, <1>8, <1>9, <1>10 DEF JobsInv

LEMMA ActJobs ==
    ASSUME JobTypes, JobsInv, NEW w \in Workers, Act(w)
    PROVE  JobTypes' /\ JobsInv'
<1>1. CASE Stays
  BY <1>1 DEF Stays, JobTypes, JobsInv
<1>. QED
  BY <1>1, JobStep, TakesJobs, GoesJobs, LeavesJobs

-----------------------------------------------------------------------------
(* The connection *)

InEscalation(w) == pc[w] \in {"agent", "commit"}

\* The level the connection had before the escalation under way.
Base(w) == IF InEscalation(w) THEN depth[w] - 1 ELSE depth[w]

ConnTypes ==
    /\ depth \in [Workers -> Nat]
    /\ buffer \in [Workers -> SUBSET Written]
    /\ locks \in [Workers -> SUBSET Customers]
    /\ aborted \subseteq Workers
    /\ committed \subseteq Written

LevelInv == \A w \in Workers : InEscalation(w) => depth[w] > 0

BoundTypes == leaks \in Nat /\ errors \in 0..MaxErrors /\ exits \in 0..MaxExits

\* The connection is at its base level again after each step of an escalation, but for the
\* return that leaves the transaction open; and a closed one is at none.
LevelStep(w) ==
    \/ Base(w)' = Base(w)
    \/ NoAgentFound(w) /\ Base(w)' = Base(w) + 1
    \/ Disconnect(w) /\ Base(w)' = 0

LEMMA ActLevel ==
    ASSUME JobTypes, ConnTypes, LevelInv, NEW w \in Workers, Act(w)
    PROVE  depth' \in [Workers -> Nat] /\ LevelInv' /\ LevelStep(w)
<1>. DEFINE d == depth[w]
<1>1. d \in Nat /\ pc[w] \in PCs
  BY DEF ConnTypes, JobTypes
<1>2. ASSUME Take(w) \/ WriteCustomer(w) \/ WriteMessage(w) \/ Finish(w)
             \/ StatementRefused(w) \/ StatementFails(w)
      PROVE  depth' = depth /\ pc'[w] \notin {"agent", "commit"} /\ ~InEscalation(w)
  <2>1. depth' = depth
    BY <1>2 DEF Take, WriteCustomer, WriteMessage, Finish, StatementRefused, StatementFails,
                connectionVars
  <2>2. pc'[w] \in {"customer", "message", "escalation", "finish", "idle"} /\ ~InEscalation(w)
    BY <1>2 DEF Take, WriteCustomer, WriteMessage, Finish, StatementRefused, StatementFails,
                Running, Goto, GiveBack, InEscalation, JobTypes
  <2>. QED
    BY <2>1, <2>2
<1>3. ASSUME BeginEscalation(w)
      PROVE  depth' = [depth EXCEPT ![w] = d + 1] /\ pc'[w] = "agent" /\ ~InEscalation(w)
  BY <1>3 DEF BeginEscalation, Running, Goto, InEscalation, JobTypes
<1>4. ASSUME NoAgentFound(w)
      PROVE  depth' = depth /\ pc'[w] = "finish" /\ InEscalation(w)
  BY <1>4 DEF NoAgentFound, Running, Goto, InEscalation, JobTypes, connectionVars
<1>5. ASSUME HandOver(w)
      PROVE  depth' = depth /\ pc'[w] = "commit" /\ InEscalation(w)
  BY <1>5 DEF HandOver, Running, Goto, InEscalation, JobTypes
<1>6. ASSUME Commit(w) \/ RollBack(w)
      PROVE  depth' = [depth EXCEPT ![w] = d - 1] /\ pc'[w] = "finish" /\ InEscalation(w)
  BY <1>6 DEF Commit, RollBack, Running, Goto, InEscalation, JobTypes
<1>7. ASSUME TimeOut(w) \/ Exit(w)
      PROVE  Disconnect(w) /\ pc'[w] = "idle"
  BY <1>7 DEF TimeOut, Exit, GiveBack, Goto, JobTypes, jobVars
<1>8. InEscalation(w) => d - 1 \in Nat
  BY <1>1 DEF LevelInv
<1>9. \A v \in Workers \ {w} : pc'[v] = pc[v]
  BY JobStep DEF Takes, Goes, GivesBack, GiveBack, Goto, Finishes, Stays, JobTypes
<1>10. \/ depth' = depth
       \/ depth' = [depth EXCEPT ![w] = d + 1] /\ pc'[w] = "agent"
       \/ depth' = [depth EXCEPT ![w] = d - 1] /\ InEscalation(w)
       \/ depth' = [depth EXCEPT ![w] = 0]
  BY <1>2, <1>3, <1>4, <1>5, <1>6, <1>7 DEF Act, Step, Disconnect
<1>11. depth' \in [Workers -> Nat] /\ \A v \in Workers \ {w} : depth'[v] = depth[v]
  BY <1>1, <1>8, <1>10 DEF ConnTypes
<1>12. LevelStep(w) /\ (InEscalation(w)' => depth'[w] > 0)
  <2>1. CASE Take(w) \/ WriteCustomer(w) \/ WriteMessage(w) \/ Finish(w)
             \/ StatementRefused(w) \/ StatementFails(w)
    BY <1>2, <2>1 DEF LevelStep, Base, InEscalation
  <2>2. CASE BeginEscalation(w)
    <3>1. depth'[w] = d + 1
      BY <1>3, <2>2 DEF ConnTypes
    <3>. QED
      BY <1>1, <1>3, <2>2, <3>1 DEF LevelStep, Base, InEscalation
  <2>3. CASE NoAgentFound(w)
    BY <1>1, <1>4, <2>3 DEF LevelStep, Base, InEscalation
  <2>4. CASE HandOver(w)
    BY <1>1, <1>5, <2>4 DEF LevelStep, Base, InEscalation, LevelInv
  <2>5. CASE Commit(w) \/ RollBack(w)
    <3>1. depth'[w] = d - 1
      BY <1>6, <2>5 DEF ConnTypes
    <3>. QED
      BY <1>1, <1>6, <2>5, <3>1 DEF LevelStep, Base, InEscalation
  <2>6. CASE TimeOut(w) \/ Exit(w)
    <3>1. depth'[w] = 0 /\ pc'[w] = "idle" /\ Disconnect(w)
      BY <1>7, <2>6 DEF Disconnect, ConnTypes
    <3>. QED
      BY <3>1 DEF LevelStep, Base, InEscalation
  <2>. QED
    BY <2>1, <2>2, <2>3, <2>4, <2>5, <2>6 DEF Act, Step
<1>13. \A v \in Workers \ {w} : InEscalation(v)' <=> InEscalation(v)
  BY <1>9 DEF InEscalation
<1>14. LevelInv'
  BY <1>11, <1>12, <1>13 DEF LevelInv
<1>. QED
  BY <1>11, <1>12, <1>14

\* What a step of a worker does to the rows: it may write one, make its own rows visible to
\* all, take back what the escalation wrote, or lose what is pending.
Writes(w, row) == Write(w, row) /\ UNCHANGED job

Shrinks(w) ==
    \/ UNCHANGED <<buffer, committed>>
    \/ committed' = committed \cup buffer[w] /\ buffer' = [buffer EXCEPT ![w] = {}]
    \/ committed' = committed /\ buffer' = [buffer EXCEPT ![w] = {}]
    \/ committed' = committed /\ buffer' = [buffer EXCEPT ![w] = @ \ {HandoverRow(job[w])}]

WritesRow(w) ==
    \/ pc[w] = "customer" /\ pc' = [pc EXCEPT ![w] = "message"]
       /\ CustomerFree(w, Sender[job[w]]) /\ CustomerRow(Sender[job[w]]) \notin Visible(w)
       /\ Writes(w, CustomerRow(Sender[job[w]]))
    \/ pc[w] = "message" /\ (\E l \in {"escalation", "finish"} : pc' = [pc EXCEPT ![w] = l])
       /\ Writes(w, MessageRow(job[w]))
    \/ pc[w] = "agent" /\ pc' = [pc EXCEPT ![w] = "commit"] /\ Writes(w, HandoverRow(job[w]))

LEMMA RowStep ==
    ASSUME NEW w \in Workers, Act(w)
    PROVE  Shrinks(w) \/ WritesRow(w)
<1>1. CASE Take(w) \/ Finish(w) \/ StatementFails(w) \/ StatementRefused(w)
           \/ BeginEscalation(w) \/ NoAgentFound(w)
  BY <1>1 DEF Take, Finish, StatementFails, StatementRefused, BeginEscalation, NoAgentFound,
              connectionVars, Shrinks
<1>2. CASE TimeOut(w) \/ Exit(w)
  BY <1>2 DEF TimeOut, Exit, Disconnect, Shrinks
<1>3. CASE Commit(w)
  BY <1>3 DEF Commit, Shrinks
<1>4. CASE RollBack(w)
  BY <1>4 DEF RollBack, Shrinks
<1>5. CASE WriteCustomer(w)
  BY <1>5 DEF WriteCustomer, Running, Goto, Shrinks, WritesRow, Writes
<1>6. CASE WriteMessage(w)
  BY <1>6 DEF WriteMessage, Running, Goto, Shrinks, WritesRow, Writes
<1>7. CASE HandOver(w)
  BY <1>7 DEF HandOver, Running, Goto, WritesRow, Writes
<1>. QED
  BY <1>1, <1>2, <1>3, <1>4, <1>5, <1>6, <1>7 DEF Act, Step

LEMMA ActRowTypes ==
    ASSUME JobTypes, JobsInv, ConnTypes, NEW w \in Workers, Act(w)
    PROVE  /\ buffer' \in [Workers -> SUBSET Written]
           /\ committed' \subseteq Written
           /\ \A v \in Workers \ {w} : buffer'[v] = buffer[v]
<1>1. buffer[w] \subseteq Written
  BY DEF ConnTypes
<1>2. CASE Shrinks(w)
  BY <1>1, <1>2 DEF Shrinks, ConnTypes
<1>3. ASSUME NEW row \in Written, Write(w, row)
      PROVE  /\ buffer' \in [Workers -> SUBSET Written]
             /\ committed' \subseteq Written
             /\ \A v \in Workers \ {w} : buffer'[v] = buffer[v]
  BY <1>1, <1>3 DEF Write, ConnTypes
<1>4. CASE WritesRow(w)
  <2>1. job[w] \in Messages
    BY <1>4 DEF WritesRow, JobTypes, JobsInv
  <2>2. {CustomerRow(Sender[job[w]]), MessageRow(job[w]), HandoverRow(job[w])} \subseteq Written
    BY <2>1, SenderAssumption DEF Written
  <2>. QED
    BY <1>3, <1>4, <2>2 DEF WritesRow, Writes
<1>. QED
  BY <1>2, <1>4, RowStep

LEMMA ActConn ==
    ASSUME JobTypes, JobsInv, ConnTypes, LevelInv, NEW w \in Workers, Act(w)
    PROVE  ConnTypes'
<1>1. locks' \in [Workers -> SUBSET Customers]
  <2>1. CASE WriteCustomer(w)
    <3>1. Sender[job[w]] \in Customers /\ locks[w] \cup {Sender[job[w]]} \subseteq Customers
      BY <2>1, SenderAssumption DEF WriteCustomer, Running, JobTypes, JobsInv, ConnTypes
    <3>. QED
      BY <2>1, <3>1 DEF WriteCustomer, ConnTypes
  <2>2. CASE ~WriteCustomer(w)
    <3>1. locks' = locks \/ locks' = [locks EXCEPT ![w] = {}]
      BY <2>2 DEF Act, Step, Take, WriteMessage, BeginEscalation, NoAgentFound, HandOver, Commit,
                  Finish, StatementRefused, TimeOut, RollBack, StatementFails, Exit, Disconnect,
                  connectionVars
    <3>. QED
      BY <3>1 DEF ConnTypes
  <2>. QED
    BY <2>1, <2>2
<1>2. aborted' \subseteq Workers
  <2>1. aborted' \subseteq aborted \cup {w}
    BY DEF Act, Step, Take, WriteCustomer, WriteMessage, BeginEscalation, NoAgentFound, HandOver,
           Commit, Finish, StatementRefused, TimeOut, RollBack, StatementFails, Exit, Disconnect,
           connectionVars
  <2>. QED
    BY <2>1 DEF ConnTypes
<1>. QED
  BY <1>1, <1>2, ActLevel, ActRowTypes DEF ConnTypes

LEMMA ActBounds ==
    ASSUME BoundTypes, NEW w \in Workers, Act(w)
    PROVE  BoundTypes'
<1>1. /\ leaks' = leaks \/ leaks' = leaks + 1
      /\ errors' = errors \/ (errors < MaxErrors /\ errors' = errors + 1)
      /\ exits' = exits \/ (exits < MaxExits /\ exits' = exits + 1)
  BY DEF Act, Step, Take, WriteCustomer, WriteMessage, BeginEscalation, NoAgentFound, HandOver,
         Commit, Finish, StatementRefused, TimeOut, RollBack, StatementFails, Exit, countVars
<1>. QED
  BY <1>1, WorkerBounds DEF BoundTypes

-----------------------------------------------------------------------------
(* Type correctness *)

TypeInv == JobTypes /\ JobsInv /\ ConnTypes /\ LevelInv /\ BoundTypes

LEMMA InitTypes == Init => TypeInv
<1>1. 0 \in 0..Tries /\ 0 < Tries /\ 0 \in 0..MaxErrors /\ 0 \in 0..MaxExits
  BY WorkerBounds
<1>2. {} \subseteq Written /\ {} \subseteq Customers /\ {} \subseteq Workers
  OBVIOUS
<1>3. ASSUME Init PROVE JobTypes /\ JobsInv
  BY <1>1, <1>3, WorkerBounds DEF Init, JobTypes, JobsInv, PCs
<1>4. ASSUME Init PROVE ConnTypes /\ LevelInv /\ BoundTypes
  BY <1>1, <1>2, <1>4 DEF Init, ConnTypes, LevelInv, InEscalation, BoundTypes
<1>. QED
  BY <1>3, <1>4 DEF TypeInv

LEMMA NextActs == Next <=> \E w \in Workers : Act(w)
  BY DEF Next, Act

LEMMA NextTypes == TypeInv /\ [Next]_vars => TypeInv'
<1>1. CASE UNCHANGED vars
  BY <1>1 DEF vars, jobVars, connectionVars, countVars, TypeInv, JobTypes, JobsInv, ConnTypes,
              LevelInv, InEscalation, BoundTypes
<1>2. ASSUME TypeInv, NEW w \in Workers, Act(w)
      PROVE  TypeInv'
  BY <1>2, ActJobs, ActConn, ActLevel, ActBounds DEF TypeInv
<1>. QED
  BY <1>1, <1>2, NextActs

LEMMA TypeAlways == Spec => []TypeInv
  BY InitTypes, NextTypes, PTL DEF Spec

\* Jobs, connections and rows keep their types; no connection is below level zero, and no
\* job is delivered more often than it may be tried.
THEOREM TypeCorrect == Spec => []TypeOK
<1>1. TypeInv => TypeOK
  BY DEF TypeInv, JobTypes, ConnTypes, BoundTypes, TypeOK
<1>. QED
  BY <1>1, TypeAlways, PTL

-----------------------------------------------------------------------------
(* Whose rows there are *)

Fresh(row) == row \notin committed /\ \A v \in Workers : row \notin buffer[v]

\* A message that waits has no rows, one that is worked on has those of the steps behind
\* it; and who has the pending row of a customer has the lock on it.
RowsInv ==
    /\ \A m \in waiting : Fresh(MessageRow(m)) /\ Fresh(HandoverRow(m))
    /\ \A w \in Workers :
          /\ pc[w] \in {"customer", "message"} => Fresh(MessageRow(job[w]))
          /\ pc[w] \in {"customer", "message", "escalation", "agent"}
                => Fresh(HandoverRow(job[w]))

LockInv == \A w \in Workers : \A c \in Customers : CustomerRow(c) \in buffer[w] => c \in locks[w]

LEMMA RowsDiffer ==
    ASSUME NEW a, NEW b
    PROVE  /\ MessageRow(a) # HandoverRow(b) /\ MessageRow(a) # CustomerRow(b)
           /\ HandoverRow(a) # CustomerRow(b)
           /\ MessageRow(a) = MessageRow(b) => a = b
           /\ HandoverRow(a) = HandoverRow(b) => a = b
           /\ CustomerRow(a) = CustomerRow(b) => a = b
  BY DEF MessageRow, HandoverRow, CustomerRow

\* A row that is nowhere stays so unless the step writes it.
LEMMA FreshStays ==
    ASSUME TypeInv, NEW w \in Workers, Act(w), NEW row, Fresh(row),
           pc[w] = "customer" => row # CustomerRow(Sender[job[w]]),
           pc[w] = "message" => row # MessageRow(job[w]),
           pc[w] = "agent" => row # HandoverRow(job[w])
    PROVE  Fresh(row)'
<1>1. CASE Shrinks(w)
  BY <1>1 DEF Shrinks, Fresh, TypeInv, ConnTypes
<1>2. ASSUME NEW other, other # row, Write(w, other)
      PROVE  Fresh(row)'
  BY <1>2 DEF Write, Fresh, TypeInv, ConnTypes
<1>3. CASE WritesRow(w)
  BY <1>2, <1>3 DEF WritesRow, Writes
<1>. QED
  BY <1>1, <1>3, RowStep

LEMMA ActRows ==
    ASSUME TypeInv, RowsInv, NEW w \in Workers, Act(w)
    PROVE  RowsInv'
<1>1. ASSUME NEW m, m # job[w]
      PROVE  /\ Fresh(MessageRow(m)) => Fresh(MessageRow(m))'
             /\ Fresh(HandoverRow(m)) => Fresh(HandoverRow(m))'
  BY <1>1, FreshStays, RowsDiffer
<1>2. ASSUME NEW m
      PROVE  /\ pc[w] # "message" /\ Fresh(MessageRow(m)) => Fresh(MessageRow(m))'
             /\ pc[w] # "agent" /\ Fresh(HandoverRow(m)) => Fresh(HandoverRow(m))'
  BY FreshStays, RowsDiffer
<1>3. ASSUME NEW v \in Workers \ {w}
      PROVE  /\ job'[v] = job[v] /\ pc'[v] = pc[v]
             /\ pc[v] # "idle" => job[v] # job[w]
  <2>1. job'[v] = job[v] /\ pc'[v] = pc[v]
    BY JobStep DEF Takes, Goes, GivesBack, GiveBack, Goto, Finishes, Stays, TypeInv, JobTypes
  <2>. QED
    BY <2>1 DEF TypeInv, JobsInv
<1>4. ASSUME NEW v \in Workers \ {w}
      PROVE  /\ pc'[v] \in {"customer", "message"} => Fresh(MessageRow(job[v]))'
             /\ pc'[v] \in {"customer", "message", "escalation", "agent"}
                   => Fresh(HandoverRow(job[v]))'
  BY <1>1, <1>3 DEF RowsInv
<1>5. \A m \in waiting : m # job[w]
  BY DEF TypeInv, JobsInv
<1>6. ASSUME NEW m \in waiting
      PROVE  Fresh(MessageRow(m))' /\ Fresh(HandoverRow(m))'
  BY <1>1, <1>5 DEF RowsInv
<1>7. ASSUME NEW m \in waiting'
      PROVE  Fresh(MessageRow(m))' /\ Fresh(HandoverRow(m))'
  <2>1. CASE m \in waiting
    BY <1>6, <2>1
  <2>2. CASE m \notin waiting
    <3>1. GivesBack(w) /\ m = job[w]
      BY <2>2, JobStep DEF Takes, Goes, GivesBack, GiveBack, Finishes, Stays
    <3>2. Shrinks(w)
      <4>1. pc'[w] = "idle"
        BY <3>1 DEF GivesBack, GiveBack, Goto, TypeInv, JobTypes
      <4>. QED
        BY <4>1, RowStep DEF WritesRow, TypeInv, JobTypes
    <3>3. Fresh(MessageRow(job[w])) /\ Fresh(HandoverRow(job[w]))
      BY <3>1 DEF GivesBack, RowsInv
    <3>. QED
      BY <3>1, <3>2, <3>3 DEF Shrinks, Fresh, TypeInv, ConnTypes
  <2>. QED
    BY <2>1, <2>2
<1>8. /\ pc'[w] \in {"customer", "message"} => Fresh(MessageRow(job[w]))'
      /\ pc'[w] \in {"customer", "message", "escalation", "agent"}
            => Fresh(HandoverRow(job[w]))'
  <2>1. CASE Takes(w)
    <3>1. job'[w] \in waiting
      BY <2>1 DEF Takes, TypeInv, JobTypes
    <3>. QED
      BY <1>6, <3>1
  <2>2. CASE Goes(w)
    <3>1. <<pc[w], pc'[w]>> \in Edges /\ job'[w] = job[w]
      BY <2>2 DEF Goes, TypeInv, JobTypes
    <3>2. pc'[w] \in {"customer", "message"} => pc[w] = "customer"
      BY <3>1 DEF Edges
    <3>3. pc'[w] \in {"customer", "message", "escalation", "agent"}
             => pc[w] \in {"customer", "message", "escalation"}
      BY <3>1 DEF Edges
    <3>. QED
      BY <1>2, <3>1, <3>2, <3>3 DEF RowsInv
  <2>3. CASE GivesBack(w) \/ Finishes(w)
    <3>1. pc'[w] = "idle"
      BY <2>3 DEF GivesBack, GiveBack, Goto, Finishes, TypeInv, JobTypes
    <3>. QED
      BY <3>1
  <2>4. CASE Stays
    <3>1. Shrinks(w)
      BY <2>4, RowStep DEF Stays, WritesRow, TypeInv, JobTypes
    <3>2. \A row : Fresh(row) => Fresh(row)'
      BY <3>1 DEF Shrinks, Fresh, TypeInv, ConnTypes
    <3>. QED
      BY <2>4, <3>2 DEF Stays, RowsInv
  <2>. QED
    BY <2>1, <2>2, <2>3, <2>4, JobStep
<1>9. \A v \in Workers : /\ pc'[v] \in {"customer", "message"} => Fresh(MessageRow(job[v]))'
                         /\ pc'[v] \in {"customer", "message", "escalation", "agent"}
                               => Fresh(HandoverRow(job[v]))'
  BY <1>3, <1>4, <1>8
<1>. QED
  BY <1>7, <1>9 DEF RowsInv

LEMMA ActLocks ==
    ASSUME TypeInv, LockInv, NEW w \in Workers, Act(w)
    PROVE  LockInv'
<1>1. /\ \A v \in Workers \ {w} : buffer'[v] = buffer[v]
      /\ \A v \in Workers \ {w} : locks'[v] = locks[v]
  BY ActRowTypes DEF TypeInv, ConnTypes, Act, Step, Take, WriteCustomer, WriteMessage,
     BeginEscalation, NoAgentFound, HandOver, Commit, Finish, StatementRefused, TimeOut,
     RollBack, StatementFails, Exit, Disconnect, connectionVars
<1>2. \A c \in Customers : CustomerRow(c) \in buffer'[w] => c \in locks'[w]
  <2>1. CASE Commit(w) \/ TimeOut(w) \/ Exit(w)
    <3>1. buffer'[w] = {} \/ (buffer' = buffer /\ locks' = locks)
      BY <2>1 DEF Commit, TimeOut, Exit, Disconnect, TypeInv, ConnTypes
    <3>. QED
      BY <3>1 DEF LockInv
  <2>2. CASE WriteCustomer(w)
    <3>. DEFINE c == Sender[job[w]]
    <3>1. depth[w] = 0 => buffer' = buffer /\ locks' = locks
      BY <2>2 DEF WriteCustomer, Write
    <3>2. depth[w] # 0 => locks'[w] = locks[w] \cup {c} /\ buffer'[w] \subseteq buffer[w] \cup {CustomerRow(c)}
      BY <2>2 DEF WriteCustomer, Write, TypeInv, ConnTypes
    <3>. QED
      BY <3>1, <3>2, RowsDiffer DEF LockInv
  <2>3. CASE WriteMessage(w) \/ HandOver(w)
    <3>1. locks' = locks /\ buffer'[w] \subseteq buffer[w] \cup {MessageRow(job[w]), HandoverRow(job[w])}
      BY <2>3 DEF WriteMessage, HandOver, Write, TypeInv, ConnTypes
    <3>. QED
      BY <3>1, RowsDiffer DEF LockInv
  <2>4. CASE RollBack(w)
    <3>1. locks' = locks /\ buffer'[w] \subseteq buffer[w]
      BY <2>4 DEF RollBack, TypeInv, ConnTypes
    <3>. QED
      BY <3>1 DEF LockInv
  <2>5. CASE Take(w) \/ Finish(w) \/ StatementFails(w) \/ StatementRefused(w)
             \/ BeginEscalation(w) \/ NoAgentFound(w)
    <3>1. locks' = locks /\ buffer' = buffer
      BY <2>5 DEF Take, Finish, StatementFails, StatementRefused, BeginEscalation, NoAgentFound,
                  connectionVars
    <3>. QED
      BY <3>1 DEF LockInv
  <2>. QED
    BY <2>1, <2>2, <2>3, <2>4, <2>5 DEF Act, Step
<1>. QED
  BY <1>1, <1>2 DEF LockInv

\* What is pending is pending once, and not committed.
LEMMA ActExclusive ==
    ASSUME TypeInv, RowsInv, LockInv, PendingIsExclusive, NEW w \in Workers, Act(w)
    PROVE  PendingIsExclusive'
<1>1. CASE Shrinks(w)
  BY <1>1 DEF Shrinks, PendingIsExclusive, Others, TypeInv, ConnTypes
<1>2. ASSUME NEW row, Fresh(row), Write(w, row)
      PROVE  PendingIsExclusive'
  BY <1>2 DEF Write, Fresh, PendingIsExclusive, Others, TypeInv, ConnTypes
<1>3. CASE WritesRow(w)
  <2>1. CASE Write(w, CustomerRow(Sender[job[w]])) /\ pc[w] = "customer"
             /\ CustomerFree(w, Sender[job[w]]) /\ CustomerRow(Sender[job[w]]) \notin Visible(w)
    <3>1. Sender[job[w]] \in Customers
      BY <2>1, SenderAssumption DEF TypeInv, JobTypes, JobsInv
    <3>2. \A v \in Workers \ {w} : CustomerRow(Sender[job[w]]) \notin buffer[v]
      BY <2>1, <3>1 DEF CustomerFree, Others, LockInv
    <3>3. Fresh(CustomerRow(Sender[job[w]]))
      BY <2>1, <3>2 DEF Visible, Fresh
    <3>. QED
      BY <1>2, <2>1, <3>3
  <2>2. CASE Write(w, MessageRow(job[w])) /\ pc[w] = "message"
    BY <1>2, <2>2 DEF RowsInv
  <2>3. CASE Write(w, HandoverRow(job[w])) /\ pc[w] = "agent"
    BY <1>2, <2>3 DEF RowsInv
  <2>. QED
    BY <1>3, <2>1, <2>2, <2>3 DEF WritesRow, Writes
<1>. QED
  BY <1>1, <1>3, RowStep

PendingInv == RowsInv /\ LockInv /\ PendingIsExclusive

LEMMA InitPending == Init => PendingInv
  BY WorkerBounds DEF Init, PendingInv, RowsInv, LockInv, PendingIsExclusive, Fresh, Others

LEMMA NextPending == TypeInv /\ PendingInv /\ [Next]_vars => PendingInv'
<1>1. CASE UNCHANGED vars
  BY <1>1 DEF vars, jobVars, connectionVars, PendingInv, RowsInv, LockInv, PendingIsExclusive,
              Fresh, Others
<1>2. ASSUME TypeInv, PendingInv, NEW w \in Workers, Act(w)
      PROVE  PendingInv'
  BY <1>2, ActRows, ActLocks, ActExclusive DEF PendingInv
<1>. QED
  BY <1>1, <1>2, NextActs

LEMMA PendingAlways == Spec => []PendingInv
  BY InitPending, NextPending, TypeAlways, PTL DEF Spec

\* However many workers overlap, and however their transactions end, a row that is pending
\* on one connection is pending nowhere else and not committed.
THEOREM PendingSafe == Spec => []PendingIsExclusive
  BY PendingAlways, PTL DEF PendingInv

-----------------------------------------------------------------------------
(* What is in a transaction that was left open *)

LeakInv ==
    \A w \in Workers : \A m \in Messages : MessageRow(m) \in buffer[w] => Base(w) > 0

LEMMA OthersLevel ==
    ASSUME TypeInv, NEW w \in Workers, Act(w)
    PROVE  \A v \in Workers \ {w} :
              /\ pc'[v] = pc[v] /\ job'[v] = job[v] /\ depth'[v] = depth[v]
              /\ locks'[v] = locks[v] /\ buffer'[v] = buffer[v] /\ Base(v)' = Base(v)
<1>1. \A v \in Workers \ {w} : pc'[v] = pc[v] /\ job'[v] = job[v]
  BY JobStep DEF Takes, Goes, GivesBack, GiveBack, Goto, Finishes, Stays, TypeInv, JobTypes
<1>2. \A v \in Workers \ {w} : depth'[v] = depth[v] /\ locks'[v] = locks[v]
  BY DEF TypeInv, ConnTypes, Act, Step, Take, WriteCustomer, WriteMessage, BeginEscalation,
     NoAgentFound, HandOver, Commit, Finish, StatementRefused, TimeOut, RollBack,
     StatementFails, Exit, Disconnect, connectionVars
<1>. QED
  BY <1>1, <1>2, ActRowTypes DEF Base, InEscalation, TypeInv

\* Only a commit at the outermost level makes pending rows visible, and it commits a
\* transaction that the escalation itself has begun.
LEMMA CommitStep ==
    ASSUME TypeInv, NEW w \in Workers, Act(w)
    PROVE  WritesRow(w) \/ committed' = committed
           \/ (Base(w) = 0 /\ committed' = committed \cup buffer[w])
<1>1. CASE Commit(w)
  BY <1>1 DEF Commit, Running, Base, InEscalation, TypeInv, ConnTypes
<1>2. CASE WriteCustomer(w) \/ WriteMessage(w) \/ HandOver(w)
  BY <1>2, RowStep DEF WriteCustomer, WriteMessage, HandOver, Running, Goto, WritesRow, Writes
<1>3. CASE ~(Commit(w) \/ WriteCustomer(w) \/ WriteMessage(w) \/ HandOver(w))
  BY <1>3 DEF Act, Step, Take, BeginEscalation, NoAgentFound, Finish, StatementRefused, TimeOut,
              RollBack, StatementFails, Exit
<1>. QED
  BY <1>1, <1>2, <1>3

LEMMA ActLeak ==
    ASSUME TypeInv, LeakInv, NEW w \in Workers, Act(w)
    PROVE  LeakInv'
<1>1. LevelStep(w) /\ Base(w) \in Int
  BY ActLevel DEF TypeInv, ConnTypes, Base
<1>2. ASSUME NEW m \in Messages, MessageRow(m) \in buffer'[w]
      PROVE  Base(w)' > 0
  <2>1. ~Disconnect(w)
    BY <1>2 DEF Disconnect, TypeInv, ConnTypes
  <2>2. CASE MessageRow(m) \in buffer[w]
    BY <1>1, <2>1, <2>2 DEF LevelStep, LeakInv
  <2>3. CASE MessageRow(m) \notin buffer[w]
    <3>1. ~Shrinks(w)
      BY <1>2, <2>3 DEF Shrinks, TypeInv, ConnTypes
    <3>2. PICK row : Write(w, row) /\ (row = MessageRow(m) => pc[w] = "message")
      BY <3>1, RowStep, RowsDiffer DEF WritesRow, Writes
    <3>3. row = MessageRow(m) /\ depth[w] # 0
      BY <1>2, <2>3, <3>2 DEF Write, TypeInv, ConnTypes
    <3>4. Base(w) > 0
      BY <3>2, <3>3 DEF Base, InEscalation, TypeInv, ConnTypes
    <3>. QED
      BY <1>1, <2>1, <3>4 DEF LevelStep
  <2>. QED
    BY <2>2, <2>3
<1>3. ASSUME NEW v \in Workers \ {w}, NEW m \in Messages, MessageRow(m) \in buffer'[v]
      PROVE  Base(v)' > 0
  BY <1>3, OthersLevel DEF LeakInv
<1>. QED
  BY <1>2, <1>3 DEF LeakInv

LEMMA InitLeak == Init => LeakInv
  BY DEF Init, LeakInv

LEMMA NextLeak == TypeInv /\ LeakInv /\ [Next]_vars => LeakInv'
<1>1. CASE UNCHANGED vars
  BY <1>1 DEF vars, jobVars, connectionVars, LeakInv, Base, InEscalation
<1>. QED
  BY <1>1, ActLeak, NextActs

\* For any number of workers, messages and escalations: no row of a message that is in a
\* transaction left open is ever committed.
THEOREM LeakSafe == Spec => LeakIsForGood
<1>1. ASSUME TypeInv, PendingInv, LeakInv, [Next]_vars,
             NEW v \in Workers, NEW m \in Messages, MessageRow(m) \in buffer[v]
      PROVE  MessageRow(m) \notin committed'
  <2>1. MessageRow(m) \notin committed
    BY <1>1 DEF PendingInv, PendingIsExclusive
  <2>2. ASSUME NEW w \in Workers, Act(w)
        PROVE  MessageRow(m) \notin committed'
    <3>1. CASE WritesRow(w)
      <4>1. PICK row : Write(w, row) /\ (row = MessageRow(m) => Fresh(row))
        BY <1>1, <3>1, RowsDiffer DEF WritesRow, Writes, PendingInv, RowsInv
      <4>2. row # MessageRow(m)
        BY <1>1, <4>1 DEF Fresh
      <4>. QED
        BY <2>1, <4>1, <4>2 DEF Write
    <3>2. CASE committed' = committed
      BY <2>1, <3>2
    <3>3. CASE Base(w) = 0 /\ committed' = committed \cup buffer[w]
      BY <1>1, <2>1, <3>3 DEF LeakInv
    <3>. QED
      BY <1>1, <2>2, <3>1, <3>2, <3>3, CommitStep
  <2>3. CASE UNCHANGED vars
    BY <2>1, <2>3 DEF vars
  <2>. QED
    BY <1>1, <2>2, <2>3, NextActs
<1>2. TypeInv /\ PendingInv /\ LeakInv /\ [Next]_vars =>
         [\A w \in Workers, m \in Messages :
             MessageRow(m) \in buffer[w] => MessageRow(m) \notin committed']_vars
  BY <1>1
<1>. QED
  BY <1>2, TypeAlways, PendingAlways, InitLeak, NextLeak, PTL DEF Spec, LeakIsForGood

-----------------------------------------------------------------------------
(* As long as nothing was left open *)

CleanWorker(v) ==
    /\ Base(v) = 0
    /\ locks[v] = {}
    /\ buffer[v] \subseteq (IF pc[v] = "commit" THEN {HandoverRow(job[v])} ELSE {})
    /\ pc[v] \in {"escalation", "agent", "commit", "finish"} => MessageRow(job[v]) \in committed
    /\ pc[v] # "idle" => attempts[job[v]] <= errors + 1

CleanQueue ==
    /\ aborted = {}
    /\ \A m \in marked : MessageRow(m) \in committed
    /\ \A m \in waiting : attempts[m] <= errors
    /\ failed # {} => Tries <= errors

CleanInv == leaks = 0 => CleanQueue /\ \A v \in Workers : CleanWorker(v)

\* The steps a worker may still take, and that they take nothing away.
LEMMA CleanStep ==
    ASSUME TypeInv, CleanInv, leaks' = 0, NEW w \in Workers, Act(w)
    PROVE  /\ CleanQueue /\ \A v \in Workers : CleanWorker(v)
           /\ ~NoAgentFound(w) /\ ~StatementRefused(w) /\ ~TimeOut(w)
           /\ Base(w)' = 0
           /\ committed \subseteq committed'
           /\ errors \in Nat /\ errors' \in {errors, errors + 1}
<1>1. leaks \in Nat /\ (leaks' = leaks \/ (NoAgentFound(w) /\ leaks' = leaks + 1))
  BY DEF TypeInv, BoundTypes, Act, Step, Take, WriteCustomer, WriteMessage, BeginEscalation,
     NoAgentFound, HandOver, Commit, Finish, StatementRefused, TimeOut, RollBack,
     StatementFails, Exit, countVars
<1>2. leaks = 0 /\ ~NoAgentFound(w)
  BY <1>1 DEF NoAgentFound
<1>3. CleanQueue /\ \A v \in Workers : CleanWorker(v)
  BY <1>2 DEF CleanInv
<1>4. ~StatementRefused(w)
  BY <1>3 DEF StatementRefused, CleanQueue
<1>5. ~TimeOut(w)
  BY <1>3 DEF TimeOut, CustomerFree, Others, CleanWorker
<1>6. Base(w)' = 0
  BY <1>2, <1>3, ActLevel DEF LevelStep, CleanWorker, TypeInv
<1>7. committed \subseteq committed'
  BY RowStep DEF Shrinks, WritesRow, Writes, Write
<1>8. errors \in Nat /\ errors' \in {errors, errors + 1}
  BY DEF TypeInv, BoundTypes, Act, Step, Take, WriteCustomer, WriteMessage, BeginEscalation,
     NoAgentFound, HandOver, Commit, Finish, StatementRefused, TimeOut, RollBack,
     StatementFails, Exit, countVars
<1>. QED
  BY <1>2, <1>3, <1>4, <1>5, <1>6, <1>7, <1>8

LEMMA CleanRows ==
    ASSUME TypeInv, CleanInv, leaks' = 0, NEW w \in Workers, Act(w)
    PROVE  /\ locks'[w] = {}
           /\ buffer'[w] \subseteq (IF pc'[w] = "commit" THEN {HandoverRow(job'[w])} ELSE {})
           /\ aborted' = {}
<1>1. CleanWorker(w) /\ aborted = {} /\ ~NoAgentFound(w) /\ ~StatementRefused(w) /\ ~TimeOut(w)
  BY CleanStep DEF CleanQueue
<1>2. ~InEscalation(w) => depth[w] = 0
  BY <1>1 DEF CleanWorker, Base
<1>3. InEscalation(w) => depth[w] = 1
  BY <1>1 DEF CleanWorker, Base, TypeInv, ConnTypes
<1>4. CASE Take(w) \/ Finish(w) \/ Exit(w)
  <2>1. pc[w] # "commit" /\ pc'[w] # "commit"
    BY <1>4 DEF Take, Finish, Exit, Goto, TypeInv, JobTypes, jobVars
  <2>. QED
    BY <1>1, <1>4, <2>1 DEF Take, Finish, Exit, Disconnect, CleanWorker, connectionVars, TypeInv,
                            ConnTypes
<1>5. CASE StatementFails(w)
  <2>1. depth[w] = 0 /\ pc[w] # "commit" /\ pc'[w] = "idle"
    BY <1>2, <1>5 DEF StatementFails, GiveBack, Goto, InEscalation, TypeInv, JobTypes
  <2>. QED
    BY <1>1, <1>5, <2>1 DEF StatementFails, CleanWorker
<1>6. CASE WriteCustomer(w) \/ WriteMessage(w)
  <2>1. depth[w] = 0 /\ pc[w] # "commit" /\ pc'[w] # "commit"
    BY <1>2, <1>6 DEF WriteCustomer, WriteMessage, Running, Goto, InEscalation, TypeInv, JobTypes
  <2>. QED
    BY <1>1, <1>6, <2>1 DEF WriteCustomer, WriteMessage, Write, CleanWorker
<1>7. CASE BeginEscalation(w)
  <2>1. pc[w] # "commit" /\ pc'[w] # "commit"
    BY <1>7 DEF BeginEscalation, Running, Goto, TypeInv, JobTypes
  <2>. QED
    BY <1>1, <1>7, <2>1 DEF BeginEscalation, CleanWorker
<1>8. CASE HandOver(w)
  <2>1. depth[w] = 1 /\ pc[w] # "commit" /\ pc'[w] = "commit" /\ job' = job
    BY <1>3, <1>8 DEF HandOver, Running, Goto, InEscalation, TypeInv, JobTypes
  <2>. QED
    BY <1>1, <1>8, <2>1 DEF HandOver, Write, CleanWorker, TypeInv, ConnTypes
<1>9. CASE Commit(w)
  <2>1. depth[w] = 1 /\ pc'[w] # "commit"
    BY <1>3, <1>9 DEF Commit, Running, Goto, InEscalation, TypeInv, JobTypes
  <2>. QED
    BY <1>1, <1>9, <2>1 DEF Commit, TypeInv, ConnTypes
<1>10. CASE RollBack(w)
  <2>1. pc'[w] # "commit"
    BY <1>10 DEF RollBack, Goto, TypeInv, JobTypes
  <2>. QED
    BY <1>1, <1>10, <2>1 DEF RollBack, CleanWorker, TypeInv, ConnTypes
<1>. QED
  BY <1>1, <1>4, <1>5, <1>6, <1>7, <1>8, <1>9, <1>10 DEF Act, Step

\* A message that is stored stays so, and the next steps of its job are for it.
LEMMA CleanStored ==
    ASSUME TypeInv, CleanInv, leaks' = 0, NEW w \in Workers, Act(w)
    PROVE  /\ pc'[w] \in {"escalation", "agent", "commit", "finish"}
                 => MessageRow(job'[w]) \in committed'
           /\ \A m \in marked' : MessageRow(m) \in committed'
<1>1. CleanWorker(w) /\ CleanQueue /\ committed \subseteq committed'
  BY CleanStep
<1>2. CASE WriteMessage(w)
  <2>1. depth[w] = 0 /\ buffer[w] = {} /\ job' = job /\ marked' = marked
    BY <1>1, <1>2 DEF WriteMessage, Running, CleanWorker, Base, InEscalation
  <2>2. MessageRow(job[w]) \in committed'
    BY <1>2, <2>1 DEF WriteMessage, Visible, Write
  <2>. QED
    BY <1>1, <2>1, <2>2 DEF CleanQueue
<1>3. CASE ~WriteMessage(w)
  <2>1. /\ pc'[w] \in {"escalation", "agent", "commit", "finish"}
              => pc[w] \in {"escalation", "agent", "commit", "finish"} /\ job'[w] = job[w]
        /\ marked' = marked \/ (pc[w] = "finish" /\ marked' = marked \cup {job[w]})
    BY <1>3 DEF Act, Step, Take, WriteCustomer, BeginEscalation, NoAgentFound, HandOver, Commit,
       Finish, StatementRefused, TimeOut, RollBack, StatementFails, Exit, Running, Goto, GiveBack,
       jobVars, TypeInv, JobTypes
  <2>. QED
    BY <1>1, <2>1 DEF CleanWorker, CleanQueue
<1>. QED
  BY <1>2, <1>3

\* Each try but the first follows an error.
LEMMA CleanTries ==
    ASSUME TypeInv, CleanInv, leaks' = 0, NEW w \in Workers, Act(w)
    PROVE  /\ \A v \in Workers : pc'[v] # "idle" => attempts'[job'[v]] <= errors' + 1
           /\ \A m \in waiting' : attempts'[m] <= errors'
           /\ failed' # {} => Tries <= errors'
<1>1. /\ CleanQueue /\ (\A v \in Workers : CleanWorker(v))
      /\ errors \in Nat /\ errors' \in {errors, errors + 1}
      /\ ~StatementRefused(w) /\ ~TimeOut(w)
  BY CleanStep
<1>2. /\ \A m \in Messages : attempts[m] \in Nat
      /\ \A v \in Workers : pc[v] # "idle" => job[v] \in Messages /\ job[v] \notin waiting
      /\ waiting \subseteq Messages /\ Tries \in Nat
  BY WorkerBounds DEF TypeInv, JobTypes, JobsInv
<1>3. \A v \in Workers \ {w} : pc'[v] = pc[v] /\ job'[v] = job[v]
  BY OthersLevel
<1>4. CASE Takes(w)
  <2>1. PICK m \in waiting : /\ waiting' = waiting \ {m}
                             /\ attempts' = [attempts EXCEPT ![m] = @ + 1]
                             /\ job' = [job EXCEPT ![w] = m]
    BY <1>4 DEF Takes
  <2>2. /\ attempts'[m] = attempts[m] + 1 /\ job'[w] = m
        /\ \A n \in Messages \ {m} : attempts'[n] = attempts[n]
    BY <1>2, <2>1 DEF TypeInv, JobTypes
  <2>3. attempts'[m] <= errors' + 1
    BY <1>1, <1>2, <2>2 DEF CleanQueue
  <2>4. \A v \in Workers \ {w} : pc'[v] # "idle" => attempts'[job'[v]] <= errors' + 1
    BY <1>1, <1>2, <1>3, <2>2 DEF CleanWorker
  <2>5. \A n \in waiting' : attempts'[n] <= errors'
    BY <1>1, <1>2, <2>1, <2>2 DEF CleanQueue
  <2>6. failed' # {} => Tries <= errors'
    BY <1>1, <1>2, <1>4 DEF Takes, CleanQueue
  <2>. QED
    BY <2>2, <2>3, <2>4, <2>5, <2>6
<1>5. CASE GivesBack(w)
  <2>1. StatementFails(w)
    <3>1. pc'[w] = "idle" /\ pc[w] \in {"customer", "message"}
      BY <1>5 DEF GivesBack, GiveBack, Goto, TypeInv, JobTypes
    <3>. QED
      BY <1>1, <3>1 DEF Act, Step, Take, WriteCustomer, WriteMessage, BeginEscalation,
         NoAgentFound, HandOver, Commit, Finish, RollBack, Exit, Running, Goto, TypeInv, JobTypes
  <2>2. errors' = errors + 1 /\ attempts' = attempts /\ pc'[w] = "idle"
    BY <1>5, <2>1 DEF StatementFails, GivesBack, GiveBack, Goto, TypeInv, JobTypes
  <2>3. pc[w] # "idle" /\ attempts[job[w]] <= errors + 1
    BY <1>1, <1>5 DEF GivesBack, CleanWorker
  <2>4. \A v \in Workers : pc'[v] # "idle" => attempts'[job'[v]] <= errors' + 1
    BY <1>1, <1>2, <1>3, <2>2 DEF CleanWorker
  <2>5. \A n \in waiting' : attempts'[n] <= errors'
    BY <1>1, <1>2, <1>5, <2>2, <2>3 DEF GivesBack, GiveBack, CleanQueue
  <2>6. failed' # {} => Tries <= errors'
    BY <1>1, <1>2, <1>5, <2>2, <2>3 DEF GivesBack, GiveBack, CleanQueue
  <2>. QED
    BY <2>4, <2>5, <2>6
<1>6. CASE Goes(w) \/ Finishes(w) \/ Stays
  <2>1. UNCHANGED <<waiting, attempts, failed>>
    BY <1>6 DEF Goes, Finishes, Stays
  <2>2. pc'[w] # "idle" => pc[w] # "idle" /\ job'[w] = job[w]
    BY <1>6 DEF Goes, Finishes, Stays, Edges, TypeInv, JobTypes
  <2>3. \A v \in Workers : pc'[v] # "idle" => attempts'[job'[v]] <= errors' + 1
    BY <1>1, <1>2, <1>3, <2>1, <2>2 DEF CleanWorker
  <2>4. (\A n \in waiting' : attempts'[n] <= errors') /\ (failed' # {} => Tries <= errors')
    BY <1>1, <1>2, <2>1 DEF CleanQueue
  <2>. QED
    BY <2>3, <2>4
<1>. QED
  BY <1>4, <1>5, <1>6, JobStep

LEMMA ActClean ==
    ASSUME TypeInv, CleanInv, NEW w \in Workers, Act(w)
    PROVE  CleanInv'
<1>. SUFFICES ASSUME leaks' = 0
              PROVE  CleanQueue' /\ \A v \in Workers : CleanWorker(v)'
  BY DEF CleanInv
<1>1. CleanQueue'
  BY CleanRows, CleanStored, CleanTries DEF CleanQueue
<1>2. CleanWorker(w)'
  BY CleanStep, CleanRows, CleanStored, CleanTries DEF CleanWorker
<1>3. ASSUME NEW v \in Workers \ {w}
      PROVE  CleanWorker(v)'
  BY CleanStep, OthersLevel, CleanTries DEF CleanWorker
<1>. QED
  BY <1>1, <1>2, <1>3

LEMMA InitClean == Init => CleanInv
  BY DEF Init, CleanInv, CleanQueue, CleanWorker, Base, InEscalation

LEMMA NextClean == TypeInv /\ CleanInv /\ [Next]_vars => CleanInv'
<1>1. CASE UNCHANGED vars
  BY <1>1 DEF vars, jobVars, connectionVars, countVars, CleanInv, CleanQueue, CleanWorker, Base,
              InEscalation
<1>. QED
  BY <1>1, ActClean, NextActs

\* While no escalation has left its transaction open, errors, rollbacks and restarts of any
\* number of workers lose nothing that was marked.
THEOREM NoLossSafe == Spec => []NoLeakNoLoss
<1>1. TypeInv /\ CleanInv => NoLeakNoLoss
  BY WorkerBounds DEF CleanInv, CleanQueue, NoLeakNoLoss, TypeInv, BoundTypes
<1>. QED
  BY <1>1, InitClean, NextClean, TypeAlways, PTL DEF Spec

-----------------------------------------------------------------------------
(* What everyone sees *)

\* A worker sees the rows of the steps behind it, and a transaction that its escalation
\* has begun itself holds the handover and nothing else.
TableWorker(v) ==
    /\ pc[v] \in {"message", "escalation", "agent", "commit"}
          => CustomerRow(Sender[job[v]]) \in Visible(v)
    /\ pc[v] \in {"escalation", "agent", "commit"} => MessageRow(job[v]) \in Visible(v)
    /\ Base(v) = 0 => buffer[v] \subseteq (IF pc[v] = "commit" THEN {HandoverRow(job[v])} ELSE {})

TableInv == \A v \in Workers : TableWorker(v)

\* What everyone sees stays.
LEMMA CommittedGrows ==
    ASSUME TypeInv, NEW w \in Workers, Act(w)
    PROVE  committed \subseteq committed'
<1>1. CASE WritesRow(w)
  BY <1>1 DEF WritesRow, Writes, Write
<1>. QED
  BY <1>1, CommitStep

LEMMA OthersTable ==
    ASSUME TypeInv, TableInv, NEW w \in Workers, Act(w), NEW v \in Workers \ {w}
    PROVE  TableWorker(v)'
<1>1. pc'[v] = pc[v] /\ job'[v] = job[v] /\ buffer'[v] = buffer[v] /\ Base(v)' = Base(v)
  BY OthersLevel
<1>2. Visible(v) \subseteq Visible(v)'
  BY <1>1, CommittedGrows DEF Visible
<1>3. TableWorker(v)
  BY DEF TableInv
<1>. QED
  BY <1>1, <1>2, <1>3 DEF TableWorker

\* The row a worker writes it sees, and without a transaction so does everyone.
LEMMA WriteSeen ==
    ASSUME TypeInv, NEW w \in Workers, NEW row, Write(w, row)
    PROVE  /\ row \in Visible(w)' /\ Visible(w) \subseteq Visible(w)'
           /\ buffer'[w] \subseteq buffer[w] \cup {row}
           /\ depth[w] = 0 => buffer'[w] = buffer[w]
  BY DEF Write, Visible, TypeInv, ConnTypes

LEMMA OwnTable ==
    ASSUME TypeInv, TypeInv', TableInv, NEW w \in Workers, Act(w)
    PROVE  TableWorker(w)'
<1>0. /\ TableWorker(w)
      /\ depth[w] \in Nat /\ depth'[w] \in Nat /\ pc[w] \in PCs
      /\ InEscalation(w) => depth[w] > 0
  BY DEF TableInv, TypeInv, ConnTypes, JobTypes, LevelInv
<1>1. CASE Take(w)
  <2>1. pc[w] = "idle" /\ pc'[w] = "customer" /\ depth' = depth /\ buffer' = buffer
    BY <1>1 DEF Take, Goto, TypeInv, JobTypes, connectionVars
  <2>. QED
    BY <1>0, <2>1 DEF TableWorker, Base, InEscalation
<1>2. CASE WriteCustomer(w)
  <2>1. /\ pc[w] = "customer" /\ pc'[w] = "message" /\ depth' = depth /\ job' = job
        /\ \/ Write(w, CustomerRow(Sender[job[w]]))
           \/ CustomerRow(Sender[job[w]]) \in Visible(w) /\ UNCHANGED <<buffer, committed>>
    BY <1>2 DEF WriteCustomer, Running, Goto, TypeInv, JobTypes
  <2>2. CustomerRow(Sender[job[w]]) \in Visible(w)' /\ (depth[w] = 0 => buffer'[w] = buffer[w])
    BY <2>1, WriteSeen DEF Visible
  <2>. QED
    BY <1>0, <2>1, <2>2 DEF TableWorker, Base, InEscalation
<1>3. CASE WriteMessage(w)
  <2>1. /\ pc[w] = "message" /\ pc'[w] \in {"escalation", "finish"} /\ depth' = depth /\ job' = job
        /\ \/ Write(w, MessageRow(job[w]))
           \/ MessageRow(job[w]) \in Visible(w) /\ UNCHANGED <<buffer, committed>>
    BY <1>3 DEF WriteMessage, Running, Goto, TypeInv, JobTypes
  <2>2. /\ MessageRow(job[w]) \in Visible(w)' /\ Visible(w) \subseteq Visible(w)'
        /\ depth[w] = 0 => buffer'[w] = buffer[w]
    BY <2>1, WriteSeen DEF Visible
  <2>. QED
    BY <1>0, <2>1, <2>2 DEF TableWorker, Base, InEscalation
<1>4. CASE BeginEscalation(w)
  <2>1. /\ pc[w] = "escalation" /\ pc'[w] = "agent" /\ depth'[w] = depth[w] + 1 /\ job' = job
        /\ UNCHANGED <<buffer, committed>>
    BY <1>4 DEF BeginEscalation, Running, Goto, TypeInv, JobTypes, ConnTypes
  <2>. QED
    BY <1>0, <2>1 DEF TableWorker, Base, InEscalation, Visible
<1>5. CASE NoAgentFound(w)
  <2>1. pc[w] = "agent" /\ pc'[w] = "finish" /\ depth' = depth
    BY <1>5 DEF NoAgentFound, Running, Goto, TypeInv, JobTypes, connectionVars
  <2>. QED
    BY <1>0, <2>1 DEF TableWorker, Base, InEscalation
<1>6. CASE HandOver(w)
  <2>1. /\ pc[w] = "agent" /\ pc'[w] = "commit" /\ depth' = depth /\ job' = job
        /\ Write(w, HandoverRow(job[w]))
    BY <1>6 DEF HandOver, Running, Goto, TypeInv, JobTypes
  <2>2. /\ Visible(w) \subseteq Visible(w)'
        /\ buffer'[w] \subseteq buffer[w] \cup {HandoverRow(job[w])}
    BY <2>1, WriteSeen
  <2>. QED
    BY <1>0, <2>1, <2>2 DEF TableWorker, Base, InEscalation
<1>7. CASE Commit(w)
  <2>1. /\ pc[w] = "commit" /\ pc'[w] = "finish" /\ depth'[w] = depth[w] - 1
        /\ depth[w] = 1 => buffer'[w] = {}
    BY <1>7 DEF Commit, Running, Goto, TypeInv, JobTypes, ConnTypes
  <2>. QED
    BY <1>0, <2>1 DEF TableWorker, Base, InEscalation
<1>8. CASE RollBack(w)
  <2>1. /\ pc[w] \in {"agent", "commit"} /\ pc'[w] = "finish" /\ depth'[w] = depth[w] - 1
        /\ buffer'[w] = buffer[w] \ {HandoverRow(job[w])}
    BY <1>8 DEF RollBack, Goto, TypeInv, JobTypes, ConnTypes
  <2>. QED
    BY <1>0, <2>1 DEF TableWorker, Base, InEscalation
<1>9. CASE Finish(w) \/ StatementFails(w) \/ StatementRefused(w)
  <2>1. /\ pc[w] \in {"finish", "customer", "message"} /\ pc'[w] = "idle" /\ depth' = depth
        /\ buffer' = buffer
    BY <1>9 DEF Finish, StatementFails, StatementRefused, GiveBack, Goto, TypeInv, JobTypes,
                connectionVars
  <2>. QED
    BY <1>0, <2>1 DEF TableWorker, Base, InEscalation
<1>10. CASE TimeOut(w) \/ Exit(w)
  <2>1. pc'[w] = "idle" /\ buffer'[w] = {}
    BY <1>10 DEF TimeOut, Exit, GiveBack, Goto, Disconnect, TypeInv, JobTypes, ConnTypes, jobVars
  <2>. QED
    BY <2>1 DEF TableWorker
<1>. QED
  BY <1>1, <1>2, <1>3, <1>4, <1>5, <1>6, <1>7, <1>8, <1>9, <1>10 DEF Act, Step

LEMMA InitTable == Init => TableInv
  BY DEF Init, TableInv, TableWorker

LEMMA NextTable == TypeInv /\ TypeInv' /\ TableInv /\ [Next]_vars => TableInv'
<1>1. CASE UNCHANGED vars
  BY <1>1 DEF vars, jobVars, connectionVars, TableInv, TableWorker, Visible, Base, InEscalation
<1>2. ASSUME TypeInv, TypeInv', TableInv, NEW w \in Workers, Act(w)
      PROVE  TableInv'
  BY <1>2, OwnTable, OthersTable DEF TableInv
<1>. QED
  BY <1>1, <1>2, NextActs

\* The rows of one kind when one row more is seen.
LEMMA SeenKinds ==
    ASSUME NEW row, committed' = committed \cup {row}
    PROVE  /\ \A c \in Customers : row = CustomerRow(c) => \E x \in Customers : Table!AddCustomer(x)
           /\ \A m \in Messages : row = MessageRow(m) /\ CustomerRow(Sender[m]) \in committed
                                     => Table!AddMessage(m)
           /\ \A m \in Messages : row = HandoverRow(m) /\ MessageRow(m) \in committed
                                     => Table!AddHandover(m)
<1>1. ASSUME NEW c \in Customers, row = CustomerRow(c)
      PROVE  Table!AddCustomer(c)
  BY <1>1, RowsDiffer DEF Table!AddCustomer
<1>2. ASSUME NEW m \in Messages, row = MessageRow(m), CustomerRow(Sender[m]) \in committed
      PROVE  Table!AddMessage(m)
  BY <1>2, RowsDiffer, SenderAssumption DEF Table!AddMessage
<1>3. ASSUME NEW m \in Messages, row = HandoverRow(m), MessageRow(m) \in committed
      PROVE  Table!AddHandover(m)
  BY <1>3, RowsDiffer DEF Table!AddHandover
<1>. QED
  BY <1>1, <1>2, <1>3

\* A step of a worker adds one row to what everyone sees, or none.
LEMMA ActTable ==
    ASSUME TypeInv, TableInv, NEW w \in Workers, Act(w)
    PROVE  [Table!Next]_(Table!vars)
<1>1. CASE committed' = committed
  BY <1>1 DEF Table!vars
<1>2. CASE Base(w) = 0 /\ committed' = committed \cup buffer[w] /\ committed' # committed
  <2>1. buffer[w] = {HandoverRow(job[w])} /\ pc[w] = "commit"
    BY <1>2 DEF TableInv, TableWorker
  <2>2. job[w] \in Messages
    BY <2>1 DEF TypeInv, JobTypes, JobsInv
  <2>3. MessageRow(job[w]) \in committed
    BY <2>1, RowsDiffer DEF TableInv, TableWorker, Visible
  <2>4. Table!AddHandover(job[w])
    BY <1>2, <2>1, <2>2, <2>3, SeenKinds
  <2>. QED
    BY <2>2, <2>4 DEF Table!Next
<1>3. CASE WritesRow(w) /\ committed' # committed
  <2>1. PICK row : Write(w, row)
    BY <1>3 DEF WritesRow, Writes
  <2>2. depth[w] = 0
    BY <1>3, <2>1 DEF Write
  <2>3. job[w] \in Messages /\ Sender[job[w]] \in Customers
    BY <1>3, SenderAssumption DEF WritesRow, TypeInv, JobTypes, JobsInv
  <2>4. ~InEscalation(w) /\ Base(w) = 0
    BY <2>2 DEF TypeInv, LevelInv, Base
  <2>5. buffer[w] = {} /\ Visible(w) = committed
    BY <2>4 DEF TableInv, TableWorker, InEscalation, Visible
  <2>6. CASE Write(w, CustomerRow(Sender[job[w]]))
    BY <2>2, <2>3, <2>6, SeenKinds DEF Write, Table!Next
  <2>7. CASE pc[w] = "message" /\ Write(w, MessageRow(job[w]))
    <3>1. CustomerRow(Sender[job[w]]) \in committed
      BY <2>5, <2>7 DEF TableInv, TableWorker
    <3>. QED
      BY <2>2, <2>3, <2>7, <3>1, SeenKinds DEF Write, Table!Next
  <2>8. pc[w] # "agent"
    BY <2>4 DEF InEscalation
  <2>. QED
    BY <1>3, <2>6, <2>7, <2>8 DEF WritesRow, Writes
<1>. QED
  BY <1>1, <1>2, <1>3, CommitStep

\* However many workers overlap, and whatever they commit, roll back or leave open: rows
\* come to light one by one, and none before the row it refers to.
THEOREM RefinesTable == Spec => ImplementsTable
<1>1. Init => Table!Init
  BY DEF Init, Table!Init
<1>2. TypeInv /\ TableInv /\ [Next]_vars => [Table!Next]_(Table!vars)
  <2>1. CASE UNCHANGED vars
    BY <2>1 DEF vars, Table!vars
  <2>. QED
    BY <2>1, ActTable, NextActs
<1>. QED
  BY <1>1, <1>2, InitTable, NextTable, TypeAlways, PTL DEF Spec, ImplementsTable, Table!Spec

LEMMA TableReferential == Table!Spec => []Table!Referential
<1>1. Table!Init => Table!Referential
  BY DEF Table!Init, Table!Referential
<1>2. Table!Referential /\ [Table!Next]_(Table!vars) => Table!Referential'
  <2>. SUFFICES ASSUME Table!Referential, [Table!Next]_(Table!vars)
                PROVE  Table!Referential'
    OBVIOUS
  <2>1. ASSUME NEW c \in Customers, Table!AddCustomer(c)
        PROVE  Table!Referential'
    BY <2>1 DEF Table!AddCustomer, Table!Referential
  <2>2. ASSUME NEW m \in Messages, Table!AddMessage(m)
        PROVE  Table!Referential'
    BY <2>2 DEF Table!AddMessage, Table!Referential
  <2>3. ASSUME NEW m \in Messages, Table!AddHandover(m)
        PROVE  Table!Referential'
    BY <2>3 DEF Table!AddHandover, Table!Referential
  <2>4. CASE UNCHANGED Table!vars
    BY <2>4 DEF Table!vars, Table!Referential
  <2>. QED
    BY <2>1, <2>2, <2>3, <2>4 DEF Table!Next
<1>. QED
  BY <1>1, <1>2, PTL DEF Table!Spec

LEMMA TableGrows == Table!Spec => [][Table!OneRowMore]_(Table!vars)
<1>1. [Table!Next]_(Table!vars) => [Table!OneRowMore]_(Table!vars)
  <2>1. ASSUME NEW c \in Customers, Table!AddCustomer(c)
        PROVE  Table!OneRowMore
    BY <2>1 DEF Table!AddCustomer, Table!OneRowMore
  <2>2. ASSUME NEW m \in Messages, Table!AddMessage(m)
        PROVE  Table!OneRowMore
    BY <2>2 DEF Table!AddMessage, Table!OneRowMore
  <2>3. ASSUME NEW m \in Messages, Table!AddHandover(m)
        PROVE  Table!OneRowMore
    BY <2>3 DEF Table!AddHandover, Table!OneRowMore
  <2>. QED
    BY <2>1, <2>2, <2>3 DEF Table!Next
<1>. QED
  BY <1>1, PTL DEF Table!Spec

\* A reader never finds a message without its customer or an escalation without its
\* message, although a worker may have written all three into a transaction that later
\* escalations set savepoints in and an exit rolls back.
THEOREM ReadersReferential == Spec => []Table!Referential
  BY RefinesTable, TableReferential, PTL DEF ImplementsTable

\* What was kept back by a transaction that was left open never comes to light in one
\* go, and what a reader has seen stays.
THEOREM ReadersSeeOneRow == Spec => [][Table!OneRowMore]_(Table!vars)
  BY RefinesTable, TableGrows, PTL DEF ImplementsTable

-----------------------------------------------------------------------------
(* The work that is left *)

\* Statements a job has before it from each place, at most.
StepsLeft == [l \in PCs |->
    CASE l = "customer"   -> 6
      [] l = "message"    -> 5
      [] l = "escalation" -> 4
      [] l = "agent"      -> 3
      [] l = "commit"     -> 2
      [] l = "finish"     -> 1
      [] OTHER            -> 0]

\* Those of message m, when jb names the jobs of the workers and p their places.
StepsOf(jb, p, m) ==
    IF \E w \in Workers : jb[w] = m
    THEN StepsLeft[p[CHOOSE w \in Workers : jb[w] = m]]
    ELSE 0

\* A message that is done has no try left; the others have those not begun, which take
\* seven steps each with the one that takes the job, and the one under way.
TriesLeft(m) == IF m \in marked \cup failed THEN 0 ELSE Tries - attempts[m]
Remaining(m) == TriesLeft(m) * 7 + StepsOf(job, pc, m)

\* What is marked or has failed is over: no worker has it, and it waits for none.
DoneInv ==
    /\ \A w \in Workers : job[w] \notin marked \cup failed
    /\ waiting \cap (marked \cup failed) = {}
    /\ marked \cap failed = {}

\* And what is not over is not forgotten.
NoneForgotten == \A m \in Messages :
    m \in waiting \cup marked \cup failed \/ \E w \in Workers : job[w] = m

QueueInv == JobTypes /\ JobsInv /\ DoneInv /\ NoneForgotten

LEMMA StepsLeftType ==
    /\ \A l \in PCs : StepsLeft[l] \in 0..6
    /\ StepsLeft["customer"] = 6
    /\ \A l \in PCs \ {"idle"} : StepsLeft[l] > 0
    /\ \A k, l \in PCs : <<k, l>> \in Edges => StepsLeft[l] < StepsLeft[k]
  BY DEF StepsLeft, PCs, Edges

LEMMA StepsOfHolder ==
    ASSUME NEW jb, NEW p, NEW m, NEW w \in Workers, jb[w] = m,
           \A v \in Workers : jb[v] = m => v = w
    PROVE  StepsOf(jb, p, m) = StepsLeft[p[w]]
<1>. DEFINE h == CHOOSE v \in Workers : jb[v] = m
<1>1. h \in Workers /\ jb[h] = m
  OBVIOUS
<1>2. h = w
  BY <1>1
<1>. QED
  BY <1>2 DEF StepsOf

LEMMA StepsOfNobody ==
    ASSUME NEW jb, NEW p, NEW m, \A w \in Workers : jb[w] # m
    PROVE  StepsOf(jb, p, m) = 0
  BY DEF StepsOf

\* Only one worker has a message.
LEMMA OneHolder ==
    ASSUME JobTypes, JobsInv, NEW m \in Messages, NEW v \in Workers, NEW w \in Workers,
           job[v] = m, job[w] = m
    PROVE  v = w
<1>1. pc[v] # "idle"
  BY WorkerBounds DEF JobsInv
<1>. QED
  BY <1>1 DEF JobsInv

LEMMA OneHolderNext ==
    ASSUME JobTypes', JobsInv', NEW m \in Messages, NEW v \in Workers, NEW w \in Workers,
           job'[v] = m, job'[w] = m
    PROVE  v = w
<1>1. pc'[v] # "idle"
  BY WorkerBounds DEF JobsInv
<1>. QED
  BY <1>1 DEF JobsInv

\* A message that no step touches has as much left as before.
LEMMA OthersKeep ==
    ASSUME JobTypes, JobsInv, JobTypes', JobsInv', NEW n \in Messages,
           n \in marked' <=> n \in marked, n \in failed' <=> n \in failed,
           attempts'[n] = attempts[n],
           \A v \in Workers : job'[v] = n <=> job[v] = n,
           \A v \in Workers : job[v] = n => pc'[v] = pc[v]
    PROVE  Remaining(n)' = Remaining(n)
<1>1. CASE \E v \in Workers : job[v] = n
  <2>1. PICK v \in Workers : job[v] = n
    BY <1>1
  <2>2. StepsOf(job, pc, n) = StepsLeft[pc[v]]
    BY <2>1, OneHolder, StepsOfHolder
  <2>3. StepsOf(job', pc', n) = StepsLeft[pc'[v]]
    BY <2>1, OneHolderNext, StepsOfHolder
  <2>4. StepsOf(job', pc', n) = StepsOf(job, pc, n)
    BY <2>1, <2>2, <2>3
  <2>5. Remaining(n)' = TriesLeft(n)' * 7 + StepsOf(job', pc', n)
    BY DEF Remaining, StepsOf
  <2>6. TriesLeft(n)' = TriesLeft(n)
    BY DEF TriesLeft
  <2>. QED
    BY <2>4, <2>5, <2>6 DEF Remaining
<1>2. CASE \A v \in Workers : job[v] # n
  <2>1. StepsOf(job, pc, n) = 0
    BY <1>2, StepsOfNobody
  <2>2. StepsOf(job', pc', n) = 0
    BY <1>2, StepsOfNobody
  <2>3. Remaining(n)' = TriesLeft(n)' * 7 + StepsOf(job', pc', n)
    BY DEF Remaining, StepsOf
  <2>4. TriesLeft(n)' = TriesLeft(n)
    BY DEF TriesLeft
  <2>. QED
    BY <2>1, <2>2, <2>3, <2>4 DEF Remaining
<1>. QED
  BY <1>1, <1>2

LEMMA RemainingType ==
    ASSUME JobTypes, JobsInv, NEW m \in Messages
    PROVE  TriesLeft(m) \in Nat /\ StepsOf(job, pc, m) \in 0..6 /\ Remaining(m) \in Nat
<1>1. TriesLeft(m) \in Nat
  BY WorkerBounds DEF TriesLeft, JobTypes
<1>2. StepsOf(job, pc, m) \in 0..6
  <2>1. CASE \E v \in Workers : job[v] = m
    <3>1. PICK v \in Workers : job[v] = m
      BY <2>1
    <3>2. StepsOf(job, pc, m) = StepsLeft[pc[v]]
      BY <3>1, OneHolder, StepsOfHolder
    <3>. QED
      BY <3>2, StepsLeftType DEF JobTypes
  <2>2. CASE \A v \in Workers : job[v] # m
    BY <2>2, StepsOfNobody
  <2>. QED
    BY <2>1, <2>2
<1>. QED
  BY <1>1, <1>2 DEF Remaining

LEMMA InitQueue == Init => QueueInv
  BY WorkerBounds DEF Init, QueueInv, JobTypes, JobsInv, DoneInv, NoneForgotten, PCs

LEMMA ActQueue ==
    ASSUME QueueInv, NEW w \in Workers, Act(w)
    PROVE  QueueInv'
<1>. USE DEF QueueInv
<1>1. JobTypes' /\ JobsInv'
  BY ActJobs
<1>2. NoMessage \notin marked \cup failed
  BY WorkerBounds DEF JobTypes
<1>3. CASE Takes(w)
  <2>1. PICK m \in waiting : waiting' = waiting \ {m} /\ job' = [job EXCEPT ![w] = m]
    BY <1>3 DEF Takes
  <2>2. job'[w] = m /\ \A v \in Workers \ {w} : job'[v] = job[v]
    BY <2>1 DEF JobTypes
  <2>3. UNCHANGED <<marked, failed>> /\ job[w] = NoMessage
    BY <1>3 DEF Takes, JobsInv
  <2>4. DoneInv'
    BY <2>1, <2>2, <2>3 DEF DoneInv
  <2>5. NoneForgotten'
    BY <2>1, <2>2, <2>3, WorkerBounds DEF NoneForgotten
  <2>. QED
    BY <1>1, <2>4, <2>5
<1>4. CASE Goes(w) \/ Stays
  BY <1>1, <1>4 DEF Goes, Stays, DoneInv, NoneForgotten
<1>5. CASE GivesBack(w) \/ Finishes(w)
  <2>1. job'[w] = NoMessage /\ \A v \in Workers \ {w} : job'[v] = job[v]
    BY <1>5 DEF GivesBack, GiveBack, Finishes, JobTypes
  <2>2. pc[w] # "idle"
    BY <1>5 DEF GivesBack, Finishes
  <2>3. job[w] \in Messages /\ job[w] \notin waiting /\ \A v \in Workers \ {w} : job[v] # job[w]
    BY <2>2 DEF JobTypes, JobsInv
  <2>4. \/ waiting' = waiting \cup {job[w]} /\ marked' = marked /\ failed' = failed
        \/ waiting' = waiting /\ marked' = marked /\ failed' = failed \cup {job[w]}
        \/ waiting' = waiting /\ marked' = marked \cup {job[w]} /\ failed' = failed
    BY <1>5 DEF GivesBack, GiveBack, Finishes
  <2>5. DoneInv'
    BY <1>2, <2>1, <2>3, <2>4, WorkerBounds DEF DoneInv
  <2>6. NoneForgotten'
    BY <2>1, <2>4 DEF NoneForgotten
  <2>. QED
    BY <1>1, <2>5, <2>6
<1>. QED
  BY <1>3, <1>4, <1>5, JobStep

\* What a step on the job of m leaves to be done.
LEMMA TakesLess ==
    ASSUME QueueInv, QueueInv', NEW w \in Workers, Takes(w)
    PROVE  \E m \in Messages : /\ Remaining(m)' < Remaining(m)
                               /\ \A n \in Messages \ {m} : Remaining(n)' = Remaining(n)
<1>. USE DEF QueueInv
<1>1. PICK m \in waiting : /\ attempts' = [attempts EXCEPT ![m] = @ + 1]
                           /\ job' = [job EXCEPT ![w] = m]
  BY DEF Takes
<1>2. /\ m \in Messages /\ m \notin marked \cup failed /\ \A v \in Workers : job[v] # m
      /\ attempts[m] \in 0..Tries /\ attempts'[m] = attempts[m] + 1
  BY <1>1 DEF JobTypes, JobsInv, DoneInv
<1>3. job'[w] = m /\ pc'[w] = "customer"
  BY <1>1 DEF Takes, JobTypes
<1>4. /\ UNCHANGED <<marked, failed>>
      /\ job[w] = NoMessage
      /\ \A v \in Workers \ {w} : job'[v] = job[v] /\ pc'[v] = pc[v]
  BY <1>1 DEF Takes, JobTypes, JobsInv
<1>5. Remaining(m) = (Tries - attempts[m]) * 7
  <2>1. StepsOf(job, pc, m) = 0
    BY <1>2, StepsOfNobody
  <2>. QED
    BY <1>2, <2>1, WorkerBounds DEF Remaining, TriesLeft
<1>6. Remaining(m)' = (Tries - attempts'[m]) * 7 + 6
  <2>1. StepsOf(job', pc', m) = 6
    BY <1>2, <1>3, OneHolderNext, StepsOfHolder, StepsLeftType
  <2>2. Remaining(m)' = TriesLeft(m)' * 7 + StepsOf(job', pc', m)
    BY DEF Remaining, StepsOf
  <2>3. TriesLeft(m)' = Tries - attempts'[m]
    BY <1>2, <1>4 DEF TriesLeft
  <2>. QED
    BY <2>1, <2>2, <2>3
<1>7. Remaining(m)' < Remaining(m)
  BY <1>2, <1>5, <1>6, WorkerBounds
<1>8. ASSUME NEW n \in Messages \ {m}
      PROVE  Remaining(n)' = Remaining(n)
  <2>1. attempts'[n] = attempts[n]
    BY <1>1 DEF JobTypes
  <2>2. n # NoMessage
    BY WorkerBounds
  <2>3. \A v \in Workers : job'[v] = n <=> job[v] = n
    BY <1>3, <1>4, <2>2
  <2>4. \A v \in Workers : job[v] = n => pc'[v] = pc[v]
    BY <1>4, <2>2
  <2>. QED
    BY <1>4, <2>1, <2>3, <2>4, OthersKeep
<1>. QED
  BY <1>2, <1>7, <1>8

LEMMA LeavesLess ==
    ASSUME QueueInv, QueueInv', NEW w \in Workers, Goes(w) \/ GivesBack(w) \/ Finishes(w)
    PROVE  \E m \in Messages : /\ Remaining(m)' < Remaining(m)
                               /\ \A n \in Messages \ {m} : Remaining(n)' = Remaining(n)
<1>. USE DEF QueueInv
<1>1. pc[w] \in PCs \ {"idle"}
  BY DEF Goes, GivesBack, Finishes, Edges, JobTypes
<1>2. PICK m \in Messages : m = job[w]
  BY <1>1 DEF JobTypes, JobsInv
<1>3. \A v \in Workers \ {w} : job[v] # m /\ job'[v] = job[v] /\ pc'[v] = pc[v]
  <2>1. \A v \in Workers \ {w} : job[v] # m
    BY <1>2, OneHolder
  <2>2. \A v \in Workers \ {w} : job'[v] = job[v] /\ pc'[v] = pc[v]
    BY DEF Goes, GivesBack, GiveBack, Goto, Finishes, JobTypes
  <2>. QED
    BY <2>1, <2>2
<1>4. /\ m \notin marked \cup failed
      /\ attempts' = attempts
      /\ attempts[m] \in 0..Tries
  BY <1>2 DEF DoneInv, JobTypes, Goes, GivesBack, GiveBack, Finishes
<1>5. Remaining(m) = (Tries - attempts[m]) * 7 + StepsLeft[pc[w]]
  <2>1. StepsOf(job, pc, m) = StepsLeft[pc[w]]
    BY <1>2, OneHolder, StepsOfHolder
  <2>. QED
    BY <1>4, <2>1 DEF Remaining, TriesLeft
<1>6. StepsLeft[pc[w]] \in 1..6
  BY <1>1, StepsLeftType
<1>7. Remaining(m)' = TriesLeft(m)' * 7 + StepsOf(job', pc', m)
  BY DEF Remaining, StepsOf
<1>8. CASE Goes(w)
  <2>1. PICK l \in PCs : <<pc[w], l>> \in Edges /\ pc' = [pc EXCEPT ![w] = l]
    BY <1>8 DEF Goes
  <2>2. StepsLeft[l] < StepsLeft[pc[w]] /\ StepsLeft[l] \in 0..6
    BY <1>1, <2>1, StepsLeftType
  <2>3. job'[w] = m /\ pc'[w] = l
    BY <1>2, <1>8, <2>1 DEF Goes, JobTypes
  <2>4. StepsOf(job', pc', m) = StepsLeft[l]
    BY <2>3, OneHolderNext, StepsOfHolder
  <2>5. TriesLeft(m)' = Tries - attempts[m]
    BY <1>4, <1>8 DEF TriesLeft, Goes
  <2>6. Remaining(m)' < Remaining(m)
    BY <1>4, <1>5, <1>6, <1>7, <2>2, <2>4, <2>5, WorkerBounds
  <2>7. ASSUME NEW n \in Messages \ {m}
        PROVE  Remaining(n)' = Remaining(n)
    <3>1. UNCHANGED <<marked, failed, attempts, job>>
      BY <1>8 DEF Goes
    <3>. QED
      BY <1>2, <1>3, <2>7, <3>1, OthersKeep
  <2>. QED
    BY <2>6, <2>7
<1>9. CASE GivesBack(w) \/ Finishes(w)
  <2>1. job'[w] = NoMessage
    BY <1>9 DEF GivesBack, GiveBack, Finishes, JobTypes
  <2>2. StepsOf(job', pc', m) = 0
    <3>1. \A v \in Workers : job'[v] # m
      BY <1>2, <1>3, <2>1, WorkerBounds
    <3>. QED
      BY <3>1, StepsOfNobody
  <2>3. TriesLeft(m)' \in {0, Tries - attempts[m]}
    BY <1>4 DEF TriesLeft
  <2>4. Remaining(m)' < Remaining(m)
    BY <1>4, <1>5, <1>6, <1>7, <2>2, <2>3, WorkerBounds
  <2>5. ASSUME NEW n \in Messages \ {m}
        PROVE  Remaining(n)' = Remaining(n)
    <3>1. (n \in marked' <=> n \in marked) /\ (n \in failed' <=> n \in failed)
      BY <1>2, <1>9, <2>5 DEF GivesBack, GiveBack, Finishes
    <3>2. \A v \in Workers : job'[v] = n <=> job[v] = n
      BY <1>2, <1>3, <2>1, <2>5, WorkerBounds
    <3>3. \A v \in Workers : job[v] = n => pc'[v] = pc[v]
      BY <1>2, <1>3, <2>5
    <3>. QED
      BY <1>4, <3>1, <3>2, <3>3, OthersKeep
  <2>. QED
    BY <2>4, <2>5
<1>. QED
  BY <1>8, <1>9

LEMMA QueueAlways == Spec => []QueueInv
<1>1. QueueInv /\ [Next]_vars => QueueInv'
  <2>1. CASE UNCHANGED vars
    BY <2>1 DEF vars, jobVars, QueueInv, JobTypes, JobsInv, DoneInv, NoneForgotten
  <2>. QED
    BY <2>1, ActQueue, NextActs
<1>. QED
  BY <1>1, InitQueue, PTL DEF Spec

\* A step that is on no job is the end of a process between two jobs.
LEMMA StaysExits ==
    ASSUME JobTypes, JobsInv, NEW w \in Workers, Act(w), Stays
    PROVE  exits' = exits + 1
<1>1. ~Takes(w)
  <2>1. ASSUME Takes(w)
        PROVE  FALSE
    BY <2>1 DEF Takes, Stays, JobTypes
  <2>. QED
    BY <2>1
<1>2. pc' = pc
  BY DEF Stays
<1>3. ~(\E k, l \in PCs : k # l /\ pc[w] = k /\ pc' = [pc EXCEPT ![w] = l])
  BY <1>2 DEF JobTypes
<1>4. CASE Exit(w)
  BY <1>4 DEF Exit
<1>5. CASE ~Exit(w)
  BY <1>2, <1>3, <1>5 DEF Act, Step, Take, WriteCustomer, WriteMessage, BeginEscalation,
     NoAgentFound, HandOver, Commit, RollBack, Finish, StatementFails, StatementRefused,
     TimeOut, GiveBack, Goto, Running, PCs
<1>. QED
  BY <1>4, <1>5

\* Every message is at one place: it waits, one worker has it, it is marked as processed
\* or it has failed.  No job is taken twice, none is forgotten, and none that is done
\* comes back.
THEOREM JobsAccounted ==
    Spec => [](/\ waiting \cap (marked \cup failed) = {}
               /\ marked \cap failed = {}
               /\ \A w \in Workers : job[w] \notin waiting \cup marked \cup failed
               /\ \A m \in Messages : \A v, w \in Workers : job[v] = m /\ job[w] = m => v = w
               /\ NoneForgotten)
<1>1. QueueInv => /\ waiting \cap (marked \cup failed) = {}
                  /\ marked \cap failed = {}
                  /\ \A w \in Workers : job[w] \notin waiting \cup marked \cup failed
                  /\ \A m \in Messages : \A v, w \in Workers : job[v] = m /\ job[w] = m => v = w
                  /\ NoneForgotten
  BY OneHolder DEF QueueInv, DoneInv, JobsInv
<1>. QED
  BY <1>1, QueueAlways, PTL

\* The queue's work runs out, whatever fails, waits, is refused or rolled back: every step
\* of a worker leaves one message with fewer steps to come, a natural number, and the
\* others with as many, except for the end of a process between two jobs.
THEOREM WorkRunsOut ==
    Spec => /\ [](\A m \in Messages : Remaining(m) \in Nat)
            /\ [][\/ \E m \in Messages :
                        /\ Remaining(m)' < Remaining(m)
                        /\ \A n \in Messages \ {m} : Remaining(n)' = Remaining(n)
                  \/ /\ exits' = exits + 1
                     /\ \A m \in Messages : Remaining(m)' = Remaining(m)]_vars
<1>1. QueueInv => \A m \in Messages : Remaining(m) \in Nat
  BY RemainingType DEF QueueInv
<1>2. ASSUME QueueInv, QueueInv', Next
      PROVE  \/ \E m \in Messages :
                   /\ Remaining(m)' < Remaining(m)
                   /\ \A n \in Messages \ {m} : Remaining(n)' = Remaining(n)
             \/ /\ exits' = exits + 1
                /\ \A m \in Messages : Remaining(m)' = Remaining(m)
  <2>1. PICK w \in Workers : Act(w)
    BY <1>2 DEF Next, Act
  <2>2. CASE Stays
    <3>1. exits' = exits + 1
      BY <1>2, <2>1, <2>2, StaysExits DEF QueueInv
    <3>2. \A m \in Messages : Remaining(m)' = Remaining(m)
      BY <1>2, <2>2, OthersKeep DEF QueueInv, Stays
    <3>. QED
      BY <3>1, <3>2
  <2>3. CASE Takes(w)
    BY <1>2, <2>3, TakesLess
  <2>4. CASE Goes(w) \/ GivesBack(w) \/ Finishes(w)
    BY <1>2, <2>4, LeavesLess
  <2>. QED
    BY <2>1, <2>2, <2>3, <2>4, JobStep
<1>3. QueueInv /\ QueueInv' /\ [Next]_vars =>
          [\/ \E m \in Messages :
                 /\ Remaining(m)' < Remaining(m)
                 /\ \A n \in Messages \ {m} : Remaining(n)' = Remaining(n)
           \/ /\ exits' = exits + 1
              /\ \A m \in Messages : Remaining(m)' = Remaining(m)]_vars
  BY <1>2
<1>. QED
  BY <1>1, <1>3, QueueAlways, PTL DEF Spec

-----------------------------------------------------------------------------
(* Failed transactions *)

\* The connection of a worker in the middle of a job has no failed transaction.
Sound == \A w \in Workers : pc[w] \notin {"idle", "customer"} => w \notin aborted

LEMMA ActSound ==
    ASSUME JobTypes, Sound, NEW w \in Workers, Act(w)
    PROVE  Sound'
<1>1. \A v \in Workers \ {w} : pc'[v] = pc[v]
  BY JobStep DEF Takes, Goes, GivesBack, GiveBack, Goto, Finishes, Stays, JobTypes
<1>2. aborted' \subseteq aborted \cup {w}
  BY DEF Act, Step, Take, WriteCustomer, WriteMessage, BeginEscalation, NoAgentFound, HandOver,
     Commit, RollBack, Finish, StatementFails, StatementRefused, TimeOut, Exit, Disconnect,
     connectionVars
<1>3. CASE Take(w) \/ StatementFails(w) \/ StatementRefused(w) \/ TimeOut(w) \/ Finish(w)
           \/ Exit(w)
  <2>1. pc'[w] \in {"idle", "customer"}
    BY <1>3 DEF Take, StatementFails, StatementRefused, TimeOut, Finish, Exit, GiveBack, Goto,
       JobTypes, jobVars
  <2>. QED
    BY <1>1, <1>2, <2>1 DEF Sound
<1>4. CASE WriteCustomer(w) \/ WriteMessage(w) \/ BeginEscalation(w) \/ NoAgentFound(w)
           \/ HandOver(w) \/ Commit(w) \/ RollBack(w)
  <2>1. w \notin aborted /\ aborted' = aborted
    BY <1>4 DEF WriteCustomer, WriteMessage, BeginEscalation, NoAgentFound, HandOver, Commit,
       RollBack, Running, connectionVars
  <2>. QED
    BY <1>1, <2>1 DEF Sound
<1>. QED
  BY <1>3, <1>4 DEF Act, Step

\* "current transaction is aborted" can only meet the first statement of a job: a worker
\* whose transaction has failed refuses its jobs there, and no job is stopped halfway by
\* what an earlier one has left.  With the guards of the steps this says that a worker
\* which has a job always has a step.
THEOREM AbortedAtTheStart == Spec => []Sound
<1>1. Init => Sound
  BY DEF Init, Sound
<1>2. QueueInv /\ Sound /\ [Next]_vars => Sound'
  <2>1. CASE UNCHANGED vars
    BY <2>1 DEF vars, jobVars, connectionVars, Sound
  <2>. QED
    BY <2>1, ActSound, NextActs DEF QueueInv
<1>. QED
  BY <1>1, <1>2, QueueAlways, PTL DEF Spec
=============================================================================
