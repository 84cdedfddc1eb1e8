---------------------- MODULE SessionAssignmentProofs ----------------------
(***************************************************************************)
(* Proofs about SessionAssignment, for every number of sessions, agents    *)
(* and requests.  Both safety invariants count the processes that are in a *)
(* window of an operation (Cleared, HalfCounted, HalfReleased); a step of  *)
(* process r adds r to such a set or removes it, and the arithmetic of the *)
(* step follows from the four lemmas on cardinalities.                     *)
(***************************************************************************)
EXTENDS SessionAssignment, FiniteSetTheorems, TLAPS

-----------------------------------------------------------------------------
(* Cardinalities of sets of requests *)

\* A set of processes is finite and has at most as many elements as Requests.
LEMMA RequestSubset ==
    ASSUME NEW S \in SUBSET Requests
    PROVE  /\ IsFiniteSet(S)
           /\ Cardinality(S) \in Nat
           /\ Cardinality(Requests) \in Nat
           /\ Cardinality(S) <= Cardinality(Requests)
  BY RequestsAssumption, FS_Subset, FS_CardinalityType

\* A window S becomes T when process r takes a step: all others stay where they are.
LEMMA WindowCardinality ==
    ASSUME NEW S \in SUBSET Requests, NEW T \in SUBSET Requests, NEW r \in Requests,
           \A p \in Requests \ {r} : p \in S <=> p \in T
    PROVE  /\ Cardinality(S) \in Nat
           /\ r \notin S /\ r \in T    => Cardinality(T) = Cardinality(S) + 1
           /\ r \in S    /\ r \notin T => Cardinality(T) = Cardinality(S) - 1
           /\ r \in S    /\ r \in T    => Cardinality(T) = Cardinality(S)
           /\ r \notin S /\ r \notin T => Cardinality(T) = Cardinality(S)
<1>1. IsFiniteSet(S) /\ Cardinality(S) \in Nat
  BY RequestSubset
<1>2. CASE r \notin S /\ r \in T
  <2>1. T = S \cup {r}
    BY <1>2
  <2>. QED
    BY <1>1, <1>2, <2>1, FS_AddElement
<1>3. CASE r \in S /\ r \notin T
  <2>1. T = S \ {r}
    BY <1>3
  <2>. QED
    BY <1>1, <1>3, <2>1, FS_RemoveElement
<1>4. CASE (r \in S /\ r \in T) \/ (r \notin S /\ r \notin T)
  <2>1. T = S
    BY <1>4
  <2>. QED
    BY <1>1, <1>4, <2>1
<1>. QED
  BY <1>2, <1>3, <1>4

-----------------------------------------------------------------------------
(* Type correctness *)

\* An update writes a row whose columns come from the row in memory, the row
\* that is wanted and the row in the table.
LEMMA SaveDirtyType ==
    ASSUME NEW snap \in SessionRow, NEW want \in SessionRow, NEW row \in SessionRow
    PROVE  SaveDirty(snap, want, row) \in SessionRow
  BY DEF SaveDirty, SessionRow

\* An increment or a decrement keeps a counter a function of the agents.
LEMMA CounterType ==
    ASSUME NEW k
    PROVE  /\ \A f \in [Agents -> Nat] : [f EXCEPT ![k] = @ + 1] \in [Agents -> Nat]
           /\ \A f \in [Agents -> Int] : [f EXCEPT ![k] = @ + 1] \in [Agents -> Int]
           /\ \A f \in [Agents -> Int] : [f EXCEPT ![k] = @ - 1] \in [Agents -> Int]
<1>1. CASE k \in Agents
  BY <1>1
<1>2. CASE k \notin Agents
  BY <1>2
<1>. QED
  BY <1>1, <1>2

LEMMA NoRequestType == NoRequest \in Request
  BY DEF NoRequest, Request, PCs, OperationNames, FreshSession, SessionRow

LEMMA FinishType ==
    ASSUME TypeOK, NEW r \in Requests, Finish(r)
    PROVE  req' \in [Requests -> Request]
  BY NoRequestType DEF TypeOK, Finish

LEMMA GotoType ==
    ASSUME TypeOK, NEW r \in Requests, NEW pc \in PCs, Goto(r, pc)
    PROVE  req' \in [Requests -> Request]
  BY DEF TypeOK, Goto, Request

LEMMA PickedType ==
    ASSUME NEW q \in Request, NEW a \in Agents
    PROVE  Picked(q, a) \in Request
<1>. DEFINE want == [q.want EXCEPT !.agent = a, !.bot = FALSE]
<1>1. want \in SessionRow
  BY DEF Request, SessionRow
<1>2. [q EXCEPT !.pc = "picked", !.agent = a] \in Request
  BY DEF Request, PCs
<1>3. [q EXCEPT !.pc = "picked", !.agent = a, !.want = want] \in Request
  <2>. HIDE DEF want
  <2>. QED
    BY <1>1, <1>2 DEF Request
<1>. QED
  BY <1>3 DEF Picked

\* Every Begin keeps the types when the row it wants to write is a row.
LEMMA BeginType ==
    ASSUME TypeOK, NEW r \in Requests, NEW op \in OperationNames, NEW s \in Sessions,
           NEW a \in Agents \cup {NoAgent}, NEW want \in SessionRow,
           Begin(r, op, s, a, want)
    PROVE  TypeOK'
<1>1. session[s] \in SessionRow
  BY DEF TypeOK
<1>2. [pc |-> "read", op |-> op, sess |-> s, agent |-> a,
       snap |-> session[s], want |-> want] \in Request
  BY <1>1 DEF Request, PCs
<1>3. req' \in [Requests -> Request]
  BY <1>2 DEF TypeOK, Begin
<1>. QED
  BY <1>3 DEF TypeOK, Begin, counters

\* Whatever operation starts, it is a Begin with values of these types, and a
\* transfer has seen room at its agent.
LEMMA StartBegins ==
    ASSUME TypeOK, NEW r \in Requests, Start(r)
    PROVE  \E op \in OperationNames, s \in Sessions,
              a \in Agents \cup {NoAgent}, want \in SessionRow :
                  /\ Begin(r, op, s, a, want)
                  /\ op = "transfer" => a \in Agents /\ CanHandleMoreChats(a)
<1>1. PICK s \in Sessions :
          \/ BeginUpdate(r, s)
          \/ BeginEnd(r, s)
          \/ BeginEscalate(r, s)
          \/ \E a \in Agents : BeginAssign(r, s, a) \/ BeginTransfer(r, s, a)
  BY DEF Start
<1>2. session[s] \in SessionRow
  BY DEF TypeOK
<1>3. CASE BeginUpdate(r, s)
  <2>1. PICK a \in Agents \cup {NoAgent}, active \in BOOLEAN, bot \in BOOLEAN :
            Begin(r, "update", s, a,
                  [session[s] EXCEPT !.agent = a, !.active = active, !.bot = bot])
    BY <1>3 DEF BeginUpdate
  <2>2. [session[s] EXCEPT !.agent = a, !.active = active, !.bot = bot] \in SessionRow
    BY <1>2 DEF SessionRow
  <2>. QED
    BY <2>1, <2>2 DEF OperationNames
<1>4. CASE BeginEnd(r, s)
  <2>1. PICK isResolved \in BOOLEAN :
            Begin(r, "end", s, session[s].agent,
                  [session[s] EXCEPT !.active = FALSE, !.resolved = @ \/ isResolved])
    BY <1>4 DEF BeginEnd
  <2>2. [session[s] EXCEPT !.active = FALSE, !.resolved = @ \/ isResolved] \in SessionRow
    BY <1>2 DEF SessionRow
  <2>3. session[s].agent \in Agents \cup {NoAgent}
    BY <1>2 DEF SessionRow
  <2>. QED
    BY <2>1, <2>2, <2>3 DEF OperationNames
<1>5. CASE BeginEscalate(r, s)
  BY <1>2, <1>5 DEF BeginEscalate, OperationNames
<1>6. CASE \E a \in Agents : BeginAssign(r, s, a) \/ BeginTransfer(r, s, a)
  <2>1. PICK a \in Agents : BeginAssign(r, s, a) \/ BeginTransfer(r, s, a)
    BY <1>6
  <2>2. /\ [session[s] EXCEPT !.agent = a] \in SessionRow
        /\ [session[s] EXCEPT !.agent = a, !.bot = FALSE] \in SessionRow
    BY <1>2 DEF SessionRow
  <2>3. CASE BeginAssign(r, s, a)
    BY <2>2, <2>3 DEF BeginAssign, OperationNames
  <2>4. CASE BeginTransfer(r, s, a)
    BY <2>2, <2>4 DEF BeginTransfer, OperationNames
  <2>. QED
    BY <2>1, <2>3, <2>4
<1>. QED
  BY <1>1, <1>3, <1>4, <1>5, <1>6

LEMMA StartType ==
    ASSUME TypeOK, NEW r \in Requests, Start(r)
    PROVE  TypeOK'
  BY StartBegins, BeginType

\* One step of a process keeps the types.
LEMMA RequestStepType ==
    ASSUME TypeOK, NEW r \in Requests,
           \/ SaveSession(r)
           \/ IncrementActive(r)
           \/ IncrementHandled(r)
           \/ DecrementActive(r)
           \/ IncrementResolved(r)
           \/ PickAgent(r)
           \/ NoAgentFound(r)
           \/ EscalateCommit(r)
           \/ Die(r)
    PROVE  TypeOK'
<1>1. req[r] \in Request
  BY DEF TypeOK
<1>2. CASE SaveSession(r)
  <2>1. Finish(r) \/ \E pc \in PCs : Goto(r, pc)
    BY <1>2 DEF SaveSession, PCs
  <2>2. req' \in [Requests -> Request]
    BY <2>1, FinishType, GotoType
  <2>3. \A s \in Sessions :
            SaveDirty(req[r].snap, req[r].want, session[s]) \in SessionRow
    <3>1. /\ req[r].snap \in SessionRow
          /\ req[r].want \in SessionRow
      BY <1>1 DEF Request
    <3>2. \A s \in Sessions : session[s] \in SessionRow
      BY DEF TypeOK
    <3>. QED
      BY <3>1, <3>2, SaveDirtyType
  <2>4. session' \in [Sessions -> SessionRow]
    BY <1>2, <2>3 DEF SaveSession, TypeOK
  <2>. QED
    BY <1>2, <2>2, <2>4 DEF SaveSession, TypeOK, counters
<1>3. CASE IncrementActive(r)
  <2>1. req' \in [Requests -> Request]
    BY <1>3, GotoType DEF IncrementActive, PCs
  <2>. QED
    BY <1>3, <2>1, CounterType DEF IncrementActive, TypeOK
<1>4. CASE IncrementHandled(r)
  <2>1. req' \in [Requests -> Request]
    BY <1>4, FinishType DEF IncrementHandled
  <2>. QED
    BY <1>4, <2>1, CounterType DEF IncrementHandled, TypeOK
<1>5. CASE DecrementActive(r)
  <2>1. req' \in [Requests -> Request]
    BY <1>5, FinishType, GotoType DEF DecrementActive, PCs
  <2>. QED
    BY <1>5, <2>1, CounterType DEF DecrementActive, TypeOK
<1>6. CASE IncrementResolved(r)
  <2>1. req' \in [Requests -> Request]
    BY <1>6, FinishType DEF IncrementResolved
  <2>. QED
    BY <1>6, <2>1, CounterType DEF IncrementResolved, TypeOK
<1>7. CASE PickAgent(r)
  <2>1. PICK a \in LeastLoaded(Candidates) : req' = [req EXCEPT ![r] = Picked(req[r], a)]
    BY <1>7 DEF PickAgent
  <2>2. a \in Agents
    BY NamesAssumption DEF LeastLoaded, Candidates
  <2>3. req' \in [Requests -> Request]
    BY <1>1, <2>1, <2>2, PickedType DEF TypeOK
  <2>. QED
    BY <1>7, <2>3 DEF PickAgent, TypeOK, counters
<1>8. CASE NoAgentFound(r)
  <2>1. req' \in [Requests -> Request]
    BY <1>8, FinishType DEF NoAgentFound
  <2>. QED
    BY <1>8, <2>1 DEF NoAgentFound, TypeOK, counters
<1>9. CASE EscalateCommit(r)
  <2>1. req' \in [Requests -> Request]
    BY <1>9, FinishType DEF EscalateCommit
  <2>2. /\ req[r].snap \in SessionRow
        /\ req[r].want \in SessionRow
    BY <1>1 DEF Request
  <2>3. \A s \in Sessions :
            SaveDirty(req[r].snap, req[r].want, session[s]) \in SessionRow
    BY <2>2, SaveDirtyType DEF TypeOK
  <2>4. session' \in [Sessions -> SessionRow]
    BY <1>9, <2>3 DEF EscalateCommit, TypeOK
  <2>. QED
    BY <1>9, <2>1, <2>4, CounterType DEF EscalateCommit, TypeOK
<1>10. CASE Die(r)
  <2>1. req' \in [Requests -> Request]
    BY <1>10, FinishType DEF Die
  <2>. QED
    BY <1>10, <2>1, CounterType DEF Die, TypeOK, counters
<1>. QED
  BY <1>2, <1>3, <1>4, <1>5, <1>6, <1>7, <1>8, <1>9, <1>10

LEMMA SetCapacityType ==
    ASSUME TypeOK, NEW b \in Agents, SetCapacity(b)
    PROVE  TypeOK'
  BY BoundsAssumption DEF SetCapacity, TypeOK, counters

LEMMA InitType == Init => TypeOK
<1>1. NoRequest \in Request
  BY NoRequestType
<1>2. FreshSession \in SessionRow
  BY DEF FreshSession, SessionRow
<1>. QED
  BY <1>1, <1>2 DEF Init, TypeOK

LEMMA NextType == TypeOK /\ [Next]_vars => TypeOK'
<1>. SUFFICES ASSUME TypeOK, [Next]_vars
              PROVE  TypeOK'
  OBVIOUS
<1>1. CASE UNCHANGED vars
  BY <1>1 DEF vars, counters, TypeOK
<1>2. CASE Next
  BY <1>2, StartType, RequestStepType, SetCapacityType DEF Next
<1>. QED
  BY <1>1, <1>2

\* The columns of the rows, the counters and the records of the processes keep
\* their types through every operation, interleaving and death.
THEOREM TypeCorrect == Spec => []TypeOK
<1>. QED
  BY InitType, NextType, PTL DEF Spec

-----------------------------------------------------------------------------
(* The windows of an operation *)

\* When process r becomes q, a window gains r if q is in it and r was not, and
\* loses r if r was in it and q is not.
LEMMA ClearedStep ==
    ASSUME TypeOK, NEW r \in Requests, NEW q, NEW a, req' = [req EXCEPT ![r] = q]
    PROVE  /\ Cardinality(Cleared(a)) \in Nat
           /\ Cardinality(Cleared(a)') \in Nat
           /\ Cardinality(Cleared(a)') <= Cardinality(Requests)
           /\ ~SawRoom(q, a) => Cardinality(Cleared(a)') <= Cardinality(Cleared(a))
           /\ SawRoom(req[r], a) /\ SawRoom(q, a)
                => Cardinality(Cleared(a)') = Cardinality(Cleared(a))
           /\ SawRoom(req[r], a) /\ ~SawRoom(q, a)
                => Cardinality(Cleared(a)') = Cardinality(Cleared(a)) - 1
<1>1. /\ req'[r] = q
      /\ \A p \in Requests \ {r} : req'[p] = req[p]
  BY DEF TypeOK
<1>2. /\ Cleared(a) \in SUBSET Requests
      /\ Cleared(a)' \in SUBSET Requests
      /\ \A p \in Requests \ {r} : p \in Cleared(a) <=> p \in Cleared(a)'
      /\ r \in Cleared(a) <=> SawRoom(req[r], a)
      /\ r \in Cleared(a)' <=> SawRoom(q, a)
  BY <1>1 DEF Cleared, SawRoom
<1>3. /\ Cardinality(Cleared(a)) \in Nat
      /\ Cardinality(Cleared(a)') \in Nat
      /\ Cardinality(Cleared(a)') <= Cardinality(Requests)
  BY <1>2, RequestSubset
<1>. QED
  BY <1>2, <1>3, WindowCardinality

LEMMA HalfCountedStep ==
    ASSUME TypeOK, NEW r \in Requests, NEW q, NEW a, req' = [req EXCEPT ![r] = q]
    PROVE  /\ Cardinality(HalfCounted(a)) \in Nat
           /\ ~BetweenIncrements(req[r], a) /\ BetweenIncrements(q, a)
                => Cardinality(HalfCounted(a)') = Cardinality(HalfCounted(a)) + 1
           /\ BetweenIncrements(req[r], a) /\ ~BetweenIncrements(q, a)
                => Cardinality(HalfCounted(a)') = Cardinality(HalfCounted(a)) - 1
           /\ ~BetweenIncrements(req[r], a) /\ ~BetweenIncrements(q, a)
                => Cardinality(HalfCounted(a)') = Cardinality(HalfCounted(a))
<1>1. /\ req'[r] = q
      /\ \A p \in Requests \ {r} : req'[p] = req[p]
  BY DEF TypeOK
<1>2. /\ HalfCounted(a) \in SUBSET Requests
      /\ HalfCounted(a)' \in SUBSET Requests
      /\ \A p \in Requests \ {r} : p \in HalfCounted(a) <=> p \in HalfCounted(a)'
      /\ r \in HalfCounted(a) <=> BetweenIncrements(req[r], a)
      /\ r \in HalfCounted(a)' <=> BetweenIncrements(q, a)
  BY <1>1 DEF HalfCounted, BetweenIncrements
<1>. QED
  BY <1>2, WindowCardinality

LEMMA HalfReleasedStep ==
    ASSUME TypeOK, NEW r \in Requests, NEW q, NEW a, req' = [req EXCEPT ![r] = q]
    PROVE  /\ Cardinality(HalfReleased(a)) \in Nat
           /\ ~BetweenReleases(req[r], a) /\ BetweenReleases(q, a)
                => Cardinality(HalfReleased(a)') = Cardinality(HalfReleased(a)) + 1
           /\ BetweenReleases(req[r], a) /\ ~BetweenReleases(q, a)
                => Cardinality(HalfReleased(a)') = Cardinality(HalfReleased(a)) - 1
           /\ ~BetweenReleases(req[r], a) /\ ~BetweenReleases(q, a)
                => Cardinality(HalfReleased(a)') = Cardinality(HalfReleased(a))
<1>1. /\ req'[r] = q
      /\ \A p \in Requests \ {r} : req'[p] = req[p]
  BY DEF TypeOK
<1>2. /\ HalfReleased(a) \in SUBSET Requests
      /\ HalfReleased(a)' \in SUBSET Requests
      /\ \A p \in Requests \ {r} : p \in HalfReleased(a) <=> p \in HalfReleased(a)'
      /\ r \in HalfReleased(a) <=> BetweenReleases(req[r], a)
      /\ r \in HalfReleased(a)' <=> BetweenReleases(q, a)
  BY <1>1 DEF HalfReleased, BetweenReleases
<1>. QED
  BY <1>2, WindowCardinality

LEMMA NoRequestWindows ==
    ASSUME NEW a
    PROVE  /\ ~SawRoom(NoRequest, a)
           /\ ~BetweenIncrements(NoRequest, a)
           /\ ~BetweenReleases(NoRequest, a)
  BY DEF NoRequest, SawRoom, BetweenIncrements, BetweenReleases

-----------------------------------------------------------------------------
(* The overshoot of the capacity *)

\* What an agent shows and what the processes that have seen room at it are about
\* to add stay together under the bound: the room was seen when load was below
\* the capacity, and there are only so many processes.
RoomCovered ==
    \A a \in Agents :
        load[a] + Cardinality(Cleared(a)) <= CapacityLimit + Cardinality(Requests) - 1

LEMMA RequestsSize == Cardinality(Requests) \in Nat
  BY RequestsAssumption, FS_CardinalityType

LEMMA InitRoom == Init => RoomCovered
<1>. SUFFICES ASSUME Init, NEW a \in Agents
              PROVE  load[a] + Cardinality(Cleared(a))
                         <= CapacityLimit + Cardinality(Requests) - 1
  BY DEF RoomCovered
<1>1. Cleared(a) = {}
  BY NoRequestWindows DEF Init, Cleared
<1>2. Cardinality(Cleared(a)) = 0
  BY <1>1, FS_EmptySet
<1>. QED
  BY <1>2, RequestsSize, BoundsAssumption DEF Init

\* Process r becomes q, which has seen room only where there is room now.
LEMMA AdmitRoom ==
    ASSUME TypeOK, RoomCovered, NEW r \in Requests, NEW q, req' = [req EXCEPT ![r] = q],
           load' = load, \A a \in Agents : SawRoom(q, a) => CanHandleMoreChats(a)
    PROVE  RoomCovered'
<1>. SUFFICES ASSUME NEW a \in Agents
              PROVE  load'[a] + Cardinality(Cleared(a)')
                         <= CapacityLimit + Cardinality(Requests) - 1
  BY DEF RoomCovered
<1>1. load[a] \in Int /\ capacity[a] \in 1..CapacityLimit
  BY DEF TypeOK
<1>2. CASE SawRoom(q, a)
  <2>1. load[a] < capacity[a]
    BY <1>2 DEF CanHandleMoreChats
  <2>2. Cardinality(Cleared(a)') \in Nat /\ Cardinality(Cleared(a)') <= Cardinality(Requests)
    BY ClearedStep
  <2>. QED
    BY <1>1, <2>1, <2>2, RequestsSize, BoundsAssumption
<1>3. CASE ~SawRoom(q, a)
  <2>1. /\ Cardinality(Cleared(a)) \in Nat
        /\ Cardinality(Cleared(a)') \in Nat
        /\ Cardinality(Cleared(a)') <= Cardinality(Cleared(a))
    BY <1>3, ClearedStep
  <2>. QED
    BY <1>1, <2>1, RequestsSize, BoundsAssumption DEF RoomCovered
<1>. QED
  BY <1>2, <1>3

LEMMA StartRoom ==
    ASSUME TypeOK, RoomCovered, NEW r \in Requests, Start(r)
    PROVE  RoomCovered'
<1>1. PICK op \in OperationNames, s \in Sessions,
           b \in Agents \cup {NoAgent}, want \in SessionRow :
               /\ Begin(r, op, s, b, want)
               /\ op = "transfer" => b \in Agents /\ CanHandleMoreChats(b)
  BY StartBegins
<1>. DEFINE q == [pc |-> "read", op |-> op, sess |-> s, agent |-> b,
                  snap |-> session[s], want |-> want]
<1>2. /\ req' = [req EXCEPT ![r] = q]
      /\ load' = load
  BY <1>1 DEF Begin, counters
<1>3. \A a \in Agents : SawRoom(q, a) => CanHandleMoreChats(a)
  BY <1>1 DEF SawRoom
<1>. HIDE DEF q
<1>. QED
  BY <1>2, <1>3, AdmitRoom

\* A step of process r to q that leaves every counter of active chats where it is
\* or lower keeps the bound unless q has just seen room.
LEMMA QuietRoom ==
    ASSUME TypeOK, RoomCovered, NEW r \in Requests, NEW q, req' = [req EXCEPT ![r] = q],
           \A a \in Agents : load'[a] \in Int /\ load'[a] <= load[a],
           \A a \in Agents : SawRoom(q, a) => SawRoom(req[r], a)
    PROVE  RoomCovered'
<1>. SUFFICES ASSUME NEW a \in Agents
              PROVE  load'[a] + Cardinality(Cleared(a)')
                         <= CapacityLimit + Cardinality(Requests) - 1
  BY DEF RoomCovered
<1>1. /\ Cardinality(Cleared(a)) \in Nat
      /\ Cardinality(Cleared(a)') \in Nat
      /\ Cardinality(Cleared(a)') <= Cardinality(Cleared(a))
  <2>1. Cardinality(Cleared(a)) \in Nat /\ Cardinality(Cleared(a)') \in Nat
    BY ClearedStep
  <2>2. CASE SawRoom(q, a)
    <3>1. SawRoom(req[r], a)
      BY <2>2
    <3>2. Cardinality(Cleared(a)') = Cardinality(Cleared(a))
      BY <2>2, <3>1, ClearedStep
    <3>. QED
      BY <2>1, <3>2
  <2>3. CASE ~SawRoom(q, a)
    BY <2>1, <2>3, ClearedStep
  <2>. QED
    BY <2>1, <2>2, <2>3
<1>2. load[a] \in Int
  BY DEF TypeOK
<1>. QED
  BY <1>1, <1>2, RequestsSize, BoundsAssumption DEF RoomCovered

\* A process that had seen room at an agent counts its chat there.
LEMMA CountRoom ==
    ASSUME TypeOK, RoomCovered, NEW r \in Requests, NEW q, req' = [req EXCEPT ![r] = q],
           SawRoom(req[r], req[r].agent),
           \A a \in Agents : ~SawRoom(q, a),
           load' = [load EXCEPT ![req[r].agent] = @ + 1]
    PROVE  RoomCovered'
<1>. SUFFICES ASSUME NEW a \in Agents
              PROVE  load'[a] + Cardinality(Cleared(a)')
                         <= CapacityLimit + Cardinality(Requests) - 1
  BY DEF RoomCovered
<1>1. load[a] \in Int
  BY DEF TypeOK
<1>2. CASE a = req[r].agent
  <2>1. load'[a] = load[a] + 1
    BY <1>2 DEF TypeOK
  <2>2. /\ Cardinality(Cleared(a)) \in Nat
        /\ Cardinality(Cleared(a)') = Cardinality(Cleared(a)) - 1
    BY <1>2, ClearedStep
  <2>. QED
    BY <1>1, <2>1, <2>2, RequestsSize, BoundsAssumption DEF RoomCovered
<1>3. CASE a # req[r].agent
  <2>1. load'[a] = load[a]
    BY <1>3 DEF TypeOK
  <2>2. /\ Cardinality(Cleared(a)) \in Nat
        /\ Cardinality(Cleared(a)') \in Nat
        /\ Cardinality(Cleared(a)') <= Cardinality(Cleared(a))
    BY ClearedStep
  <2>. QED
    BY <1>1, <2>1, <2>2, RequestsSize, BoundsAssumption DEF RoomCovered
<1>. QED
  BY <1>2, <1>3

LEMMA RequestStepRoom ==
    ASSUME TypeOK, TypeOK', RoomCovered, NEW r \in Requests,
           \/ SaveSession(r)
           \/ IncrementActive(r)
           \/ IncrementHandled(r)
           \/ DecrementActive(r)
           \/ IncrementResolved(r)
           \/ PickAgent(r)
           \/ NoAgentFound(r)
           \/ EscalateCommit(r)
           \/ Die(r)
    PROVE  RoomCovered'
<1>1. req[r] \in Request
  BY DEF TypeOK
<1>2. ASSUME Finish(r), \A a \in Agents : load'[a] <= load[a]
      PROVE  RoomCovered'
  <2>1. req' = [req EXCEPT ![r] = NoRequest]
    BY <1>2 DEF Finish
  <2>2. \A a \in Agents : load'[a] \in Int
    BY DEF TypeOK
  <2>. QED
    BY <1>2, <2>1, <2>2, NoRequestWindows, QuietRoom
<1>3. ASSUME NEW pc, Goto(r, pc), pc # "picked",
             pc = "count" => req[r].pc = "read" /\ req[r].op = "transfer",
             pc # "read",
             \A a \in Agents : load'[a] <= load[a]
      PROVE  RoomCovered'
  <2>. DEFINE q == [req[r] EXCEPT !.pc = pc]
  <2>1. req' = [req EXCEPT ![r] = q]
    BY <1>3 DEF Goto, TypeOK
  <2>2. q.pc = pc /\ q.op = req[r].op /\ q.agent = req[r].agent
    BY <1>1 DEF Request
  <2>3. \A a \in Agents : SawRoom(q, a) => SawRoom(req[r], a)
    BY <1>3, <2>2 DEF SawRoom
  <2>4. \A a \in Agents : load'[a] \in Int
    BY DEF TypeOK
  <2>. HIDE DEF q
  <2>. QED
    BY <1>3, <2>1, <2>3, <2>4, QuietRoom
<1>4. UNCHANGED load => \A a \in Agents : load'[a] <= load[a]
  BY DEF TypeOK
<1>5. CASE SaveSession(r)
  <2>1. req[r].pc = "read" /\ UNCHANGED load
    BY <1>5 DEF SaveSession, counters
  <2>2. \/ Finish(r)
        \/ req[r].op = "transfer" /\ Goto(r, "count")
        \/ Goto(r, "release")
    BY <1>5 DEF SaveSession
  <2>. QED
    BY <1>2, <1>3, <1>4, <2>1, <2>2
<1>6. CASE IncrementActive(r)
  <2>. DEFINE q == [req[r] EXCEPT !.pc = "handled"]
  <2>1. req' = [req EXCEPT ![r] = q]
    BY <1>6 DEF IncrementActive, Goto, TypeOK
  <2>2. q.pc = "handled"
    BY <1>1 DEF Request
  <2>3. \A a \in Agents : ~SawRoom(q, a)
    BY <2>2 DEF SawRoom
  <2>4. SawRoom(req[r], req[r].agent)
    BY <1>6 DEF IncrementActive, SawRoom
  <2>. HIDE DEF q
  <2>. QED
    BY <1>6, <2>1, <2>3, <2>4, CountRoom DEF IncrementActive
<1>7. CASE IncrementHandled(r)
  BY <1>2, <1>4, <1>7 DEF IncrementHandled
<1>8. CASE DecrementActive(r)
  <2>1. \A a \in Agents : load'[a] <= load[a]
    BY <1>8 DEF DecrementActive, TypeOK
  <2>2. Finish(r) \/ Goto(r, "resolve")
    BY <1>8 DEF DecrementActive
  <2>. QED
    BY <1>2, <1>3, <2>1, <2>2
<1>9. CASE IncrementResolved(r)
  BY <1>2, <1>4, <1>9 DEF IncrementResolved
<1>10. CASE PickAgent(r)
  <2>1. PICK b \in LeastLoaded(Candidates) : req' = [req EXCEPT ![r] = Picked(req[r], b)]
    BY <1>10 DEF PickAgent
  <2>2. CanHandleMoreChats(b)
    BY DEF LeastLoaded, Candidates
  <2>3. Picked(req[r], b).agent = b
    BY <1>1 DEF Picked, Request
  <2>4. \A a \in Agents : SawRoom(Picked(req[r], b), a) => CanHandleMoreChats(a)
    BY <2>2, <2>3 DEF SawRoom
  <2>5. load' = load
    BY <1>10 DEF PickAgent, counters
  <2>. QED
    BY <2>1, <2>4, <2>5, AdmitRoom
<1>11. CASE NoAgentFound(r)
  BY <1>2, <1>4, <1>11 DEF NoAgentFound, counters
<1>12. CASE EscalateCommit(r)
  <2>1. req' = [req EXCEPT ![r] = NoRequest]
    BY <1>12 DEF EscalateCommit, Finish
  <2>2. SawRoom(req[r], req[r].agent)
    BY <1>12 DEF EscalateCommit, SawRoom
  <2>3. load' = [load EXCEPT ![req[r].agent] = @ + 1]
    BY <1>12 DEF EscalateCommit
  <2>. QED
    BY <2>1, <2>2, <2>3, NoRequestWindows, CountRoom
<1>13. CASE Die(r)
  BY <1>2, <1>4, <1>13 DEF Die, counters
<1>. QED
  BY <1>5, <1>6, <1>7, <1>8, <1>9, <1>10, <1>11, <1>12, <1>13

LEMMA IdleRoom ==
    ASSUME RoomCovered, UNCHANGED <<load, req>>
    PROVE  RoomCovered'
<1>1. \A a \in Agents : Cleared(a)' = Cleared(a)
  BY DEF Cleared, SawRoom
<1>. QED
  BY <1>1 DEF RoomCovered

LEMMA NextRoom == TypeOK /\ TypeOK' /\ RoomCovered /\ [Next]_vars => RoomCovered'
<1>. SUFFICES ASSUME TypeOK, TypeOK', RoomCovered, [Next]_vars
              PROVE  RoomCovered'
  OBVIOUS
<1>1. CASE UNCHANGED vars
  BY <1>1, IdleRoom DEF vars, counters
<1>2. CASE \E a \in Agents : SetCapacity(a)
  BY <1>2, IdleRoom DEF SetCapacity, counters
<1>3. CASE \E r \in Requests :
              \/ Start(r)
              \/ SaveSession(r)
              \/ IncrementActive(r)
              \/ IncrementHandled(r)
              \/ DecrementActive(r)
              \/ IncrementResolved(r)
              \/ PickAgent(r)
              \/ NoAgentFound(r)
              \/ EscalateCommit(r)
              \/ Die(r)
  BY <1>3, StartRoom, RequestStepRoom
<1>. QED
  BY <1>1, <1>2, <1>3 DEF Next

LEMMA RoomBounds == TypeOK /\ RoomCovered => OvershootBounded
<1>. SUFFICES ASSUME TypeOK, RoomCovered, NEW a \in Agents
              PROVE  load[a] <= CapacityLimit + Cardinality(Requests) - 1
  BY DEF OvershootBounded
<1>1. Cardinality(Cleared(a)) \in Nat
  BY RequestSubset DEF Cleared
<1>. QED
  BY <1>1, RequestsSize, BoundsAssumption DEF TypeOK, RoomCovered

\* However many processes race between the check of canHandleMoreChats and the
\* increment, an agent's current_active_chats exceeds the largest capacity by at
\* most the other processes.
THEOREM OvershootSafe == Spec => []OvershootBounded
<1>1. Init => TypeOK /\ RoomCovered
  BY InitType, InitRoom
<1>2. TypeOK /\ RoomCovered /\ [Next]_vars => (TypeOK /\ RoomCovered)'
  BY NextType, NextRoom
<1>. QED
  BY <1>1, <1>2, RoomBounds, PTL DEF Spec

-----------------------------------------------------------------------------
(* The balance of the three counters *)

Balanced(a) ==
    load[a] + resolved[a] + Cardinality(HalfReleased(a))
        <= handled[a] + Cardinality(HalfCounted(a)) + torn[a]

LEMMA CounterTypes ==
    ASSUME TypeOK, NEW a \in Agents
    PROVE  /\ load[a] \in Int
           /\ handled[a] \in Nat
           /\ resolved[a] \in Nat
           /\ torn[a] \in Nat
  BY DEF TypeOK

\* A step that enters and leaves no window of agent a keeps a's balance when its
\* counters stay, or when its active chats and its handled chats grow together,
\* or when its active chats fall.
LEMMA OutsideBalance ==
    ASSUME TypeOK, NEW r \in Requests, NEW q, req' = [req EXCEPT ![r] = q],
           NEW a \in Agents, Balanced(a),
           ~BetweenIncrements(req[r], a), ~BetweenIncrements(q, a),
           ~BetweenReleases(req[r], a), ~BetweenReleases(q, a),
           resolved'[a] = resolved[a], torn'[a] = torn[a],
           \/ load'[a] = load[a] /\ handled'[a] = handled[a]
           \/ load'[a] = load[a] + 1 /\ handled'[a] = handled[a] + 1
           \/ load'[a] = load[a] - 1 /\ handled'[a] = handled[a]
    PROVE  Balanced(a)'
<1>1. /\ Cardinality(HalfCounted(a)) \in Nat
      /\ Cardinality(HalfCounted(a)') = Cardinality(HalfCounted(a))
  BY HalfCountedStep
<1>2. /\ Cardinality(HalfReleased(a)) \in Nat
      /\ Cardinality(HalfReleased(a)') = Cardinality(HalfReleased(a))
  BY HalfReleasedStep
<1>. QED
  BY <1>1, <1>2, CounterTypes DEF Balanced

LEMMA InitBalance == Init => CountersBalance
<1>. SUFFICES ASSUME Init, NEW a \in Agents
              PROVE  Balanced(a)
  BY DEF CountersBalance, Balanced
<1>1. HalfCounted(a) = {} /\ HalfReleased(a) = {}
  BY NoRequestWindows DEF Init, HalfCounted, HalfReleased
<1>2. Cardinality(HalfCounted(a)) = 0 /\ Cardinality(HalfReleased(a)) = 0
  BY <1>1, FS_EmptySet
<1>. QED
  BY <1>2 DEF Init, Balanced

LEMMA StartBalance ==
    ASSUME TypeOK, NEW r \in Requests, Start(r), NEW a \in Agents, Balanced(a)
    PROVE  Balanced(a)'
<1>1. PICK op \in OperationNames, s \in Sessions,
           b \in Agents \cup {NoAgent}, want \in SessionRow : Begin(r, op, s, b, want)
  BY StartBegins
<1>. DEFINE q == [pc |-> "read", op |-> op, sess |-> s, agent |-> b,
                  snap |-> session[s], want |-> want]
<1>2. /\ req' = [req EXCEPT ![r] = q]
      /\ load' = load /\ handled' = handled /\ resolved' = resolved /\ torn' = torn
      /\ req[r].pc = "idle"
  BY <1>1 DEF Begin, counters
<1>3. q.pc = "read"
  OBVIOUS
<1>. HIDE DEF q
<1>. QED
  BY <1>2, <1>3, OutsideBalance DEF BetweenIncrements, BetweenReleases

\* The first increment of assignChat opens the gap that HalfCounted counts.
LEMMA IncrementActiveBalance ==
    ASSUME TypeOK, NEW r \in Requests, IncrementActive(r), NEW a \in Agents, Balanced(a)
    PROVE  Balanced(a)'
<1>. DEFINE q == [req[r] EXCEPT !.pc = "handled"]
<1>1. req' = [req EXCEPT ![r] = q]
  BY DEF IncrementActive, Goto, TypeOK
<1>2. q.pc = "handled" /\ q.agent = req[r].agent /\ req[r].pc = "count"
  BY DEF IncrementActive, TypeOK, Request
<1>3. /\ load' = [load EXCEPT ![req[r].agent] = @ + 1]
      /\ handled' = handled /\ resolved' = resolved /\ torn' = torn
  BY DEF IncrementActive
<1>. HIDE DEF q
<1>4. CASE a = req[r].agent
  <2>1. load'[a] = load[a] + 1
    BY <1>3, <1>4 DEF TypeOK
  <2>2. /\ Cardinality(HalfCounted(a)) \in Nat
        /\ Cardinality(HalfCounted(a)') = Cardinality(HalfCounted(a)) + 1
    BY <1>1, <1>2, <1>4, HalfCountedStep DEF BetweenIncrements
  <2>3. /\ Cardinality(HalfReleased(a)) \in Nat
        /\ Cardinality(HalfReleased(a)') = Cardinality(HalfReleased(a))
    BY <1>1, <1>2, HalfReleasedStep DEF BetweenReleases
  <2>. QED
    BY <1>3, <2>1, <2>2, <2>3, CounterTypes DEF Balanced
<1>5. CASE a # req[r].agent
  <2>1. load'[a] = load[a]
    BY <1>3, <1>5 DEF TypeOK
  <2>. QED
    BY <1>1, <1>2, <1>3, <1>5, <2>1, OutsideBalance DEF BetweenIncrements, BetweenReleases
<1>. QED
  BY <1>4, <1>5

\* The second increment closes it.
LEMMA IncrementHandledBalance ==
    ASSUME TypeOK, NEW r \in Requests, IncrementHandled(r), NEW a \in Agents, Balanced(a)
    PROVE  Balanced(a)'
<1>1. /\ req' = [req EXCEPT ![r] = NoRequest]
      /\ req[r].pc = "handled"
      /\ handled' = [handled EXCEPT ![req[r].agent] = @ + 1]
      /\ load' = load /\ resolved' = resolved /\ torn' = torn
  BY DEF IncrementHandled, Finish
<1>2. CASE a = req[r].agent
  <2>1. handled'[a] = handled[a] + 1
    BY <1>1, <1>2 DEF TypeOK
  <2>2. /\ Cardinality(HalfCounted(a)) \in Nat
        /\ Cardinality(HalfCounted(a)') = Cardinality(HalfCounted(a)) - 1
    BY <1>1, <1>2, NoRequestWindows, HalfCountedStep DEF BetweenIncrements
  <2>3. /\ Cardinality(HalfReleased(a)) \in Nat
        /\ Cardinality(HalfReleased(a)') = Cardinality(HalfReleased(a))
    BY <1>1, NoRequestWindows, HalfReleasedStep DEF BetweenReleases
  <2>. QED
    BY <1>1, <2>1, <2>2, <2>3, CounterTypes DEF Balanced
<1>3. CASE a # req[r].agent
  <2>1. handled'[a] = handled[a]
    BY <1>1, <1>3 DEF TypeOK
  <2>. QED
    BY <1>1, <1>3, <2>1, NoRequestWindows, OutsideBalance
    DEF BetweenIncrements, BetweenReleases
<1>. QED
  BY <1>2, <1>3

\* The decrement of completeChat opens the gap that HalfReleased counts, if a
\* resolution is to follow.
LEMMA DecrementActiveBalance ==
    ASSUME TypeOK, NEW r \in Requests, DecrementActive(r), NEW a \in Agents, Balanced(a)
    PROVE  Balanced(a)'
<1>1. /\ req[r].pc = "release"
      /\ load' = [load EXCEPT ![req[r].agent] = @ - 1]
      /\ handled' = handled /\ resolved' = resolved /\ torn' = torn
  BY DEF DecrementActive
<1>2. load'[a] = load[a] \/ load'[a] = load[a] - 1
  BY <1>1 DEF TypeOK
<1>3. a = req[r].agent => load'[a] = load[a] - 1
  BY <1>1 DEF TypeOK
<1>4. CASE Finish(r)
  BY <1>1, <1>2, <1>4, NoRequestWindows, OutsideBalance
  DEF Finish, BetweenIncrements, BetweenReleases
<1>5. CASE Goto(r, "resolve")
  <2>. DEFINE q == [req[r] EXCEPT !.pc = "resolve"]
  <2>1. req' = [req EXCEPT ![r] = q]
    BY <1>5 DEF Goto, TypeOK
  <2>2. q.pc = "resolve" /\ q.agent = req[r].agent
    BY DEF TypeOK, Request
  <2>. HIDE DEF q
  <2>3. CASE a = req[r].agent
    <3>1. /\ Cardinality(HalfCounted(a)) \in Nat
          /\ Cardinality(HalfCounted(a)') = Cardinality(HalfCounted(a))
      BY <1>1, <2>1, <2>2, HalfCountedStep DEF BetweenIncrements
    <3>2. /\ Cardinality(HalfReleased(a)) \in Nat
          /\ Cardinality(HalfReleased(a)') = Cardinality(HalfReleased(a)) + 1
      BY <1>1, <2>1, <2>2, <2>3, HalfReleasedStep DEF BetweenReleases
    <3>. QED
      BY <1>1, <1>3, <2>3, <3>1, <3>2, CounterTypes DEF Balanced
  <2>4. CASE a # req[r].agent
    BY <1>1, <1>2, <2>1, <2>2, <2>4, OutsideBalance DEF BetweenIncrements, BetweenReleases
  <2>. QED
    BY <2>3, <2>4
<1>. QED
  BY <1>4, <1>5 DEF DecrementActive

\* The resolution closes it.
LEMMA IncrementResolvedBalance ==
    ASSUME TypeOK, NEW r \in Requests, IncrementResolved(r), NEW a \in Agents, Balanced(a)
    PROVE  Balanced(a)'
<1>1. /\ req' = [req EXCEPT ![r] = NoRequest]
      /\ req[r].pc = "resolve"
      /\ resolved' = [resolved EXCEPT ![req[r].agent] = @ + 1]
      /\ load' = load /\ handled' = handled /\ torn' = torn
  BY DEF IncrementResolved, Finish
<1>2. CASE a = req[r].agent
  <2>1. resolved'[a] = resolved[a] + 1
    BY <1>1, <1>2 DEF TypeOK
  <2>2. /\ Cardinality(HalfCounted(a)) \in Nat
        /\ Cardinality(HalfCounted(a)') = Cardinality(HalfCounted(a))
    BY <1>1, NoRequestWindows, HalfCountedStep DEF BetweenIncrements
  <2>3. /\ Cardinality(HalfReleased(a)) \in Nat
        /\ Cardinality(HalfReleased(a)') = Cardinality(HalfReleased(a)) - 1
    BY <1>1, <1>2, NoRequestWindows, HalfReleasedStep DEF BetweenReleases
  <2>. QED
    BY <1>1, <2>1, <2>2, <2>3, CounterTypes DEF Balanced
<1>3. CASE a # req[r].agent
  <2>1. resolved'[a] = resolved[a]
    BY <1>1, <1>3 DEF TypeOK
  <2>. QED
    BY <1>1, <1>3, <2>1, NoRequestWindows, OutsideBalance
    DEF BetweenIncrements, BetweenReleases
<1>. QED
  BY <1>2, <1>3

\* The commit of an escalation does both increments at once.
LEMMA EscalateCommitBalance ==
    ASSUME TypeOK, NEW r \in Requests, EscalateCommit(r), NEW a \in Agents, Balanced(a)
    PROVE  Balanced(a)'
<1>1. /\ req' = [req EXCEPT ![r] = NoRequest]
      /\ req[r].pc = "picked"
      /\ load' = [load EXCEPT ![req[r].agent] = @ + 1]
      /\ handled' = [handled EXCEPT ![req[r].agent] = @ + 1]
      /\ resolved' = resolved /\ torn' = torn
  BY DEF EscalateCommit, Finish
<1>2. \/ load'[a] = load[a] /\ handled'[a] = handled[a]
      \/ load'[a] = load[a] + 1 /\ handled'[a] = handled[a] + 1
  BY <1>1 DEF TypeOK
<1>. QED
  BY <1>1, <1>2, NoRequestWindows, OutsideBalance DEF BetweenIncrements, BetweenReleases

\* A death between the increments is accounted for by torn.
LEMMA DieKeeps ==
    ASSUME TypeOK, NEW r \in Requests, Die(r), NEW a \in Agents
    PROVE  /\ torn'[a] \in Nat
           /\ Cardinality(HalfCounted(a)) \in Nat
           /\ Cardinality(HalfCounted(a)') \in Nat
           /\ Cardinality(HalfCounted(a)') + torn'[a] = Cardinality(HalfCounted(a)) + torn[a]
<1>1. req' = [req EXCEPT ![r] = NoRequest]
  BY DEF Die, Finish
<1>2. /\ Cardinality(HalfCounted(a)) \in Nat
      /\ Cardinality(HalfCounted(a)') \in Nat
  BY RequestSubset DEF HalfCounted
<1>3. CASE BetweenIncrements(req[r], a)
  <2>1. Cardinality(HalfCounted(a)') = Cardinality(HalfCounted(a)) - 1
    BY <1>1, <1>3, NoRequestWindows, HalfCountedStep
  <2>2. torn'[a] \in Nat /\ torn'[a] = torn[a] + 1
    BY <1>3 DEF Die, TypeOK, BetweenIncrements
  <2>. QED
    BY <1>2, <2>1, <2>2, CounterTypes
<1>4. CASE ~BetweenIncrements(req[r], a)
  <2>1. Cardinality(HalfCounted(a)') = Cardinality(HalfCounted(a))
    BY <1>1, <1>4, NoRequestWindows, HalfCountedStep
  <2>2. torn'[a] \in Nat /\ torn'[a] = torn[a]
    BY <1>4 DEF Die, TypeOK, BetweenIncrements
  <2>. QED
    BY <1>2, <2>1, <2>2, CounterTypes
<1>. QED
  BY <1>3, <1>4

LEMMA DieBalance ==
    ASSUME TypeOK, NEW r \in Requests, Die(r), NEW a \in Agents, Balanced(a)
    PROVE  Balanced(a)'
<1>1. /\ req' = [req EXCEPT ![r] = NoRequest]
      /\ load' = load /\ handled' = handled /\ resolved' = resolved
  BY DEF Die, Finish, counters
<1>2. /\ Cardinality(HalfReleased(a)) \in Nat
      /\ ~BetweenReleases(req[r], a)
           => Cardinality(HalfReleased(a)') = Cardinality(HalfReleased(a))
      /\ BetweenReleases(req[r], a)
           => Cardinality(HalfReleased(a)') = Cardinality(HalfReleased(a)) - 1
  BY <1>1, NoRequestWindows, HalfReleasedStep
<1>3. /\ Cardinality(HalfReleased(a)') \in Int
      /\ Cardinality(HalfReleased(a)') <= Cardinality(HalfReleased(a))
  <2>1. CASE BetweenReleases(req[r], a)
    BY <1>2, <2>1
  <2>2. CASE ~BetweenReleases(req[r], a)
    BY <1>2, <2>2
  <2>. QED
    BY <2>1, <2>2
<1>. QED
  BY <1>1, <1>2, <1>3, DieKeeps, CounterTypes DEF Balanced

\* A step that only writes a session or chooses an agent takes its process out of
\* "read" to a place outside the windows of the counters.
LEMMA PlainMoves ==
    ASSUME TypeOK, NEW r \in Requests, SaveSession(r) \/ PickAgent(r) \/ NoAgentFound(r)
    PROVE  \E q : /\ req' = [req EXCEPT ![r] = q]
                  /\ q.pc \in {"idle", "count", "release", "picked"}
<1>1. req[r] \in Request
  BY DEF TypeOK
<1>2. CASE Finish(r)
  <2>1. NoRequest.pc = "idle"
    BY DEF NoRequest
  <2>. QED
    BY <1>2, <2>1 DEF Finish
<1>3. CASE \E pc \in {"count", "release"} : Goto(r, pc)
  <2>1. PICK pc \in {"count", "release"} : Goto(r, pc)
    BY <1>3
  <2>2. [req[r] EXCEPT !.pc = pc].pc = pc
    BY <1>1 DEF Request
  <2>3. req' = [req EXCEPT ![r] = [req[r] EXCEPT !.pc = pc]]
    BY <2>1 DEF Goto, TypeOK
  <2>. QED
    BY <2>1, <2>2, <2>3
<1>4. CASE PickAgent(r)
  <2>1. PICK b \in LeastLoaded(Candidates) : req' = [req EXCEPT ![r] = Picked(req[r], b)]
    BY <1>4 DEF PickAgent
  <2>2. Picked(req[r], b).pc = "picked"
    BY <1>1 DEF Picked, Request
  <2>. QED
    BY <2>1, <2>2
<1>. QED
  BY <1>2, <1>3, <1>4 DEF SaveSession, NoAgentFound

\* The remaining steps change neither a counter nor a window.
LEMMA PlainBalance ==
    ASSUME TypeOK, NEW r \in Requests,
           SaveSession(r) \/ PickAgent(r) \/ NoAgentFound(r),
           NEW a \in Agents, Balanced(a)
    PROVE  Balanced(a)'
<1>1. /\ req[r].pc = "read"
      /\ load' = load /\ handled' = handled /\ resolved' = resolved /\ torn' = torn
  BY DEF SaveSession, PickAgent, NoAgentFound, counters
<1>2. PICK q : /\ req' = [req EXCEPT ![r] = q]
               /\ q.pc \in {"idle", "count", "release", "picked"}
  BY PlainMoves
<1>. QED
  BY <1>1, <1>2, OutsideBalance DEF BetweenIncrements, BetweenReleases

LEMMA IdleBalance ==
    ASSUME CountersBalance, UNCHANGED <<counters, torn, req>>
    PROVE  CountersBalance'
<1>1. \A a \in Agents : HalfCounted(a)' = HalfCounted(a) /\ HalfReleased(a)' = HalfReleased(a)
  BY DEF HalfCounted, HalfReleased, BetweenIncrements, BetweenReleases
<1>. QED
  BY <1>1 DEF CountersBalance, counters

LEMMA NextBalance == TypeOK /\ CountersBalance /\ [Next]_vars => CountersBalance'
<1>. SUFFICES ASSUME TypeOK, CountersBalance, [Next]_vars
              PROVE  CountersBalance'
  OBVIOUS
<1>1. CASE UNCHANGED vars
  BY <1>1, IdleBalance DEF vars, counters
<1>2. CASE \E a \in Agents : SetCapacity(a)
  BY <1>2, IdleBalance DEF SetCapacity
<1>3. ASSUME NEW r \in Requests,
             \/ Start(r)
             \/ SaveSession(r)
             \/ IncrementActive(r)
             \/ IncrementHandled(r)
             \/ DecrementActive(r)
             \/ IncrementResolved(r)
             \/ PickAgent(r)
             \/ NoAgentFound(r)
             \/ EscalateCommit(r)
             \/ Die(r)
      PROVE  CountersBalance'
  <2>1. \A a \in Agents : Balanced(a)
    BY DEF CountersBalance, Balanced
  <2>2. \A a \in Agents : Balanced(a)'
    BY <1>3, <2>1, StartBalance, PlainBalance, IncrementActiveBalance,
       IncrementHandledBalance, DecrementActiveBalance, IncrementResolvedBalance,
       EscalateCommitBalance, DieBalance
  <2>. QED
    BY <2>2 DEF CountersBalance, Balanced
<1>. QED
  BY <1>1, <1>2, <1>3 DEF Next

\* However assignments, escalations, completions and deaths interleave, no
\* increment of an agent's counters is lost or doubled.
THEOREM CountersSafe == Spec => []CountersBalance
  BY InitType, NextType, InitBalance, NextBalance, PTL DEF Spec

-----------------------------------------------------------------------------
(* The ledger of an agent *)

\* The chats an agent was ever given, those with only the first increment included.
Given(a) == handled[a] + Cardinality(HalfCounted(a)) + torn[a]
GivenToAll == [a \in Agents |-> Given(a)]
Room == CapacityLimit + Cardinality(Requests) - 1

\* The state and the actions of the ledger in terms of this module.
LEMMA LedgerTerms ==
    /\ Ledger!Init <=> /\ load = [a \in Agents |-> 0]
                       /\ GivenToAll = [a \in Agents |-> 0]
                       /\ resolved = [a \in Agents |-> 0]
    /\ Ledger!vars' = Ledger!vars <=> UNCHANGED <<load, GivenToAll, resolved>>
    /\ \A a \in Agents :
          /\ Ledger!Assign(a) <=> /\ load[a] < Room
                                  /\ load' = [load EXCEPT ![a] = @ + 1]
                                  /\ GivenToAll' = [GivenToAll EXCEPT ![a] = @ + 1]
                                  /\ resolved' = resolved
          /\ Ledger!Complete(a) <=> /\ load' = [load EXCEPT ![a] = @ - 1]
                                    /\ UNCHANGED <<GivenToAll, resolved>>
          /\ Ledger!Resolve(a) <=> /\ resolved[a] < GivenToAll[a] - load[a]
                                   /\ resolved' = [resolved EXCEPT ![a] = @ + 1]
                                   /\ UNCHANGED <<load, GivenToAll>>
  BY DEF Ledger!Init, Ledger!vars, Ledger!Assign, Ledger!Complete, Ledger!Resolve,
         GivenToAll, Given, Room

\* An agent is given nothing by a step in which no process passes one of its two
\* increments.
LEMMA NothingGiven ==
    ASSUME TypeOK, NEW r \in Requests, NEW q, req' = [req EXCEPT ![r] = q], NEW a \in Agents,
           ~BetweenIncrements(req[r], a), ~BetweenIncrements(q, a),
           handled'[a] = handled[a], torn'[a] = torn[a]
    PROVE  Given(a)' = Given(a)
<1>1. Cardinality(HalfCounted(a)') = Cardinality(HalfCounted(a))
  BY HalfCountedStep
<1>. QED
  BY <1>1 DEF Given

\* A step that gives nothing to anyone and leaves the other two counters alone is no
\* step of the ledger.
LEMMA LedgerRests ==
    ASSUME UNCHANGED <<load, resolved>>, \A a \in Agents : Given(a)' = Given(a)
    PROVE  UNCHANGED Ledger!vars
<1>1. GivenToAll' = GivenToAll
  BY DEF GivenToAll
<1>. QED
  BY <1>1, LedgerTerms

\* A process that had seen room adds to both counters of its agent: an assignment.
LEMMA LedgerAssigns ==
    ASSUME TypeOK, RoomCovered, NEW r \in Requests, NEW b \in Agents, SawRoom(req[r], b),
           load' = [load EXCEPT ![b] = @ + 1], resolved' = resolved,
           Given(b)' = Given(b) + 1,
           \A a \in Agents \ {b} : Given(a)' = Given(a)
    PROVE  Ledger!Assign(b)
<1>1. load[b] < Room
  <2>1. r \in Cleared(b)
    BY DEF Cleared
  <2>2. Cleared(b) # {} /\ IsFiniteSet(Cleared(b)) /\ Cardinality(Cleared(b)) \in Nat
    BY <2>1, RequestSubset DEF Cleared
  <2>3. Cardinality(Cleared(b)) >= 1
    BY <2>2, FS_EmptySet
  <2>4. load[b] + Cardinality(Cleared(b)) <= Room
    BY DEF RoomCovered, Room
  <2>. QED
    BY <2>2, <2>3, <2>4, RequestsSize, BoundsAssumption DEF TypeOK, Room
<1>2. GivenToAll' = [GivenToAll EXCEPT ![b] = @ + 1]
  BY DEF GivenToAll
<1>. QED
  BY <1>1, <1>2, LedgerTerms

LEMMA LedgerInit == Init => Ledger!Init
<1>. SUFFICES ASSUME Init
              PROVE  Ledger!Init
  OBVIOUS
<1>1. ASSUME NEW a \in Agents
      PROVE  Given(a) = 0
  <2>1. HalfCounted(a) = {}
    BY NoRequestWindows DEF Init, HalfCounted
  <2>2. Cardinality(HalfCounted(a)) = 0
    BY <2>1, FS_EmptySet
  <2>. QED
    BY <2>2 DEF Init, Given
<1>2. GivenToAll = [a \in Agents |-> 0]
  BY <1>1 DEF GivenToAll
<1>. QED
  BY <1>2, LedgerTerms DEF Init

LEMMA StartRests ==
    ASSUME TypeOK, NEW r \in Requests, Start(r)
    PROVE  UNCHANGED Ledger!vars
<1>1. PICK op \in OperationNames, s \in Sessions,
           b \in Agents \cup {NoAgent}, want \in SessionRow : Begin(r, op, s, b, want)
  BY StartBegins
<1>. DEFINE q == [pc |-> "read", op |-> op, sess |-> s, agent |-> b,
                  snap |-> session[s], want |-> want]
<1>2. /\ req' = [req EXCEPT ![r] = q]
      /\ load' = load /\ handled' = handled /\ resolved' = resolved /\ torn' = torn
      /\ req[r].pc = "idle"
  BY <1>1 DEF Begin, counters
<1>3. q.pc = "read"
  OBVIOUS
<1>. HIDE DEF q
<1>4. \A a \in Agents : Given(a)' = Given(a)
  BY <1>2, <1>3, NothingGiven DEF BetweenIncrements
<1>. QED
  BY <1>2, <1>4, LedgerRests

LEMMA PlainRests ==
    ASSUME TypeOK, NEW r \in Requests, SaveSession(r) \/ PickAgent(r) \/ NoAgentFound(r)
    PROVE  UNCHANGED Ledger!vars
<1>1. /\ req[r].pc = "read"
      /\ load' = load /\ handled' = handled /\ resolved' = resolved /\ torn' = torn
  BY DEF SaveSession, PickAgent, NoAgentFound, counters
<1>2. PICK q : /\ req' = [req EXCEPT ![r] = q]
               /\ q.pc \in {"idle", "count", "release", "picked"}
  BY PlainMoves
<1>3. \A a \in Agents : Given(a)' = Given(a)
  BY <1>1, <1>2, NothingGiven DEF BetweenIncrements
<1>. QED
  BY <1>1, <1>3, LedgerRests

\* The first increment is the assignment.
LEMMA IncrementActiveAssigns ==
    ASSUME TypeOK, RoomCovered, NEW r \in Requests, IncrementActive(r)
    PROVE  [Ledger!Next]_(Ledger!vars)
<1>. DEFINE q == [req[r] EXCEPT !.pc = "handled"]
<1>1. req' = [req EXCEPT ![r] = q]
  BY DEF IncrementActive, Goto, TypeOK
<1>2. q.pc = "handled" /\ q.agent = req[r].agent /\ req[r].pc = "count"
  BY DEF IncrementActive, TypeOK, Request
<1>3. /\ load' = [load EXCEPT ![req[r].agent] = @ + 1]
      /\ handled' = handled /\ resolved' = resolved /\ torn' = torn
  BY DEF IncrementActive
<1>. HIDE DEF q
<1>4. \A a \in Agents : a # req[r].agent => Given(a)' = Given(a)
  BY <1>1, <1>2, <1>3, NothingGiven DEF BetweenIncrements
<1>5. CASE req[r].agent \in Agents
  <2>0. PICK b \in Agents : b = req[r].agent
    BY <1>5
  <2>1. /\ Cardinality(HalfCounted(b)) \in Nat
        /\ Cardinality(HalfCounted(b)') = Cardinality(HalfCounted(b)) + 1
    BY <1>1, <1>2, <2>0, HalfCountedStep DEF BetweenIncrements
  <2>2. Given(b)' = Given(b) + 1
    BY <1>3, <2>0, <2>1, CounterTypes DEF Given
  <2>3. SawRoom(req[r], b)
    BY <1>2, <2>0 DEF SawRoom
  <2>4. Ledger!Assign(b)
    BY <1>3, <1>4, <2>0, <2>2, <2>3, LedgerAssigns
  <2>. QED
    BY <2>4 DEF Ledger!Next
<1>6. CASE req[r].agent \notin Agents
  <2>1. load' = load
    BY <1>3, <1>6 DEF TypeOK
  <2>. QED
    BY <1>3, <1>4, <1>6, <2>1, LedgerRests
<1>. QED
  BY <1>5, <1>6

\* The second one was accounted for by HalfCounted.
LEMMA IncrementHandledRests ==
    ASSUME TypeOK, NEW r \in Requests, IncrementHandled(r)
    PROVE  UNCHANGED Ledger!vars
<1>1. /\ req' = [req EXCEPT ![r] = NoRequest]
      /\ req[r].pc = "handled"
      /\ handled' = [handled EXCEPT ![req[r].agent] = @ + 1]
      /\ load' = load /\ resolved' = resolved /\ torn' = torn
  BY DEF IncrementHandled, Finish
<1>2. ASSUME NEW a \in Agents, a # req[r].agent
      PROVE  Given(a)' = Given(a)
  <2>1. handled'[a] = handled[a]
    BY <1>1, <1>2 DEF TypeOK
  <2>. QED
    BY <1>1, <1>2, <2>1, NoRequestWindows, NothingGiven DEF BetweenIncrements
<1>3. ASSUME NEW a \in Agents, a = req[r].agent
      PROVE  Given(a)' = Given(a)
  <2>1. handled'[a] = handled[a] + 1
    BY <1>1, <1>3 DEF TypeOK
  <2>2. /\ Cardinality(HalfCounted(a)) \in Nat
        /\ Cardinality(HalfCounted(a)') = Cardinality(HalfCounted(a)) - 1
    BY <1>1, <1>3, NoRequestWindows, HalfCountedStep DEF BetweenIncrements
  <2>. QED
    BY <1>1, <2>1, <2>2, CounterTypes DEF Given
<1>. QED
  BY <1>1, <1>2, <1>3, LedgerRests

LEMMA DecrementActiveCompletes ==
    ASSUME TypeOK, NEW r \in Requests, DecrementActive(r)
    PROVE  [Ledger!Next]_(Ledger!vars)
<1>1. /\ req[r].pc = "release"
      /\ load' = [load EXCEPT ![req[r].agent] = @ - 1]
      /\ handled' = handled /\ resolved' = resolved /\ torn' = torn
  BY DEF DecrementActive
<1>2. PICK q : req' = [req EXCEPT ![r] = q] /\ q.pc \in {"idle", "resolve"}
  <2>1. CASE Finish(r)
    <3>1. NoRequest.pc = "idle"
      BY DEF NoRequest
    <3>. QED
      BY <2>1, <3>1 DEF Finish
  <2>2. CASE Goto(r, "resolve")
    <3>1. [req[r] EXCEPT !.pc = "resolve"].pc = "resolve"
      BY DEF TypeOK, Request
    <3>2. req' = [req EXCEPT ![r] = [req[r] EXCEPT !.pc = "resolve"]]
      BY <2>2 DEF Goto, TypeOK
    <3>. QED
      BY <3>1, <3>2
  <2>. QED
    BY <2>1, <2>2 DEF DecrementActive
<1>3. \A a \in Agents : Given(a)' = Given(a)
  BY <1>1, <1>2, NothingGiven DEF BetweenIncrements
<1>4. CASE req[r].agent \in Agents
  <2>1. GivenToAll' = GivenToAll
    BY <1>3 DEF GivenToAll
  <2>2. Ledger!Complete(req[r].agent)
    BY <1>1, <1>4, <2>1, LedgerTerms
  <2>. QED
    BY <1>4, <2>2 DEF Ledger!Next
<1>5. CASE req[r].agent \notin Agents
  <2>1. load' = load
    BY <1>1, <1>5 DEF TypeOK
  <2>. QED
    BY <1>1, <1>3, <2>1, LedgerRests
<1>. QED
  BY <1>4, <1>5

\* The resolution counts a chat that the ledger has as completed: the process is in
\* HalfReleased until then.
LEMMA IncrementResolvedResolves ==
    ASSUME TypeOK, CountersBalance, NEW r \in Requests, IncrementResolved(r)
    PROVE  [Ledger!Next]_(Ledger!vars)
<1>1. /\ req' = [req EXCEPT ![r] = NoRequest]
      /\ req[r].pc = "resolve"
      /\ resolved' = [resolved EXCEPT ![req[r].agent] = @ + 1]
      /\ load' = load /\ handled' = handled /\ torn' = torn
  BY DEF IncrementResolved, Finish
<1>2. \A a \in Agents : Given(a)' = Given(a)
  BY <1>1, NoRequestWindows, NothingGiven DEF BetweenIncrements
<1>3. CASE req[r].agent \in Agents
  <2>. DEFINE b == req[r].agent
  <2>1. r \in HalfReleased(b)
    BY <1>1 DEF HalfReleased, BetweenReleases
  <2>2. /\ HalfReleased(b) # {}
        /\ IsFiniteSet(HalfReleased(b))
        /\ Cardinality(HalfReleased(b)) \in Nat
    BY <2>1, RequestSubset DEF HalfReleased
  <2>3. Cardinality(HalfReleased(b)) >= 1
    BY <2>2, FS_EmptySet
  <2>4. load[b] + resolved[b] + Cardinality(HalfReleased(b)) <= Given(b)
    BY <1>3 DEF CountersBalance, Given
  <2>5. Given(b) \in Int
    <3>1. Cardinality(HalfCounted(b)) \in Nat
      BY RequestSubset DEF HalfCounted
    <3>. QED
      BY <1>3, <3>1, CounterTypes DEF Given
  <2>6. resolved[b] < GivenToAll[b] - load[b]
    <3>1. GivenToAll[b] = Given(b)
      BY <1>3 DEF GivenToAll
    <3>2. load[b] \in Int /\ resolved[b] \in Nat
      BY <1>3, CounterTypes
    <3>. HIDE DEF b
    <3>. QED
      BY <2>2, <2>3, <2>4, <2>5, <3>1, <3>2
  <2>7. GivenToAll' = GivenToAll
    BY <1>2 DEF GivenToAll
  <2>8. Ledger!Resolve(b)
    BY <1>1, <1>3, <2>6, <2>7, LedgerTerms
  <2>. QED
    BY <1>3, <2>8 DEF Ledger!Next
<1>4. CASE req[r].agent \notin Agents
  <2>1. resolved' = resolved
    BY <1>1, <1>4 DEF TypeOK
  <2>. QED
    BY <1>1, <1>2, <2>1, LedgerRests
<1>. QED
  BY <1>3, <1>4

\* An escalation that commits is an assignment in one step of this module as well.
LEMMA EscalateCommitAssigns ==
    ASSUME TypeOK, RoomCovered, NEW r \in Requests, EscalateCommit(r)
    PROVE  [Ledger!Next]_(Ledger!vars)
<1>1. /\ req' = [req EXCEPT ![r] = NoRequest]
      /\ req[r].pc = "picked"
      /\ load' = [load EXCEPT ![req[r].agent] = @ + 1]
      /\ handled' = [handled EXCEPT ![req[r].agent] = @ + 1]
      /\ resolved' = resolved /\ torn' = torn
  BY DEF EscalateCommit, Finish
<1>2. ASSUME NEW a \in Agents, a # req[r].agent
      PROVE  Given(a)' = Given(a)
  <2>1. handled'[a] = handled[a]
    BY <1>1, <1>2 DEF TypeOK
  <2>. QED
    BY <1>1, <2>1, NoRequestWindows, NothingGiven DEF BetweenIncrements
<1>3. CASE req[r].agent \in Agents
  <2>0. PICK b \in Agents : b = req[r].agent
    BY <1>3
  <2>1. /\ Cardinality(HalfCounted(b)) \in Nat
        /\ Cardinality(HalfCounted(b)') = Cardinality(HalfCounted(b))
    BY <1>1, NoRequestWindows, HalfCountedStep DEF BetweenIncrements
  <2>2. handled'[b] = handled[b] + 1
    BY <1>1, <2>0 DEF TypeOK
  <2>3. Given(b)' = Given(b) + 1
    BY <1>1, <2>1, <2>2, CounterTypes DEF Given
  <2>4. SawRoom(req[r], b)
    BY <1>1, <2>0 DEF SawRoom
  <2>5. Ledger!Assign(b)
    BY <1>1, <1>2, <2>0, <2>3, <2>4, LedgerAssigns
  <2>. QED
    BY <2>5 DEF Ledger!Next
<1>4. CASE req[r].agent \notin Agents
  <2>1. load' = load
    BY <1>1, <1>4 DEF TypeOK
  <2>. QED
    BY <1>1, <1>2, <1>4, <2>1, LedgerRests
<1>. QED
  BY <1>3, <1>4

\* A process that dies between the increments moves from HalfCounted to torn.
LEMMA DieRests ==
    ASSUME TypeOK, NEW r \in Requests, Die(r)
    PROVE  UNCHANGED Ledger!vars
<1>1. UNCHANGED <<load, resolved>> /\ handled' = handled
  BY DEF Die, counters
<1>2. \A a \in Agents : Given(a)' = Given(a)
  BY <1>1, DieKeeps, CounterTypes DEF Given
<1>. QED
  BY <1>1, <1>2, LedgerRests

LEMMA IdleRests ==
    ASSUME UNCHANGED <<counters, torn, req>>
    PROVE  UNCHANGED Ledger!vars
<1>1. \A a \in Agents : HalfCounted(a)' = HalfCounted(a)
  BY DEF HalfCounted, BetweenIncrements
<1>2. \A a \in Agents : Given(a)' = Given(a)
  BY <1>1 DEF Given, counters
<1>. QED
  BY <1>2, LedgerRests DEF counters

LEMMA NextLedger ==
    TypeOK /\ RoomCovered /\ CountersBalance /\ [Next]_vars => [Ledger!Next]_(Ledger!vars)
<1>. SUFFICES ASSUME TypeOK, RoomCovered, CountersBalance, [Next]_vars
              PROVE  [Ledger!Next]_(Ledger!vars)
  OBVIOUS
<1>1. CASE UNCHANGED vars
  BY <1>1, IdleRests DEF vars, counters
<1>2. CASE \E a \in Agents : SetCapacity(a)
  BY <1>2, IdleRests DEF SetCapacity
<1>3. ASSUME NEW r \in Requests,
             \/ Start(r)
             \/ SaveSession(r)
             \/ IncrementActive(r)
             \/ IncrementHandled(r)
             \/ DecrementActive(r)
             \/ IncrementResolved(r)
             \/ PickAgent(r)
             \/ NoAgentFound(r)
             \/ EscalateCommit(r)
             \/ Die(r)
      PROVE  [Ledger!Next]_(Ledger!vars)
  BY <1>3, StartRests, PlainRests, IncrementActiveAssigns, IncrementHandledRests,
     DecrementActiveCompletes, IncrementResolvedResolves, EscalateCommitAssigns, DieRests
<1>. QED
  BY <1>1, <1>2, <1>3 DEF Next

\* The counters of the agents implement AgentLedger: whatever the processes do, and
\* wherever they die, each step is at most one assignment to an agent with room, one
\* completion or one resolution of a completed chat.
THEOREM RefinesLedger == Spec => ImplementsLedger
<1>1. Init => TypeOK /\ RoomCovered /\ CountersBalance
  BY InitType, InitRoom, InitBalance
<1>2. TypeOK /\ RoomCovered /\ CountersBalance /\ [Next]_vars
          => (TypeOK /\ RoomCovered /\ CountersBalance)'
  BY NextType, NextRoom, NextBalance
<1>. QED
  BY <1>1, <1>2, LedgerInit, NextLedger, PTL DEF Spec, ImplementsLedger, Ledger!Spec

-----------------------------------------------------------------------------
(* Escalation without concurrency *)

\* A session that an escalation is about to take has no agent, unless another
\* process has given it one meanwhile.
Untaken(r) ==
    /\ req[r].pc = "picked" => req[r].op = "escalate"
    /\ req[r].pc \in {"read", "picked"} /\ req[r].op = "escalate"
           => session[req[r].sess].agent = NoAgent

LEMMA StartUntaken ==
    ASSUME TypeOK, NEW r \in Requests, Start(r)
    PROVE  Untaken(r)'
<1>1. PICK s \in Sessions :
          \/ BeginUpdate(r, s)
          \/ BeginEnd(r, s)
          \/ BeginEscalate(r, s)
          \/ \E a \in Agents : BeginAssign(r, s, a) \/ BeginTransfer(r, s, a)
  BY DEF Start
<1>2. CASE BeginEscalate(r, s)
  <2>1. /\ req'[r].pc = "read"
        /\ req'[r].sess = s
        /\ session' = session
        /\ session[s].agent = NoAgent
    BY <1>2 DEF BeginEscalate, Begin, TypeOK
  <2>. QED
    BY <2>1 DEF Untaken
<1>3. CASE ~BeginEscalate(r, s)
  <2>1. PICK op \in OperationNames \ {"escalate"} : \E a, want : Begin(r, op, s, a, want)
    BY <1>1, <1>3 DEF BeginUpdate, BeginEnd, BeginAssign, BeginTransfer, OperationNames
  <2>2. req'[r].pc = "read" /\ req'[r].op = op
    BY <2>1 DEF Begin, TypeOK
  <2>. QED
    BY <2>2 DEF Untaken
<1>. QED
  BY <1>2, <1>3

\* No step of the process itself gives the session it escalates an agent before the
\* commit.
LEMMA StepUntaken ==
    ASSUME TypeOK, NEW r \in Requests, Untaken(r),
           \/ SaveSession(r)
           \/ IncrementActive(r)
           \/ IncrementHandled(r)
           \/ DecrementActive(r)
           \/ IncrementResolved(r)
           \/ PickAgent(r)
           \/ NoAgentFound(r)
           \/ EscalateCommit(r)
           \/ Die(r)
    PROVE  Untaken(r)'
<1>1. req[r] \in Request
  BY DEF TypeOK
<1>2. CASE PickAgent(r)
  <2>1. PICK a \in LeastLoaded(Candidates) : req' = [req EXCEPT ![r] = Picked(req[r], a)]
    BY <1>2 DEF PickAgent
  <2>2. /\ Picked(req[r], a).pc = "picked"
        /\ Picked(req[r], a).op = req[r].op
        /\ Picked(req[r], a).sess = req[r].sess
    BY <1>1 DEF Picked, Request
  <2>3. req'[r] = Picked(req[r], a)
    BY <2>1 DEF TypeOK
  <2>. QED
    BY <1>2, <2>2, <2>3 DEF PickAgent, Untaken
<1>3. CASE Finish(r)
  <2>1. req'[r].pc = "idle"
    BY <1>3 DEF Finish, NoRequest, TypeOK
  <2>. QED
    BY <2>1 DEF Untaken
<1>4. CASE \E pc \in {"count", "release", "handled", "resolve"} : Goto(r, pc)
  <2>1. req'[r].pc \in {"count", "release", "handled", "resolve"}
    BY <1>1, <1>4 DEF Goto, TypeOK, Request
  <2>. QED
    BY <2>1 DEF Untaken
<1>. QED
  BY <1>2, <1>3, <1>4 DEF SaveSession, IncrementActive, IncrementHandled, DecrementActive,
     IncrementResolved, NoAgentFound, EscalateCommit, Die

\* Where the operations come one after the other an escalation takes no session from
\* the agent who has it: what the check at its start has seen holds until the commit.
\* It is the interleaving of processes alone that breaks "Skip escalation if session
\* is already handled by human agent".
THEOREM AloneKeepsHuman ==
    ASSUME \A r, p \in Requests : r = p
    PROVE  Spec => EscalationKeepsHuman
<1>. DEFINE AllUntaken == \A r \in Requests : Untaken(r)
<1>1. Init => AllUntaken
  <2>1. NoRequest.pc = "idle"
    BY DEF NoRequest
  <2>. QED
    BY <2>1 DEF Init, Untaken
<1>2. TypeOK /\ AllUntaken /\ [Next]_vars => AllUntaken'
  <2>. SUFFICES ASSUME TypeOK, AllUntaken, [Next]_vars, NEW r \in Requests
                PROVE  Untaken(r)'
    OBVIOUS
  <2>1. CASE UNCHANGED vars
    BY <2>1 DEF vars, Untaken
  <2>2. CASE \E a \in Agents : SetCapacity(a)
    BY <2>2 DEF SetCapacity, Untaken
  <2>3. CASE Next /\ ~(\E a \in Agents : SetCapacity(a))
    <3>1. \/ Start(r)
          \/ SaveSession(r)
          \/ IncrementActive(r)
          \/ IncrementHandled(r)
          \/ DecrementActive(r)
          \/ IncrementResolved(r)
          \/ PickAgent(r)
          \/ NoAgentFound(r)
          \/ EscalateCommit(r)
          \/ Die(r)
      BY <2>3 DEF Next
    <3>. QED
      BY <3>1, StartUntaken, StepUntaken
  <2>. QED
    BY <2>1, <2>2, <2>3
<1>3. AllUntaken => \A s \in Sessions, r \in Requests :
                        EscalateCommit(r) /\ req[r].sess = s => session[s].agent = NoAgent
  BY DEF Untaken, EscalateCommit
<1>. HIDE DEF AllUntaken
<1>. QED
  BY <1>1, <1>2, <1>3, TypeCorrect, PTL DEF Spec, EscalationKeepsHuman
=============================================================================
