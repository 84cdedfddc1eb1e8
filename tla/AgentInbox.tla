----------------------------- MODULE AgentInbox -----------------------------
(***************************************************************************)
(* The agent's inbox page: the hook useAgentInbox with the guards of the   *)
(* component AgentInbox.jsx, on top of the tab's WebSocket (RealtimeFeed).  *)
(*                                                                         *)
(* One list of messages is on the screen, for the conversation that is     *)
(* selected.  Four writers fill it: the load that follows a selection, a   *)
(* poll every three seconds, the events of the WebSocket, and the answer   *)
(* to the agent's own send.  None of them looks, when it writes, which     *)
(* conversation is selected.  What keeps them apart is that nothing can be *)
(* clicked while the loading flag is up, one flag for all requests, and    *)
(* that a handler is registered for the selected conversation only.        *)
(***************************************************************************)
EXTENDS Integers, FiniteSets

CONSTANTS
    Sessions,   \* conversations
    Global,     \* the key of the global handler
    Messages,   \* message rows there may be
    SessionOf,  \* SessionOf[m]: the conversation of message m
    Replies,    \* the messages this agent writes
    NoSession,  \* nothing is selected
    MaxCalls,   \* bound: requests in flight
    MaxClicks,  \* bound: clicks that ask for something
    MaxChanges, \* bound: changes of the filters or the search box
    MaxErrors   \* bound: requests that fail

ASSUME InboxAssumption ==
    /\ SessionOf \in [Messages -> Sessions]
    /\ Replies \subseteq Messages
    /\ NoSession \notin Sessions
    /\ Global \notin Sessions
    /\ MaxCalls \in Nat \ {0}
    /\ MaxClicks \in Nat
    /\ MaxChanges \in Nat
    /\ MaxErrors \in Nat

VARIABLES
    listening, handlers, captured, aliased, \* of RealtimeFeed
    stored,    \* rows of the messages table
    events,    \* MessageProcessed events not yet broadcast
    page,      \* whether the inbox page is open
    selected,  \* selectedSession
    shown,     \* shown[m]: how often message m is in the list
    loading,   \* the loading flag
    failed,    \* whether error is set
    throttled, \* whether the last throttled call is less than a second ago
    debounce,  \* whether the 300 ms timer of the filters runs
    calls,     \* requests in flight
    clicks, changes, errors \* counters of the bounds

mapVars == <<handlers, captured, aliased>>
feedVars == <<listening, mapVars>>
serverVars == <<stored, events>>
viewVars == <<page, selected, shown>>
flagVars == <<loading, failed, throttled, debounce>>
boundVars == <<clicks, changes, errors>>
vars == <<feedVars, serverVars, viewVars, flagVars, calls, boundVars>>

Feed == INSTANCE RealtimeFeed WITH
    Sessions <- Sessions, Global <- Global, listening <- listening,
    handlers <- handlers, captured <- captured, aliased <- aliased

-----------------------------------------------------------------------------
Slots == 1..MaxCalls
Kinds == {"list", "load", "poll", "send", "close", "assign"}
Spinning == Kinds \ {"poll"} \* the kinds that raise the loading flag

\* A request: what it asks for, for which conversation, the reply it carries or
\* the rows it was answered with, and how far it is.  Only for messages it
\* matters when the server works on it.
AboutMessages == {"load", "poll", "send"}
Call == [kind : Kinds, session : Sessions \cup {NoSession},
         rows : SUBSET Messages, state : {"asked", "answered", "refused"}]
NoCall == [kind |-> "none", session |-> NoSession, rows |-> {}, state |-> "none"]
Request(kind, s, rows) ==
    [kind |-> kind, session |-> s, rows |-> rows,
     state |-> IF kind \in AboutMessages THEN "asked" ELSE "answered"]

TypeOK ==
    /\ Feed!TypeOK
    /\ stored \subseteq Messages
    /\ events \subseteq Messages
    /\ page \in {"closed", "open"}
    /\ selected \in Sessions \cup {NoSession}
    /\ shown \in [Messages -> Nat]
    /\ loading \in BOOLEAN
    /\ failed \in BOOLEAN
    /\ throttled \in BOOLEAN
    /\ debounce \in BOOLEAN
    /\ calls \in [Slots -> Call \cup {NoCall}]
    /\ clicks \in 0..MaxClicks
    /\ changes \in 0..MaxChanges
    /\ errors \in 0..MaxErrors

Nothing == [m \in Messages |-> 0]

Init ==
    /\ Feed!Init
    /\ stored = {}
    /\ events = {}
    /\ page = "closed"
    /\ selected = NoSession
    /\ shown = Nothing
    /\ loading = FALSE
    /\ failed = FALSE
    /\ throttled = FALSE
    /\ debounce = FALSE
    /\ calls = [n \in Slots |-> NoCall]
    /\ clicks = 0
    /\ changes = 0
    /\ errors = 0

-----------------------------------------------------------------------------
(* Requests *)

FreeSlots == {n \in Slots : calls[n] = NoCall}
SendSlots == {n \in Slots : calls[n].kind = "send"}

Ask(c) ==
    \E n \in FreeSlots :
        /\ \A j \in FreeSlots : n <= j
        /\ calls' = [calls EXCEPT ![n] = c]

\* An operation that does not go through throttledApiCall.
AskAtOnce(c) ==
    /\ Ask(c)
    /\ loading' = TRUE
    /\ failed' = FALSE
    /\ UNCHANGED <<throttled, debounce>>

\* Mutant: the undefined a throttled call resolves to is taken for a request.
AskThrottledUndefined(c) ==
    /\ Ask(IF throttled THEN [c EXCEPT !.state = "undefined"] ELSE c)
    /\ loading' = TRUE
    /\ failed' = FALSE
    /\ throttled' = TRUE

\* loadSessions and loadSessionMessages.  A throttled call resolves to
\* undefined at once, which the loader takes for a failure.
AskThrottled(c) ==
    IF throttled
    THEN /\ loading' = FALSE
         /\ failed' = TRUE
         /\ UNCHANGED <<throttled, calls>>
    ELSE /\ Ask(c)
         /\ loading' = TRUE
         /\ failed' = FALSE
         /\ throttled' = TRUE

SecondPasses ==
    /\ throttled
    /\ throttled' = FALSE
    /\ UNCHANGED <<feedVars, serverVars, viewVars, loading, failed, debounce,
                   calls, boundVars>>

-----------------------------------------------------------------------------
(* The agent.  Everything on the page is disabled while loading is up, and
   the conversations are not on it while an error is. *)

\* Mutant: nothing is disabled while a request is under way.
ClickAnytime ==
    /\ page = "open"
    /\ clicks < MaxClicks
    /\ clicks' = clicks + 1

Click ==
    /\ page = "open"
    /\ ~loading
    /\ clicks < MaxClicks
    /\ clicks' = clicks + 1

\* The page is mounted: it registers the global handler and loads the list.
Open ==
    /\ page = "closed"
    /\ page' = "open"
    /\ Feed!Register(Global)
    /\ AskThrottled(Request("list", NoSession, {}))
    /\ UNCHANGED <<listening, serverVars, selected, shown, debounce, boundVars>>

\* Refresh, a tab, or the retry of the error state.
Refresh ==
    /\ Click
    /\ AskThrottled(Request("list", NoSession, {}))
    /\ UNCHANGED <<feedVars, serverVars, viewVars, debounce, changes, errors>>

\* Mutant: the effect has no cleanup.
MoveHandlerKeeping(s) ==
    IF s = selected \/ s = NoSession THEN UNCHANGED <<handlers, captured, aliased>>
    ELSE Feed!Register(s)

\* The effects of the selected conversation move its handler.
MoveHandler(s) ==
    IF s = selected THEN UNCHANGED <<handlers, captured, aliased>>
    ELSE IF selected = NoSession THEN Feed!Register(s)
    ELSE IF s = NoSession THEN Feed!Unregister(selected)
    ELSE Feed!Replace(selected, s)

\* A click on a conversation of the list.  The messages stay until the load
\* is answered.
SelectSession(s) ==
    /\ Click
    /\ ~failed
    /\ selected' = s
    /\ MoveHandler(s)
    /\ AskThrottled(Request("load", s, {}))
    /\ UNCHANGED <<listening, serverVars, page, shown, debounce, changes, errors>>

SendMessage(m) ==
    /\ Click
    /\ m \in Replies \ stored
    /\ \A n \in Slots : m \notin calls[n].rows
    /\ SessionOf[m] = selected
    /\ AskAtOnce(Request("send", selected, {m}))
    /\ UNCHANGED <<feedVars, serverVars, viewVars, changes, errors>>

\* endSession and transferSession.
CloseSession ==
    /\ Click
    /\ selected # NoSession
    /\ AskAtOnce(Request("close", selected, {}))
    /\ UNCHANGED <<feedVars, serverVars, viewVars, changes, errors>>

\* assignSession, on a row of the list.
AssignSession ==
    /\ Click
    /\ ~failed
    /\ AskAtOnce(Request("assign", NoSession, {}))
    /\ UNCHANGED <<feedVars, serverVars, viewVars, changes, errors>>

\* A filter: the changed state reloads the list by the effect, and the timer
\* of updateFilters will do it once more.
ChangeFilter ==
    /\ page = "open" /\ ~loading
    /\ changes < MaxChanges
    /\ changes' = changes + 1
    /\ debounce' = TRUE
    /\ AskThrottled(Request("list", NoSession, {}))
    /\ UNCHANGED <<feedVars, serverVars, viewVars, clicks, errors>>

\* The search box: only the timer.
Search ==
    /\ page = "open" /\ ~loading
    /\ changes < MaxChanges
    /\ changes' = changes + 1
    /\ debounce' = TRUE
    /\ UNCHANGED <<feedVars, serverVars, viewVars, loading, failed, throttled,
                   calls, clicks, errors>>

\* The timer loads the list whatever is under way.
DebounceFires ==
    /\ debounce
    /\ debounce' = FALSE
    /\ AskThrottled(Request("list", NoSession, {}))
    /\ UNCHANGED <<feedVars, serverVars, viewVars, boundVars>>

\* The agent leaves the agent pages and comes back: answers still under way
\* find no component, sends still under way may reach the server.
Leave ==
    /\ page = "open"
    /\ clicks < MaxClicks
    /\ clicks' = clicks + 1
    /\ Feed!Reset
    /\ \E sent \in SUBSET UNION {calls[n].rows : n \in SendSlots} :
          stored' = stored \cup sent
    /\ page' = "closed"
    /\ selected' = NoSession
    /\ shown' = Nothing
    /\ loading' = FALSE
    /\ failed' = FALSE
    /\ throttled' = FALSE
    /\ debounce' = FALSE
    /\ calls' = [n \in Slots |-> NoCall]
    /\ UNCHANGED <<events, changes, errors>>

-----------------------------------------------------------------------------
(* The poll *)

\* The interval of the selected conversation fires.
Poll ==
    /\ selected # NoSession
    /\ ~throttled
    /\ Ask(Request("poll", selected, {}))
    /\ throttled' = TRUE
    /\ UNCHANGED <<feedVars, serverVars, viewVars, loading, failed, debounce,
                   boundVars>>

-----------------------------------------------------------------------------
(* The server *)

RowsOf(s) == {m \in stored : SessionOf[m] = s}

\* The server works on a request.
Serve(n) ==
    LET c == calls[n] IN
    /\ c.state = "asked"
    /\ calls' = [calls EXCEPT ![n] =
           [kind |-> c.kind, session |-> c.session, state |-> "answered",
            rows |-> IF c.kind \in {"load", "poll"} THEN RowsOf(c.session) ELSE c.rows]]
    /\ stored' = IF c.kind = "send" THEN stored \cup c.rows ELSE stored
    /\ UNCHANGED <<feedVars, events, viewVars, flagVars, boundVars>>

\* It fails, or its answer is lost: a reply may have been stored or not.
Refuse(n) ==
    /\ calls[n].state \in {"asked", "answered"}
    /\ errors < MaxErrors
    /\ errors' = errors + 1
    /\ calls' = [calls EXCEPT ![n].state = "refused"]
    /\ UNCHANGED <<feedVars, serverVars, viewVars, flagVars, clicks, changes>>

\* A message of a customer is processed and its event queued.
CustomerWrites(m) ==
    /\ m \in Messages \ (Replies \cup stored)
    /\ stored' = stored \cup {m}
    /\ events' = events \cup {m}
    /\ UNCHANGED <<feedVars, viewVars, flagVars, calls, boundVars>>

-----------------------------------------------------------------------------
(* What comes back *)

\* Mutant: the list is not searched for the message first.
MergedBlindly(rows) == [m \in Messages |-> IF m \in rows THEN shown[m] + 1 ELSE shown[m]]

Replaced(rows) == [m \in Messages |-> IF m \in rows THEN 1 ELSE 0]
Merged(rows) == [m \in Messages |-> IF m \in rows /\ shown[m] = 0 THEN 1 ELSE shown[m]]
Appended(rows) == [m \in Messages |-> IF m \in rows THEN shown[m] + 1 ELSE shown[m]]

\* Mutant: the answer of a poll is dropped.
ShownAfterWithoutPoll(c) ==
    CASE c.kind = "load" -> Replaced(c.rows)
      [] c.kind = "send" -> Appended(c.rows)
      [] c.kind = "close" -> Nothing
      [] OTHER -> shown

\* The list after the answer to c.
ShownAfter(c) ==
    CASE c.kind = "load" -> Replaced(c.rows)
      [] c.kind = "poll" -> Merged(c.rows)
      [] c.kind = "send" -> Appended(c.rows)
      [] c.kind = "close" -> Nothing
      [] OTHER -> shown

\* A successful answer: it is applied to whatever is on the screen by now.
Answered(n) ==
    LET c == calls[n] IN
    /\ c.state = "answered"
    /\ shown' = ShownAfter(c)
    /\ IF c.kind = "close"
       THEN selected' = NoSession /\ MoveHandler(NoSession)
       ELSE UNCHANGED <<selected, handlers, captured, aliased>>
    /\ loading' = (loading /\ c.kind = "poll")
    /\ calls' = [calls EXCEPT ![n] = NoCall]
    /\ UNCHANGED <<listening, serverVars, page, failed, throttled, debounce,
                   boundVars>>

\* Mutant: the loading flag is taken down on success only.
FailedSpinning(n) ==
    LET c == calls[n] IN
    /\ c.state = "refused"
    /\ failed' = (failed \/ c.kind # "poll")
    /\ calls' = [calls EXCEPT ![n] = NoCall]
    /\ UNCHANGED <<feedVars, serverVars, viewVars, loading, throttled, debounce, boundVars>>

\* A failed request: the error is shown, of a poll only logged.
Failed(n) ==
    LET c == calls[n] IN
    /\ c.state = "refused"
    /\ loading' = (loading /\ c.kind = "poll")
    /\ failed' = (failed \/ c.kind # "poll")
    /\ calls' = [calls EXCEPT ![n] = NoCall]
    /\ UNCHANGED <<feedVars, serverVars, viewVars, throttled, debounce, boundVars>>

\* Mutant: the global handler adds the message as well.
BroadcastToAll(m, again) ==
    /\ m \in events
    /\ events' = IF again THEN events ELSE events \ {m}
    /\ shown' = IF listening THEN Merged({m}) ELSE shown
    /\ UNCHANGED <<feedVars, stored, page, selected, flagVars, calls, boundVars>>

\* The event of a customer's message is broadcast.  Both channels may carry it
\* (again), and the handlers called are those of the socket's closure.
Broadcast(m, again) ==
    /\ m \in events
    /\ events' = IF again THEN events ELSE events \ {m}
    /\ shown' = IF Feed!Notified(SessionOf[m]) THEN Merged({m}) ELSE shown
    /\ UNCHANGED <<feedVars, stored, page, selected, flagVars, calls, boundVars>>

FeedStep ==
    /\ Feed!FeedStep
    /\ UNCHANGED <<serverVars, viewVars, flagVars, calls, boundVars>>

-----------------------------------------------------------------------------
AgentStep ==
    \/ Open
    \/ Refresh
    \/ \E s \in Sessions : SelectSession(s)
    \/ \E m \in Replies : SendMessage(m)
    \/ CloseSession
    \/ AssignSession
    \/ ChangeFilter
    \/ Search
    \/ Leave

ServerStep ==
    \/ \E n \in Slots : Serve(n) \/ Refuse(n)
    \/ \E m \in Messages : CustomerWrites(m)
    \/ \E m \in Messages : \E again \in BOOLEAN : Broadcast(m, again)

PageStep ==
    \/ SecondPasses
    \/ DebounceFires
    \/ Poll
    \/ \E n \in Slots : Answered(n) \/ Failed(n)

Next == AgentStep \/ ServerStep \/ PageStep \/ FeedStep

Spec == Init /\ [][Next]_vars

\* Timers fire and requests are answered; no agent has to click, no customer
\* to write, no socket to connect.
Fairness ==
    /\ WF_vars(SecondPasses)
    /\ WF_vars(DebounceFires)
    /\ WF_vars(Poll)
    /\ \A n \in Slots : WF_vars(Serve(n)) /\ WF_vars(Answered(n) \/ Failed(n))

FairSpec == Spec /\ Fairness

-----------------------------------------------------------------------------
(* Properties *)

(* However loads, polls and doubled events overlap, a customer's message is in
   the list once.  The agent's own reply may be there twice, when a poll shows
   it before the answer to the send appends it, and never more often. *)
DuplicatesBounded ==
    \A m \in Messages : shown[m] <= (IF m \in Replies THEN 2 ELSE 1)

(* The spinner that disables the page is up only while a request that will
   take it down is in flight. *)
SpinnerHonest ==
    loading => \E n \in Slots : calls[n].kind \in Spinning

(* As long as no filter has been touched the loading flag serializes the page:
   at most one such request is in flight, and one that will write the list is
   for the conversation that is still selected.  The timer of the filters is
   the only thing that breaks this. *)
SpinnerSerializes ==
    changes = 0 =>
        /\ \A n1, n2 \in Slots :
              calls[n1].kind \in Spinning /\ calls[n2].kind \in Spinning => n1 = n2
        /\ \A n \in Slots :
              calls[n].kind \in {"load", "send", "close"} => calls[n].session = selected

(* A message of another conversation gets into the list only by a poll of that
   conversation that is answered late, by a handler the socket still has of
   it, or after a filter has taken the loading flag down. *)
ForeignComesLate ==
    [][\A m \in Messages :
          shown'[m] > shown[m] /\ SessionOf[m] # selected' =>
             \/ \E n \in Slots : /\ calls[n].kind = "poll"
                                 /\ calls[n].session = SessionOf[m]
                                 /\ calls'[n] = NoCall
             \/ m \in events /\ SessionOf[m] \in captured
             \/ changes > 0]_vars

(* With or without a WebSocket the poll shows a customer's message in the end,
   as long as its conversation stays selected, whatever an older load that is
   still under way replaces the list with. *)
PollCatchesUp ==
    \A m \in Messages \ Replies :
        (m \in stored /\ selected = SessionOf[m])
            ~> (shown[m] > 0 \/ selected # SessionOf[m])

\* The page drives the feed by its operations only.
FeedSpec == Feed!Spec
=============================================================================
