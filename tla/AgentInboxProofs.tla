-------------------------- MODULE AgentInboxProofs --------------------------
(***************************************************************************)
(* Proofs about AgentInbox, for every set of conversations, messages and   *)
(* replies, every number of requests in flight and every bound.            *)
(***************************************************************************)
EXTENDS AgentInbox, TLAPS

-----------------------------------------------------------------------------
(* The invariants *)

\* The Map of handlers holds the keys of what the page shows.
HandlersAgree ==
    /\ page = "closed" => selected = NoSession
    /\ handlers = (IF page = "open" THEN {Global} ELSE {}) \cup ({selected} \ {NoSession})

\* What a request carries or was answered with.
CallHonest(n) ==
    /\ calls[n].kind \in {"load", "poll"} => calls[n].rows \subseteq RowsOf(calls[n].session)
    /\ calls[n].kind = "send" =>
           /\ calls[n].rows \subseteq Replies
           /\ \A m \in calls[n].rows : shown[m] <= 1 /\ SessionOf[m] = calls[n].session
           /\ calls[n].state = "answered" => calls[n].rows \subseteq stored

\* No two sends carry one reply.
SendsApart ==
    \A n1, n2 \in Slots :
        calls[n1].kind = "send" /\ calls[n2].kind = "send" /\ n1 # n2
            => calls[n1].rows \cap calls[n2].rows = {}

\* What is in the list, and what is about to be, is stored.
ListInv ==
    /\ events \subseteq stored \ Replies
    /\ \A m \in Messages : shown[m] > 0 => m \in stored
    /\ \A n \in Slots : CallHonest(n)
    /\ SendsApart
    /\ DuplicatesBounded

\* Nothing that spins is in flight.
Quiet == \A n \in Slots : calls[n].kind \notin Spinning

\* What spins has the loading flag up, is alone, and is about what is selected.
OneSpins ==
    /\ \A n \in Slots : calls[n].kind \in Spinning => loading = TRUE
    /\ \A n1, n2 \in Slots :
          calls[n1].kind \in Spinning /\ calls[n2].kind \in Spinning => n1 = n2
    /\ \A n \in Slots :
          calls[n].kind \in {"load", "send", "close"} => calls[n].session = selected

\* So it is until a filter is touched.
SerialInv ==
    changes = 0 =>
        /\ debounce = FALSE
        /\ page = "closed" => loading = FALSE
        /\ OneSpins

-----------------------------------------------------------------------------
(* Types *)

LEMMA RequestTyped ==
    ASSUME NEW kind \in Kinds, NEW s \in Sessions \cup {NoSession}, NEW rows \in SUBSET Messages
    PROVE  Request(kind, s, rows) \in Call
  BY DEF Request, Call

LEMMA AskTyped ==
    ASSUME TypeOK, NEW c \in Call, Ask(c)
    PROVE  calls' \in [Slots -> Call \cup {NoCall}]
  BY DEF TypeOK, Ask

LEMMA AskThrottledTyped ==
    ASSUME TypeOK, NEW c \in Call, AskThrottled(c)
    PROVE  /\ calls' \in [Slots -> Call \cup {NoCall}]
           /\ loading' \in BOOLEAN /\ failed' \in BOOLEAN /\ throttled' \in BOOLEAN
<1>1. CASE throttled
  BY <1>1 DEF TypeOK, AskThrottled
<1>2. CASE ~throttled
  BY <1>2, AskTyped DEF TypeOK, AskThrottled
<1>. QED
  BY <1>1, <1>2

LEMMA ListTyped ==
    ASSUME TypeOK, NEW s \in Sessions \cup {NoSession},
           NEW kind \in {"list", "load"}, AskThrottled(Request(kind, s, {}))
    PROVE  /\ calls' \in [Slots -> Call \cup {NoCall}]
           /\ loading' \in BOOLEAN /\ failed' \in BOOLEAN /\ throttled' \in BOOLEAN
<1>1. Request(kind, s, {}) \in Call
  BY RequestTyped DEF Kinds
<1>. QED
  BY <1>1, AskThrottledTyped

\* Whatever a page or the socket does to the Map keeps the feed's types.
LEMMA FeedTyped ==
    ASSUME TypeOK,
           \/ UNCHANGED feedVars
           \/ Feed!FeedStep
           \/ Feed!Reset
           \/ Feed!Register(Global) /\ UNCHANGED listening
           \/ \E s \in Sessions \cup {NoSession} : MoveHandler(s) /\ UNCHANGED listening
    PROVE  Feed!TypeOK'
<1>. DEFINE Typed == /\ listening' \in BOOLEAN /\ aliased' \in BOOLEAN
                     /\ handlers' \subseteq Feed!Keys /\ captured' \subseteq Feed!Keys
<1>1. CASE UNCHANGED feedVars
  BY <1>1 DEF TypeOK, Feed!TypeOK, feedVars, mapVars
<1>2. CASE Feed!FeedStep
  BY <1>2 DEF TypeOK, Feed!TypeOK, Feed!FeedStep, Feed!NewSocket, Feed!StartListening,
     Feed!StopListening, Feed!ConnectionChanges, Feed!Bind, Feed!Reregister, Feed!mapVars
<1>3. CASE Feed!Reset
  BY <1>3 DEF Feed!TypeOK, Feed!Reset
<1>4. CASE Feed!Register(Global) /\ UNCHANGED listening
  BY <1>4 DEF TypeOK, Feed!TypeOK, Feed!Register, Feed!Keys
<1>5. ASSUME NEW s \in Sessions \cup {NoSession}, MoveHandler(s), UNCHANGED listening
      PROVE  Feed!TypeOK'
  BY <1>5 DEF TypeOK, Feed!TypeOK, MoveHandler, Feed!Register, Feed!Unregister, Feed!Replace,
     Feed!Keys
<1>. QED
  BY <1>1, <1>2, <1>3, <1>4, <1>5

LEMMA AgentTyped ==
    ASSUME TypeOK, AgentStep
    PROVE  TypeOK'
<1>. USE InboxAssumption DEF InboxAssumption
<1>1. CASE Open
  <2>1. Feed!TypeOK'
    BY <1>1, FeedTyped DEF Open
  <2>. QED
    BY <1>1, <2>1, ListTyped DEF Open, TypeOK, serverVars, boundVars
<1>2. CASE Refresh
  <2>1. Feed!TypeOK'
    BY <1>2, FeedTyped DEF Refresh
  <2>. QED
    BY <1>2, <2>1, ListTyped DEF Refresh, Click, TypeOK, serverVars, viewVars
<1>3. ASSUME NEW s \in Sessions, SelectSession(s)
      PROVE  TypeOK'
  <2>1. Feed!TypeOK'
    BY <1>3, FeedTyped DEF SelectSession
  <2>. QED
    BY <1>3, <2>1, ListTyped DEF SelectSession, Click, TypeOK, serverVars
<1>4. ASSUME NEW m \in Replies, SendMessage(m)
      PROVE  TypeOK'
  <2>1. Feed!TypeOK'
    BY <1>4, FeedTyped DEF SendMessage
  <2>2. Request("send", selected, {m}) \in Call
    BY RequestTyped DEF Kinds, TypeOK
  <2>3. calls' \in [Slots -> Call \cup {NoCall}]
    BY <1>4, <2>2, AskTyped DEF SendMessage, AskAtOnce
  <2>4. loading' \in BOOLEAN /\ failed' \in BOOLEAN
    BY <1>4 DEF SendMessage, AskAtOnce
  <2>5. /\ UNCHANGED <<throttled, debounce, stored, events, page, selected, shown, changes, errors>>
        /\ clicks' \in 0..MaxClicks
    BY <1>4 DEF SendMessage, AskAtOnce, Click, TypeOK, serverVars, viewVars
  <2>. QED
    BY <2>1, <2>3, <2>4, <2>5 DEF TypeOK
<1>5. CASE CloseSession
  <2>1. Feed!TypeOK'
    BY <1>5, FeedTyped DEF CloseSession
  <2>2. Request("close", selected, {}) \in Call
    BY RequestTyped DEF Kinds, TypeOK
  <2>3. calls' \in [Slots -> Call \cup {NoCall}]
    BY <1>5, <2>2, AskTyped DEF CloseSession, AskAtOnce
  <2>4. loading' \in BOOLEAN /\ failed' \in BOOLEAN
    BY <1>5 DEF CloseSession, AskAtOnce
  <2>5. /\ UNCHANGED <<throttled, debounce, stored, events, page, selected, shown, changes, errors>>
        /\ clicks' \in 0..MaxClicks
    BY <1>5 DEF CloseSession, AskAtOnce, Click, TypeOK, serverVars, viewVars
  <2>. QED
    BY <2>1, <2>3, <2>4, <2>5 DEF TypeOK
<1>6. CASE AssignSession
  <2>1. Feed!TypeOK'
    BY <1>6, FeedTyped DEF AssignSession
  <2>2. Request("assign", NoSession, {}) \in Call
    BY RequestTyped DEF Kinds
  <2>3. calls' \in [Slots -> Call \cup {NoCall}]
    BY <1>6, <2>2, AskTyped DEF AssignSession, AskAtOnce
  <2>4. loading' \in BOOLEAN /\ failed' \in BOOLEAN
    BY <1>6 DEF AssignSession, AskAtOnce
  <2>5. /\ UNCHANGED <<throttled, debounce, stored, events, page, selected, shown, changes, errors>>
        /\ clicks' \in 0..MaxClicks
    BY <1>6 DEF AssignSession, AskAtOnce, Click, TypeOK, serverVars, viewVars
  <2>. QED
    BY <2>1, <2>3, <2>4, <2>5 DEF TypeOK
<1>7. CASE ChangeFilter
  <2>1. Feed!TypeOK'
    BY <1>7, FeedTyped DEF ChangeFilter
  <2>. QED
    BY <1>7, <2>1, ListTyped DEF ChangeFilter, TypeOK, serverVars, viewVars
<1>8. CASE Search
  <2>1. Feed!TypeOK'
    BY <1>8, FeedTyped DEF Search
  <2>. QED
    BY <1>8, <2>1 DEF Search, TypeOK, serverVars, viewVars
<1>9. CASE Leave
  <2>1. Feed!TypeOK'
    BY <1>9, FeedTyped DEF Leave
  <2>2. \A n \in SendSlots : calls[n].rows \subseteq Messages
    BY DEF TypeOK, SendSlots, Call, NoCall
  <2>3. stored' \subseteq Messages
    BY <1>9, <2>2 DEF Leave, TypeOK
  <2>4. shown' \in [Messages -> Nat]
    BY <1>9 DEF Leave, Nothing
  <2>5. /\ loading' \in BOOLEAN /\ failed' \in BOOLEAN
        /\ throttled' \in BOOLEAN /\ debounce' \in BOOLEAN
    BY <1>9 DEF Leave
  <2>6. /\ page' = "closed" /\ selected' = NoSession /\ clicks' \in 0..MaxClicks
        /\ UNCHANGED <<events, changes, errors>>
    BY <1>9 DEF Leave, TypeOK
  <2>7. calls' \in [Slots -> Call \cup {NoCall}]
    BY <1>9 DEF Leave
  <2>. QED
    BY <2>1, <2>3, <2>4, <2>5, <2>6, <2>7 DEF TypeOK
<1>. QED
  BY <1>1, <1>2, <1>3, <1>4, <1>5, <1>6, <1>7, <1>8, <1>9 DEF AgentStep

LEMMA ServerTyped ==
    ASSUME TypeOK, ServerStep
    PROVE  TypeOK'
<1>. USE InboxAssumption DEF InboxAssumption
<1>1. ASSUME NEW n \in Slots, Serve(n)
      PROVE  TypeOK'
  <2>1. Feed!TypeOK'
    BY <1>1, FeedTyped DEF Serve
  <2>2. calls[n] \in Call
    BY <1>1 DEF Serve, TypeOK, NoCall
  <2>3. calls' \in [Slots -> Call \cup {NoCall}]
    BY <1>1, <2>2 DEF Serve, TypeOK, Call, RowsOf
  <2>4. stored' \subseteq Messages
    BY <1>1, <2>2 DEF Serve, TypeOK, Call
  <2>. QED
    BY <1>1, <2>1, <2>3, <2>4 DEF Serve, TypeOK, viewVars, flagVars, boundVars
<1>2. ASSUME NEW n \in Slots, Refuse(n)
      PROVE  TypeOK'
  <2>1. Feed!TypeOK'
    BY <1>2, FeedTyped DEF Refuse
  <2>2. calls[n] \in Call
    BY <1>2 DEF Refuse, TypeOK, NoCall
  <2>3. calls' \in [Slots -> Call \cup {NoCall}]
    BY <1>2, <2>2 DEF Refuse, TypeOK, Call
  <2>. QED
    BY <1>2, <2>1, <2>3 DEF Refuse, TypeOK, serverVars, viewVars, flagVars
<1>3. ASSUME NEW m \in Messages, CustomerWrites(m)
      PROVE  TypeOK'
  <2>1. Feed!TypeOK'
    BY <1>3, FeedTyped DEF CustomerWrites
  <2>. QED
    BY <1>3, <2>1 DEF CustomerWrites, TypeOK, viewVars, flagVars, boundVars
<1>4. ASSUME NEW m \in Messages, NEW again \in BOOLEAN, Broadcast(m, again)
      PROVE  TypeOK'
  <2>1. Feed!TypeOK'
    BY <1>4, FeedTyped DEF Broadcast
  <2>2. shown' \in [Messages -> Nat]
    BY <1>4 DEF Broadcast, Merged, TypeOK
  <2>. QED
    BY <1>4, <2>1, <2>2 DEF Broadcast, TypeOK, flagVars, boundVars
<1>. QED
  BY <1>1, <1>2, <1>3, <1>4 DEF ServerStep

LEMMA PageTyped ==
    ASSUME TypeOK, PageStep
    PROVE  TypeOK'
<1>. USE InboxAssumption DEF InboxAssumption
<1>1. CASE SecondPasses
  BY <1>1, FeedTyped DEF SecondPasses, TypeOK, serverVars, viewVars, boundVars
<1>2. CASE DebounceFires
  <2>1. Feed!TypeOK'
    BY <1>2, FeedTyped DEF DebounceFires
  <2>. QED
    BY <1>2, <2>1, ListTyped DEF DebounceFires, TypeOK, serverVars, viewVars, boundVars
<1>3. CASE Poll
  <2>1. Feed!TypeOK'
    BY <1>3, FeedTyped DEF Poll
  <2>2. Request("poll", selected, {}) \in Call
    BY RequestTyped DEF Kinds, TypeOK
  <2>3. calls' \in [Slots -> Call \cup {NoCall}]
    BY <1>3, <2>2, AskTyped DEF Poll
  <2>. QED
    BY <1>3, <2>1, <2>3 DEF Poll, TypeOK, serverVars, viewVars, boundVars
<1>4. ASSUME NEW n \in Slots, Answered(n)
      PROVE  TypeOK'
  <2>1. \/ MoveHandler(NoSession) /\ UNCHANGED listening
        \/ UNCHANGED feedVars
    BY <1>4 DEF Answered, feedVars, mapVars
  <2>2. Feed!TypeOK'
    BY <2>1, FeedTyped
  <2>3. shown' \in [Messages -> Nat]
    BY <1>4 DEF Answered, ShownAfter, Replaced, Merged, Appended, Nothing, TypeOK
  <2>. QED
    BY <1>4, <2>2, <2>3 DEF Answered, TypeOK, serverVars, boundVars
<1>5. ASSUME NEW n \in Slots, Failed(n)
      PROVE  TypeOK'
  BY <1>5, FeedTyped DEF Failed, TypeOK, serverVars, viewVars, boundVars
<1>. QED
  BY <1>1, <1>2, <1>3, <1>4, <1>5 DEF PageStep

LEMMA FeedStepTyped ==
    ASSUME TypeOK, FeedStep
    PROVE  TypeOK'
  BY FeedTyped DEF FeedStep, TypeOK, serverVars, viewVars, flagVars, boundVars

LEMMA InitTyped == Init => TypeOK
<1>. SUFFICES ASSUME Init PROVE TypeOK
  OBVIOUS
<1>1. Feed!TypeOK
  BY DEF Init, Feed!Init, Feed!TypeOK
<1>2. /\ loading \in BOOLEAN /\ failed \in BOOLEAN
      /\ throttled \in BOOLEAN /\ debounce \in BOOLEAN
  BY DEF Init
<1>3. shown \in [Messages -> Nat] /\ calls \in [Slots -> Call \cup {NoCall}]
  BY DEF Init, Nothing
<1>4. clicks \in 0..MaxClicks /\ changes \in 0..MaxChanges /\ errors \in 0..MaxErrors
  BY InboxAssumption DEF Init, InboxAssumption
<1>. QED
  BY <1>1, <1>2, <1>3, <1>4 DEF Init, TypeOK

LEMMA NextTyped == TypeOK /\ [Next]_vars => TypeOK'
<1>1. CASE UNCHANGED vars
  BY <1>1, FeedTyped DEF vars, serverVars, viewVars, flagVars, boundVars, TypeOK
<1>. QED
  BY <1>1, AgentTyped, ServerTyped, PageTyped, FeedStepTyped DEF Next

\* Whatever requests overlap, and however events, clicks and losses of the connection
\* fall among them, page, requests and tables keep their types.
THEOREM TypeCorrect == Spec => []TypeOK
  BY InitTyped, NextTyped, PTL DEF Spec

LEMMA TypeAlways == Spec => []TypeOK
  BY TypeCorrect

-----------------------------------------------------------------------------
(* The feed.  All that a step of the page or the socket does to the Map. *)
MapMove ==
    \/ UNCHANGED <<feedVars, page, selected>>
    \/ Feed!FeedStep /\ UNCHANGED <<page, selected>>
    \/ Feed!Reset /\ page' = "closed" /\ selected' = NoSession
    \/ /\ page = "closed" /\ page' = "open"
       /\ Feed!Register(Global)
       /\ UNCHANGED <<listening, selected>>
    \/ \E s \in Sessions \cup {NoSession} :
          /\ s \in Sessions => page = "open"
          /\ MoveHandler(s)
          /\ selected' = s
          /\ UNCHANGED <<listening, page>>

LEMMA AgentMoves ==
    ASSUME AgentStep
    PROVE  MapMove
<1>1. CASE Open
  BY <1>1 DEF Open, MapMove
<1>2. CASE Refresh
  BY <1>2 DEF Refresh, MapMove, viewVars
<1>3. ASSUME NEW s \in Sessions, SelectSession(s)
      PROVE  MapMove
  BY <1>3 DEF SelectSession, Click, MapMove
<1>4. ASSUME NEW m \in Replies, SendMessage(m)
      PROVE  MapMove
  BY <1>4 DEF SendMessage, MapMove, viewVars
<1>5. CASE CloseSession
  BY <1>5 DEF CloseSession, MapMove, viewVars
<1>6. CASE AssignSession
  BY <1>6 DEF AssignSession, MapMove, viewVars
<1>7. CASE ChangeFilter
  BY <1>7 DEF ChangeFilter, MapMove, viewVars
<1>8. CASE Search
  BY <1>8 DEF Search, MapMove, viewVars
<1>9. CASE Leave
  BY <1>9 DEF Leave, MapMove
<1>. QED
  BY <1>1, <1>2, <1>3, <1>4, <1>5, <1>6, <1>7, <1>8, <1>9 DEF AgentStep

LEMMA NextMoves ==
    ASSUME [Next]_vars
    PROVE  MapMove
<1>1. CASE UNCHANGED vars
  BY <1>1 DEF vars, viewVars, MapMove
<1>2. CASE ServerStep
  BY <1>2 DEF ServerStep, Serve, Refuse, CustomerWrites, Broadcast, viewVars, MapMove
<1>3. CASE PageStep
  <2>1. CASE SecondPasses \/ DebounceFires \/ Poll
    BY <2>1 DEF SecondPasses, DebounceFires, Poll, viewVars, MapMove
  <2>2. ASSUME NEW n \in Slots, Answered(n)
        PROVE  MapMove
    <3>1. CASE selected' = NoSession /\ MoveHandler(NoSession)
      BY <2>2, <3>1, InboxAssumption DEF Answered, MapMove, InboxAssumption
    <3>2. CASE UNCHANGED <<selected, handlers, captured, aliased>>
      BY <2>2, <3>2 DEF Answered, MapMove, feedVars, mapVars
    <3>. QED
      BY <2>2, <3>1, <3>2 DEF Answered
  <2>3. ASSUME NEW n \in Slots, Failed(n)
        PROVE  MapMove
    BY <2>3 DEF Failed, viewVars, MapMove
  <2>. QED
    BY <1>3, <2>1, <2>2, <2>3 DEF PageStep
<1>4. CASE FeedStep
  BY <1>4 DEF FeedStep, viewVars, MapMove
<1>. QED
  BY <1>1, <1>2, <1>3, <1>4, AgentMoves DEF Next

LEMMA InitHandlers == Init => HandlersAgree
  BY DEF Init, Feed!Init, HandlersAgree

LEMMA MoveHandlers ==
    ASSUME TypeOK, HandlersAgree, MapMove
    PROVE  HandlersAgree' /\ [Feed!Next]_(Feed!feedVars)
<1>. USE InboxAssumption DEF InboxAssumption
<1>1. CASE UNCHANGED <<feedVars, page, selected>>
  BY <1>1 DEF HandlersAgree, feedVars, mapVars, Feed!feedVars, Feed!mapVars
<1>2. CASE Feed!FeedStep /\ UNCHANGED <<page, selected>>
  <2>1. handlers' = handlers
    BY <1>2 DEF Feed!FeedStep, Feed!NewSocket, Feed!StartListening, Feed!StopListening,
       Feed!ConnectionChanges, Feed!Bind, Feed!Reregister, Feed!mapVars
  <2>. QED
    BY <1>2, <2>1 DEF HandlersAgree, Feed!Next
<1>3. CASE Feed!Reset /\ page' = "closed" /\ selected' = NoSession
  BY <1>3 DEF HandlersAgree, Feed!Reset, Feed!Next
<1>4. CASE /\ page = "closed" /\ page' = "open"
           /\ Feed!Register(Global)
           /\ UNCHANGED <<listening, selected>>
  <2>1. selected = NoSession /\ handlers = {}
    BY <1>4 DEF HandlersAgree
  <2>2. HandlersAgree'
    BY <1>4, <2>1 DEF HandlersAgree, Feed!Register
  <2>3. Feed!ConsumerStep
    BY <1>4, <2>1 DEF Feed!ConsumerStep, Feed!Keys
  <2>. QED
    BY <2>2, <2>3 DEF Feed!Next
<1>5. ASSUME NEW s \in Sessions \cup {NoSession}, s \in Sessions => page = "open",
             MoveHandler(s), selected' = s, UNCHANGED <<listening, page>>
      PROVE  HandlersAgree' /\ [Feed!Next]_(Feed!feedVars)
  <2>1. CASE s = selected
    BY <1>5, <2>1 DEF HandlersAgree, MoveHandler, Feed!feedVars, Feed!mapVars
  <2>2. CASE s # selected /\ selected = NoSession
    <3>1. s \in Sessions /\ page = "open" /\ handlers = {Global} /\ Feed!Register(s)
      BY <1>5, <2>2 DEF HandlersAgree, MoveHandler
    <3>2. HandlersAgree'
      BY <1>5, <3>1 DEF HandlersAgree, Feed!Register
    <3>3. Feed!ConsumerStep
      BY <1>5, <3>1 DEF Feed!ConsumerStep, Feed!Keys
    <3>. QED
      BY <3>2, <3>3 DEF Feed!Next
  <2>3. CASE s # selected /\ selected # NoSession
    <3>1. /\ selected \in Sessions
          /\ handlers = (IF page = "open" THEN {Global} ELSE {}) \cup {selected}
      BY <2>3 DEF HandlersAgree, TypeOK
    <3>2. CASE s = NoSession
      <4>1. Feed!Unregister(selected)
        BY <1>5, <2>3, <3>2 DEF MoveHandler
      <4>2. HandlersAgree'
        BY <1>5, <3>1, <3>2, <4>1, <2>3 DEF HandlersAgree, Feed!Unregister
      <4>3. Feed!ConsumerStep
        BY <1>5, <3>1, <4>1 DEF Feed!ConsumerStep
      <4>. QED
        BY <4>2, <4>3 DEF Feed!Next
    <3>3. CASE s # NoSession
      <4>1. Feed!Replace(selected, s)
        BY <1>5, <2>3, <3>3 DEF MoveHandler
      <4>2. HandlersAgree'
        BY <1>5, <3>1, <3>3, <4>1, <2>3 DEF HandlersAgree, Feed!Replace
      <4>3. Feed!ConsumerStep
        BY <1>5, <2>3, <3>1, <3>3, <4>1 DEF Feed!ConsumerStep
      <4>. QED
        BY <4>2, <4>3 DEF Feed!Next
    <3>. QED
      BY <3>2, <3>3
  <2>. QED
    BY <2>1, <2>2, <2>3
<1>. QED
  BY <1>1, <1>2, <1>3, <1>4, <1>5 DEF MapMove

LEMMA NextHandlers ==
    TypeOK /\ HandlersAgree /\ [Next]_vars => HandlersAgree' /\ [Feed!Next]_(Feed!feedVars)
  BY NextMoves, MoveHandlers

\* The page registers, moves and removes its handlers only as RealtimeFeed lets a page do,
\* so that what is proved of the feed holds of the page's.
THEOREM DrivesFeed == Spec => FeedSpec
<1>1. Init => Feed!Init
  BY DEF Init
<1>. QED
  BY <1>1, TypeAlways, InitHandlers, NextHandlers, PTL DEF Spec, FeedSpec, Feed!Spec

-----------------------------------------------------------------------------
(* The loading flag *)

\* The requests in flight are told apart by their kinds here; a step asks one more, answers
\* or fails one, or leaves them.
LEMMA HonestStep ==
    ASSUME TypeOK, SpinnerHonest, Next
    PROVE  SpinnerHonest'
<1>. USE DEF SpinnerHonest
<1>. DEFINE Kept == \A n \in Slots : calls'[n].kind = calls[n].kind
<1>1. ASSUME NEW kind \in {"list", "load"}, NEW s, AskThrottled(Request(kind, s, {}))
      PROVE  SpinnerHonest'
  <2>1. CASE throttled
    BY <1>1, <2>1 DEF AskThrottled
  <2>2. CASE ~throttled
    <3>1. PICK n \in FreeSlots : calls' = [calls EXCEPT ![n] = Request(kind, s, {})]
      BY <1>1, <2>2 DEF AskThrottled, Ask
    <3>2. n \in Slots /\ calls'[n].kind = kind
      BY <3>1 DEF FreeSlots, Request, TypeOK
    <3>3. kind \in Spinning
      BY DEF Spinning, Kinds
    <3>. QED
      BY <3>2, <3>3
  <2>. QED
    BY <2>1, <2>2
<1>2. ASSUME NEW kind \in {"send", "close", "assign"}, NEW s, NEW rows,
             AskAtOnce(Request(kind, s, rows))
      PROVE  SpinnerHonest'
  <2>1. PICK n \in FreeSlots : calls' = [calls EXCEPT ![n] = Request(kind, s, rows)]
    BY <1>2 DEF AskAtOnce, Ask
  <2>2. n \in Slots /\ calls'[n].kind = kind
    BY <2>1 DEF FreeSlots, Request, TypeOK
  <2>3. kind \in Spinning
    BY DEF Spinning, Kinds
  <2>. QED
    BY <2>2, <2>3
<1>3. CASE AgentStep
  <2>1. CASE \/ Open \/ Refresh \/ ChangeFilter \/ \E s \in Sessions : SelectSession(s)
    BY <1>1, <2>1 DEF Open, Refresh, ChangeFilter, SelectSession
  <2>2. CASE (\E m \in Replies : SendMessage(m)) \/ CloseSession \/ AssignSession
    BY <1>2, <2>2 DEF SendMessage, CloseSession, AssignSession
  <2>3. CASE Search
    BY <2>3 DEF Search
  <2>4. CASE Leave
    BY <2>4 DEF Leave
  <2>. QED
    BY <1>3, <2>1, <2>2, <2>3, <2>4 DEF AgentStep
<1>4. CASE ServerStep
  <2>1. loading' = loading
    BY <1>4 DEF ServerStep, Serve, Refuse, CustomerWrites, Broadcast, flagVars
  <2>2. \A n \in Slots : calls'[n].kind = calls[n].kind
    <3>1. ASSUME NEW n \in Slots, Serve(n) \/ Refuse(n)
          PROVE  Kept
      <4>1. calls[n] \in Call
        BY <3>1 DEF Serve, Refuse, TypeOK, NoCall
      <4>. QED
        BY <3>1, <4>1 DEF Serve, Refuse, TypeOK, Call
    <3>2. CASE \/ \E m \in Messages : CustomerWrites(m)
               \/ \E m \in Messages : \E again \in BOOLEAN : Broadcast(m, again)
      BY <3>2 DEF CustomerWrites, Broadcast
    <3>. QED
      BY <1>4, <3>1, <3>2 DEF ServerStep
  <2>. QED
    BY <2>1, <2>2
<1>5. CASE PageStep
  <2>1. CASE SecondPasses
    BY <2>1 DEF SecondPasses
  <2>2. CASE DebounceFires
    BY <1>1, <2>2 DEF DebounceFires
  <2>3. CASE Poll
    <3>1. PICK n \in FreeSlots : calls' = [calls EXCEPT ![n] = Request("poll", selected, {})]
      BY <2>3 DEF Poll, Ask
    <3>2. calls[n].kind = "none"
      BY <3>1 DEF FreeSlots, NoCall
    <3>. QED
      BY <2>3, <3>1, <3>2 DEF Poll, TypeOK, Spinning, Kinds
  <2>4. ASSUME NEW n \in Slots, Answered(n) \/ Failed(n)
        PROVE  SpinnerHonest'
    <3>1. /\ loading' = (loading /\ calls[n].kind = "poll")
          /\ calls' = [calls EXCEPT ![n] = NoCall]
      BY <2>4 DEF Answered, Failed
    <3>. QED
      BY <3>1 DEF TypeOK, Spinning, Kinds
  <2>. QED
    BY <1>5, <2>1, <2>2, <2>3, <2>4 DEF PageStep
<1>6. CASE FeedStep
  BY <1>6 DEF FeedStep, flagVars
<1>. QED
  BY <1>3, <1>4, <1>5, <1>6 DEF Next

\* However timers, polls and answers overlap, and however many requests are in flight, the
\* page is disabled only while a request that will enable it again is.
THEOREM SpinnerSafe == Spec => []SpinnerHonest
<1>1. Init => SpinnerHonest
  BY DEF Init, SpinnerHonest
<1>2. TypeOK /\ SpinnerHonest /\ [Next]_vars => SpinnerHonest'
  <2>1. CASE UNCHANGED vars
    BY <2>1 DEF vars, flagVars, SpinnerHonest
  <2>. QED
    BY <2>1, HonestStep
<1>. QED
  BY <1>1, <1>2, TypeAlways, PTL DEF Spec

-----------------------------------------------------------------------------
(* One request at a time *)

LEMMA QuietAsks ==
    ASSUME TypeOK, Quiet,
           \/ \E kind \in {"list", "load"}, s \in Sessions \cup {NoSession} :
                 /\ AskThrottled(Request(kind, s, {}))
                 /\ kind = "load" => s = selected'
           \/ \E kind \in {"send", "close", "assign"},
                 s \in Sessions \cup {NoSession}, rows \in SUBSET Messages :
                 /\ AskAtOnce(Request(kind, s, rows))
                 /\ kind # "assign" => s = selected'
    PROVE  OneSpins'
<1>1. ASSUME NEW kind \in Spinning, NEW s, NEW rows, NEW n \in FreeSlots,
             calls' = [calls EXCEPT ![n] = Request(kind, s, rows)], loading' = TRUE,
             kind \in {"load", "send", "close"} => s = selected'
      PROVE  OneSpins'
  <2>1. /\ calls'[n].kind = kind /\ calls'[n].session = s
        /\ \A i \in Slots \ {n} : calls'[i] = calls[i]
        /\ n \in Slots
    BY <1>1 DEF FreeSlots, TypeOK, Request
  <2>2. \A i \in Slots : calls'[i].kind \in Spinning => i = n
    BY <2>1 DEF Quiet
  <2>3. {"load", "send", "close"} \subseteq Spinning
    BY DEF Spinning, Kinds
  <2>. QED
    BY <1>1, <2>1, <2>2, <2>3 DEF OneSpins
<1>2. ASSUME NEW kind \in {"list", "load"}, NEW s \in Sessions \cup {NoSession},
             AskThrottled(Request(kind, s, {})), kind = "load" => s = selected'
      PROVE  OneSpins'
  <2>1. CASE throttled
    <3>1. calls' = calls
      BY <1>2, <2>1 DEF AskThrottled
    <3>2. {"load", "send", "close"} \subseteq Spinning
      BY DEF Spinning, Kinds
    <3>. QED
      BY <3>1, <3>2 DEF OneSpins, Quiet
  <2>2. CASE ~throttled
    <3>1. PICK n \in FreeSlots : calls' = [calls EXCEPT ![n] = Request(kind, s, {})]
      BY <1>2, <2>2 DEF AskThrottled, Ask
    <3>2. loading' = TRUE /\ kind \in Spinning
      BY <1>2, <2>2 DEF AskThrottled, Spinning, Kinds
    <3>. QED
      BY <1>1, <1>2, <3>1, <3>2
  <2>. QED
    BY <2>1, <2>2
<1>3. ASSUME NEW kind \in {"send", "close", "assign"}, NEW s \in Sessions \cup {NoSession},
             NEW rows \in SUBSET Messages,
             AskAtOnce(Request(kind, s, rows)), kind # "assign" => s = selected'
      PROVE  OneSpins'
  <2>1. PICK n \in FreeSlots : calls' = [calls EXCEPT ![n] = Request(kind, s, rows)]
    BY <1>3 DEF AskAtOnce, Ask
  <2>2. loading' = TRUE /\ kind \in Spinning
    BY <1>3 DEF AskAtOnce, Spinning, Kinds
  <2>. QED
    BY <1>1, <1>3, <2>1, <2>2
<1>. QED
  BY <1>2, <1>3

\* Who may click finds nothing spinning, unless a filter has been touched.
LEMMA ClickQuiet ==
    ASSUME SerialInv, changes = 0, loading = FALSE
    PROVE  Quiet
  BY DEF SerialInv, OneSpins, Quiet

LEMMA AgentSerial ==
    ASSUME TypeOK, SerialInv, AgentStep
    PROVE  SerialInv'
<1>. SUFFICES ASSUME changes' = 0
              PROVE  debounce' = FALSE /\ (page' = "closed" => loading' = FALSE) /\ OneSpins'
  BY DEF SerialInv
<1>. USE InboxAssumption DEF InboxAssumption
<1>0. {} \in SUBSET Messages /\ selected \in Sessions \cup {NoSession} /\ changes \in Nat
  BY DEF TypeOK
<1>1. CASE Open
  <2>1. changes = 0 /\ loading = FALSE /\ debounce' = FALSE /\ page' = "open"
    BY <1>1 DEF Open, SerialInv, boundVars
  <2>2. AskThrottled(Request("list", NoSession, {}))
    BY <1>1 DEF Open
  <2>. QED
    BY <2>1, <2>2, ClickQuiet, QuietAsks
<1>2. CASE Refresh
  <2>1. changes = 0 /\ loading = FALSE /\ debounce' = FALSE /\ page' = "open"
    BY <1>2 DEF Refresh, Click, SerialInv, TypeOK, viewVars
  <2>2. AskThrottled(Request("list", NoSession, {}))
    BY <1>2 DEF Refresh
  <2>. QED
    BY <2>1, <2>2, ClickQuiet, QuietAsks
<1>3. ASSUME NEW s \in Sessions, SelectSession(s)
      PROVE  debounce' = FALSE /\ (page' = "closed" => loading' = FALSE) /\ OneSpins'
  <2>1. changes = 0 /\ loading = FALSE /\ debounce' = FALSE /\ page' = "open"
    BY <1>3 DEF SelectSession, Click, SerialInv, TypeOK
  <2>2. AskThrottled(Request("load", s, {})) /\ s = selected'
    BY <1>3 DEF SelectSession
  <2>. QED
    BY <2>1, <2>2, ClickQuiet, QuietAsks
<1>4. ASSUME NEW m \in Replies, SendMessage(m)
      PROVE  debounce' = FALSE /\ (page' = "closed" => loading' = FALSE) /\ OneSpins'
  <2>1. changes = 0 /\ loading = FALSE /\ page' = "open" /\ selected' = selected
    BY <1>4 DEF SendMessage, Click, TypeOK, viewVars
  <2>2. debounce' = FALSE
    BY <1>4, <2>1 DEF SendMessage, AskAtOnce, SerialInv
  <2>3. AskAtOnce(Request("send", selected, {m})) /\ {m} \in SUBSET Messages
    BY <1>4 DEF SendMessage
  <2>. QED
    BY <1>0, <2>1, <2>2, <2>3, ClickQuiet, QuietAsks
<1>5. CASE CloseSession
  <2>1. changes = 0 /\ loading = FALSE /\ page' = "open" /\ selected' = selected
    BY <1>5 DEF CloseSession, Click, TypeOK, viewVars
  <2>2. debounce' = FALSE
    BY <1>5, <2>1 DEF CloseSession, AskAtOnce, SerialInv
  <2>3. AskAtOnce(Request("close", selected, {}))
    BY <1>5 DEF CloseSession
  <2>. QED
    BY <1>0, <2>1, <2>2, <2>3, ClickQuiet, QuietAsks
<1>6. CASE AssignSession
  <2>1. changes = 0 /\ loading = FALSE /\ page' = "open"
    BY <1>6 DEF AssignSession, Click, TypeOK, viewVars
  <2>2. debounce' = FALSE
    BY <1>6, <2>1 DEF AssignSession, AskAtOnce, SerialInv
  <2>3. AskAtOnce(Request("assign", NoSession, {}))
    BY <1>6 DEF AssignSession
  <2>. QED
    BY <1>0, <2>1, <2>2, <2>3, ClickQuiet, QuietAsks
<1>7. CASE ChangeFilter \/ Search
  BY <1>0, <1>7 DEF ChangeFilter, Search
<1>8. CASE Leave
  <2>1. \A n \in Slots : calls'[n].kind = "none"
    BY <1>8 DEF Leave, NoCall
  <2>. QED
    BY <1>8, <2>1 DEF Leave, OneSpins, Spinning, Kinds
<1>. QED
  BY <1>1, <1>2, <1>3, <1>4, <1>5, <1>6, <1>7, <1>8 DEF AgentStep

LEMMA OtherSerial ==
    ASSUME TypeOK, SerialInv, ServerStep \/ PageStep \/ FeedStep \/ UNCHANGED vars
    PROVE  SerialInv'
<1>. SUFFICES ASSUME changes' = 0
              PROVE  debounce' = FALSE /\ (page' = "closed" => loading' = FALSE) /\ OneSpins'
  BY DEF SerialInv
<1>1. ASSUME UNCHANGED <<changes, debounce, page, selected, loading>>,
             \A n \in Slots : /\ calls'[n].kind = calls[n].kind
                              /\ calls'[n].session = calls[n].session
      PROVE  debounce' = FALSE /\ (page' = "closed" => loading' = FALSE) /\ OneSpins'
  BY <1>1 DEF SerialInv, OneSpins
<1>2. ASSUME NEW n \in Slots, Serve(n) \/ Refuse(n)
      PROVE  debounce' = FALSE /\ (page' = "closed" => loading' = FALSE) /\ OneSpins'
  <2>1. calls[n] \in Call
    BY <1>2 DEF Serve, Refuse, TypeOK, NoCall
  <2>2. \A i \in Slots : /\ calls'[i].kind = calls[i].kind
                         /\ calls'[i].session = calls[i].session
    BY <1>2, <2>1 DEF Serve, Refuse, TypeOK, Call
  <2>3. UNCHANGED <<changes, debounce, page, selected, loading>>
    BY <1>2 DEF Serve, Refuse, viewVars, flagVars, boundVars
  <2>. QED
    BY <1>1, <2>2, <2>3
<1>3. CASE \/ \E m \in Messages : CustomerWrites(m)
           \/ \E m \in Messages : \E again \in BOOLEAN : Broadcast(m, again)
           \/ SecondPasses \/ FeedStep \/ UNCHANGED vars
  <2>1. UNCHANGED <<changes, debounce, page, selected, loading, calls>>
    BY <1>3 DEF CustomerWrites, Broadcast, SecondPasses, FeedStep, vars, viewVars, flagVars,
       boundVars
  <2>. QED
    BY <1>1, <2>1
<1>4. CASE DebounceFires
  BY <1>4 DEF DebounceFires, SerialInv, boundVars
<1>5. CASE Poll
  <2>1. PICK n \in FreeSlots : calls' = [calls EXCEPT ![n] = Request("poll", selected, {})]
    BY <1>5 DEF Poll, Ask
  <2>2. calls'[n].kind = "poll" /\ \A i \in Slots \ {n} : calls'[i] = calls[i]
    BY <2>1 DEF FreeSlots, TypeOK, Request
  <2>3. UNCHANGED <<changes, debounce, page, selected, loading>>
    BY <1>5 DEF Poll, viewVars, boundVars
  <2>4. "poll" \notin Spinning /\ "poll" \notin {"load", "send", "close"}
    BY DEF Spinning
  <2>. QED
    BY <2>2, <2>3, <2>4 DEF SerialInv, OneSpins
<1>6. ASSUME NEW n \in Slots, Answered(n) \/ Failed(n)
      PROVE  debounce' = FALSE /\ (page' = "closed" => loading' = FALSE) /\ OneSpins'
  <2>1. /\ loading' = (loading /\ calls[n].kind = "poll")
        /\ calls' = [calls EXCEPT ![n] = NoCall]
        /\ UNCHANGED <<changes, debounce, page>>
        /\ calls[n].kind # "close" => UNCHANGED selected
    BY <1>6 DEF Answered, Failed, viewVars, boundVars
  <2>2. calls'[n] = NoCall /\ \A i \in Slots \ {n} : calls'[i] = calls[i]
    BY <2>1 DEF TypeOK
  <2>3. "none" \notin Spinning /\ {"load", "send", "close"} \subseteq Spinning
    BY DEF Spinning, Kinds
  <2>4. calls[n].kind \in Spinning \cup {"poll", "none"}
    BY DEF TypeOK, Call, NoCall, Spinning
  <2>5. calls[n].kind # "none"
    <3>1. calls[n].state \in {"answered", "refused"}
      BY <1>6 DEF Answered, Failed
    <3>. QED
      BY <3>1 DEF TypeOK, Call, NoCall, Kinds
  <2>6. debounce' = FALSE /\ (page' = "closed" => loading' = FALSE)
    BY <2>1 DEF SerialInv
  <2>7. CASE calls[n].kind \in Spinning
    BY <2>1, <2>2, <2>3, <2>6, <2>7 DEF SerialInv, OneSpins, NoCall
  <2>8. CASE calls[n].kind = "poll"
    <3>1. loading' = loading
      BY <2>1, <2>8 DEF TypeOK
    <3>2. UNCHANGED selected
      BY <2>1, <2>8
    <3>. QED
      BY <2>1, <2>2, <2>3, <2>6, <3>1, <3>2 DEF SerialInv, OneSpins, NoCall
  <2>. QED
    BY <2>4, <2>5, <2>7, <2>8
<1>. QED
  BY <1>2, <1>3, <1>4, <1>5, <1>6 DEF ServerStep, PageStep

LEMMA InitSerial == Init => SerialInv
<1>. SUFFICES ASSUME Init PROVE SerialInv
  OBVIOUS
<1>1. \A n \in Slots : calls[n].kind = "none"
  BY DEF Init, NoCall
<1>. QED
  BY <1>1 DEF Init, SerialInv, OneSpins, Spinning, Kinds

LEMMA NextSerial == TypeOK /\ SerialInv /\ [Next]_vars => SerialInv'
  BY AgentSerial, OtherSerial DEF Next

\* For any number of requests in flight: while no filter has been touched the loading flag
\* lets at most one request that writes the list be under way, and it is for what is selected.
THEOREM SerialSafe == Spec => []SpinnerSerializes
<1>1. SerialInv => SpinnerSerializes
  BY DEF SerialInv, OneSpins, SpinnerSerializes
<1>. QED
  BY <1>1, InitSerial, NextSerial, TypeAlways, PTL DEF Spec

-----------------------------------------------------------------------------
(* The list *)

LEMMA InitList == Init => ListInv
<1>. SUFFICES ASSUME Init PROVE ListInv
  OBVIOUS
<1>1. \A n \in Slots : calls[n].kind = "none"
  BY DEF Init, NoCall
<1>2. \A m \in Messages : shown[m] = 0
  BY DEF Init, Nothing
<1>. QED
  BY <1>1, <1>2 DEF Init, ListInv, CallHonest, SendsApart, DuplicatesBounded

\* A step that leaves the list and what is in flight, or takes some of that away.
LEMMA KeptList ==
    ASSUME TypeOK, ListInv,
           stored \subseteq stored', events' \subseteq stored' \ Replies, shown' = shown,
           \A n \in Slots : calls'[n] \in {calls[n], NoCall}
    PROVE  ListInv'
<1>1. \A n \in Slots : CallHonest(n)'
  BY DEF ListInv, CallHonest, RowsOf, NoCall
<1>2. SendsApart'
  BY DEF ListInv, SendsApart, NoCall
<1>. QED
  BY <1>1, <1>2 DEF ListInv, DuplicatesBounded

\* A request that carries nothing.
LEMMA AskList ==
    ASSUME TypeOK, ListInv, NEW n \in FreeSlots,
           NEW kind \in {"list", "load", "poll", "close", "assign"}, NEW s,
           calls' = [calls EXCEPT ![n] = Request(kind, s, {})],
           UNCHANGED <<stored, events, shown>>
    PROVE  ListInv'
<1>1. /\ n \in Slots
      /\ calls'[n].kind = kind /\ calls'[n].rows = {}
      /\ \A i \in Slots \ {n} : calls'[i] = calls[i]
  BY DEF FreeSlots, TypeOK, Request
<1>2. CallHonest(n)'
  BY <1>1 DEF CallHonest
<1>3. \A i \in Slots \ {n} : CallHonest(i)'
  BY <1>1 DEF ListInv, CallHonest, RowsOf
<1>4. SendsApart'
  BY <1>1 DEF ListInv, SendsApart
<1>. QED
  BY <1>2, <1>3, <1>4 DEF ListInv, DuplicatesBounded

LEMMA ThrottledList ==
    ASSUME TypeOK, ListInv, NEW kind \in {"list", "load"}, NEW s,
           AskThrottled(Request(kind, s, {})), UNCHANGED <<stored, events, shown>>
    PROVE  ListInv'
<1>1. CASE throttled
  BY <1>1, KeptList DEF AskThrottled, ListInv
<1>2. CASE ~throttled
  BY <1>2, AskList DEF AskThrottled, Ask
<1>. QED
  BY <1>1, <1>2

LEMMA SendList ==
    ASSUME TypeOK, ListInv, NEW m \in Replies, SendMessage(m)
    PROVE  ListInv'
<1>1. PICK n \in FreeSlots : calls' = [calls EXCEPT ![n] = Request("send", selected, {m})]
  BY DEF SendMessage, AskAtOnce, Ask
<1>2. /\ n \in Slots
      /\ calls'[n].kind = "send" /\ calls'[n].rows = {m}
      /\ calls'[n].state = "asked" /\ calls'[n].session = selected
      /\ \A i \in Slots \ {n} : calls'[i] = calls[i]
  BY <1>1 DEF FreeSlots, TypeOK, Request, AboutMessages
<1>3. UNCHANGED <<stored, events, shown>>
  BY DEF SendMessage, serverVars, viewVars
<1>4. /\ m \in Messages /\ m \notin stored /\ SessionOf[m] = selected
      /\ \A i \in Slots : m \notin calls[i].rows
  BY InboxAssumption DEF InboxAssumption, SendMessage
<1>5. shown[m] <= 1
  BY <1>4 DEF ListInv, TypeOK
<1>6. CallHonest(n)'
  BY <1>2, <1>3, <1>4, <1>5 DEF CallHonest
<1>7. \A i \in Slots \ {n} : CallHonest(i)'
  BY <1>2, <1>3 DEF ListInv, CallHonest, RowsOf
<1>8. SendsApart'
  BY <1>2, <1>4 DEF ListInv, SendsApart
<1>. QED
  BY <1>3, <1>6, <1>7, <1>8 DEF ListInv, DuplicatesBounded

LEMMA AgentList ==
    ASSUME TypeOK, ListInv, AgentStep
    PROVE  ListInv'
<1>1. CASE \/ Open \/ Refresh \/ ChangeFilter \/ \E s \in Sessions : SelectSession(s)
  BY <1>1, ThrottledList
     DEF Open, Refresh, ChangeFilter, SelectSession, serverVars, viewVars
<1>2. CASE CloseSession \/ AssignSession
  BY <1>2, AskList DEF CloseSession, AssignSession, AskAtOnce, Ask, serverVars, viewVars
<1>3. CASE Search
  BY <1>3, KeptList DEF Search, serverVars, viewVars, ListInv
<1>4. CASE Leave
  <2>1. /\ stored \subseteq stored' /\ events' = events
        /\ \A m \in Messages : shown'[m] = 0
        /\ \A n \in Slots : calls'[n].kind = "none"
    BY <1>4 DEF Leave, Nothing, NoCall
  <2>. QED
    BY <2>1 DEF ListInv, CallHonest, SendsApart, DuplicatesBounded
<1>. QED
  BY <1>1, <1>2, <1>3, <1>4, SendList DEF AgentStep

LEMMA ServeList ==
    ASSUME TypeOK, ListInv, NEW n \in Slots, Serve(n)
    PROVE  ListInv'
<1>1. /\ calls'[n].kind = calls[n].kind /\ calls'[n].session = calls[n].session
      /\ calls'[n].rows = IF calls[n].kind \in {"load", "poll"}
                          THEN RowsOf(calls[n].session) ELSE calls[n].rows
      /\ \A i \in Slots \ {n} : calls'[i] = calls[i]
  BY DEF Serve, TypeOK
<1>2. /\ stored \subseteq stored'
      /\ calls[n].kind = "send" => calls[n].rows \subseteq stored'
      /\ UNCHANGED <<events, shown>>
  BY DEF Serve, viewVars
<1>3. CallHonest(n)'
  BY <1>1, <1>2 DEF ListInv, CallHonest, RowsOf
<1>4. \A i \in Slots \ {n} : CallHonest(i)'
  BY <1>1, <1>2 DEF ListInv, CallHonest, RowsOf
<1>5. SendsApart'
  BY <1>1 DEF ListInv, SendsApart
<1>. QED
  BY <1>2, <1>3, <1>4, <1>5 DEF ListInv, DuplicatesBounded

LEMMA RefuseList ==
    ASSUME TypeOK, ListInv, NEW n \in Slots, Refuse(n)
    PROVE  ListInv'
<1>0. calls[n] \in Call
  BY DEF Refuse, TypeOK, NoCall
<1>1. /\ calls'[n].kind = calls[n].kind /\ calls'[n].session = calls[n].session
      /\ calls'[n].rows = calls[n].rows /\ calls'[n].state = "refused"
      /\ \A i \in Slots \ {n} : calls'[i] = calls[i]
  BY <1>0 DEF Refuse, TypeOK, Call
<1>2. UNCHANGED <<stored, events, shown>>
  BY DEF Refuse, serverVars, viewVars
<1>3. \A i \in Slots : CallHonest(i)'
  BY <1>1, <1>2 DEF ListInv, CallHonest, RowsOf
<1>4. SendsApart'
  BY <1>1 DEF ListInv, SendsApart
<1>. QED
  BY <1>2, <1>3, <1>4 DEF ListInv, DuplicatesBounded

\* What a merge does to the list, of rows that are stored.
LEMMA MergeList ==
    ASSUME TypeOK, ListInv, NEW rows \in SUBSET stored,
           shown' = Merged(rows) \/ shown' = Replaced(rows),
           stored' = stored, events' \subseteq events,
           \A n \in Slots : calls'[n] \in {calls[n], NoCall}
    PROVE  ListInv'
<1>1. \A m \in Messages : /\ shown'[m] <= (IF m \in Replies THEN 2 ELSE 1)
                          /\ shown[m] <= 1 => shown'[m] <= 1
                          /\ shown'[m] > 0 => m \in stored
  BY DEF Merged, Replaced, TypeOK, ListInv, DuplicatesBounded
<1>2. \A n \in Slots : CallHonest(n)'
  <2>. SUFFICES ASSUME NEW n \in Slots, calls'[n] = calls[n] PROVE CallHonest(n)'
    BY DEF CallHonest, NoCall
  <2>1. CallHonest(n)
    BY DEF ListInv
  <2>2. calls[n].kind = "send" => calls[n].rows \subseteq Messages
    BY InboxAssumption, <2>1 DEF CallHonest, InboxAssumption
  <2>. QED
    BY <1>1, <2>1, <2>2 DEF CallHonest, RowsOf
<1>3. SendsApart'
  BY DEF ListInv, SendsApart, NoCall
<1>. QED
  BY <1>1, <1>2, <1>3 DEF ListInv, DuplicatesBounded

LEMMA AppendList ==
    ASSUME TypeOK, ListInv, NEW n \in Slots, calls[n].kind = "send", calls[n].state = "answered",
           shown' = Appended(calls[n].rows), calls' = [calls EXCEPT ![n] = NoCall],
           UNCHANGED <<stored, events>>
    PROVE  ListInv'
<1>1. /\ calls'[n].kind = "none"
      /\ \A i \in Slots \ {n} : calls'[i] = calls[i]
  BY DEF TypeOK, NoCall
<1>2. /\ calls[n].rows \subseteq Replies \cap stored
      /\ \A m \in calls[n].rows : shown[m] <= 1
  BY DEF ListInv, CallHonest
<1>3. \A m \in Messages : shown'[m] = IF m \in calls[n].rows THEN shown[m] + 1 ELSE shown[m]
  BY DEF Appended
<1>4. \A m \in Messages : /\ shown'[m] <= (IF m \in Replies THEN 2 ELSE 1)
                          /\ shown'[m] > 0 => m \in stored
  BY <1>2, <1>3 DEF TypeOK, ListInv, DuplicatesBounded
<1>5. ASSUME NEW i \in Slots \ {n}
      PROVE  CallHonest(i)'
  <2>1. CallHonest(i)
    BY DEF ListInv
  <2>2. CASE calls[i].kind = "send"
    <3>1. calls[i].rows \subseteq Messages
      BY InboxAssumption, <2>1, <2>2 DEF CallHonest, InboxAssumption
    <3>2. calls[i].rows \cap calls[n].rows = {}
      BY <2>2 DEF ListInv, SendsApart
    <3>. QED
      BY <1>1, <1>3, <2>1, <2>2, <3>1, <3>2 DEF CallHonest
  <2>3. CASE calls[i].kind # "send"
    BY <1>1, <2>1, <2>3 DEF CallHonest, RowsOf
  <2>. QED
    BY <2>2, <2>3
<1>6. CallHonest(n)'
  BY <1>1 DEF CallHonest
<1>7. SendsApart'
  BY <1>1 DEF ListInv, SendsApart
<1>. QED
  BY <1>4, <1>5, <1>6, <1>7 DEF ListInv, DuplicatesBounded

\* What an answer makes of the list, by its kind.
LEMMA AnswerShown ==
    ASSUME TypeOK, NEW n \in Slots, Answered(n)
    PROVE  /\ calls[n].kind = "load" => shown' = Replaced(calls[n].rows)
           /\ calls[n].kind = "poll" => shown' = Merged(calls[n].rows)
           /\ calls[n].kind = "send" => shown' = Appended(calls[n].rows)
           /\ calls[n].kind = "close" => shown' = Nothing
           /\ calls[n].kind \notin {"load", "poll", "send", "close"} => shown' = shown
<1>1. shown' = ShownAfter(calls[n])
  BY DEF Answered
<1>2. CASE calls[n].kind = "load"
  BY <1>1, <1>2 DEF ShownAfter
<1>3. CASE calls[n].kind = "poll"
  BY <1>1, <1>3 DEF ShownAfter
<1>4. CASE calls[n].kind = "send"
  BY <1>1, <1>4 DEF ShownAfter
<1>5. CASE calls[n].kind = "close"
  BY <1>1, <1>5 DEF ShownAfter
<1>6. CASE calls[n].kind \notin {"load", "poll", "send", "close"}
  BY <1>1, <1>6 DEF ShownAfter
<1>. QED
  BY <1>2, <1>3, <1>4, <1>5, <1>6

LEMMA AnswerList ==
    ASSUME TypeOK, ListInv, NEW n \in Slots, Answered(n)
    PROVE  ListInv'
<1>1. /\ calls' = [calls EXCEPT ![n] = NoCall]
      /\ calls[n].state = "answered"
      /\ UNCHANGED <<stored, events>>
  BY DEF Answered, serverVars
<1>2. \A i \in Slots : calls'[i] \in {calls[i], NoCall}
  BY <1>1 DEF TypeOK
<1>3. CASE calls[n].kind \in {"load", "poll"}
  <2>1. calls[n].rows \in SUBSET stored
    BY <1>3 DEF ListInv, CallHonest, RowsOf
  <2>. QED
    BY <1>1, <1>2, <1>3, <2>1, AnswerShown, MergeList
<1>4. CASE calls[n].kind = "send"
  BY <1>1, <1>4, AnswerShown, AppendList
<1>5. CASE calls[n].kind = "close"
  <2>1. shown' = Replaced({})
    BY <1>5, AnswerShown DEF Nothing, Replaced
  <2>. QED
    BY <1>1, <1>2, <2>1, MergeList
<1>6. CASE calls[n].kind \notin {"load", "poll", "send", "close"}
  BY <1>1, <1>2, <1>6, AnswerShown, KeptList DEF ListInv
<1>. QED
  BY <1>3, <1>4, <1>5, <1>6

LEMMA OtherList ==
    ASSUME TypeOK, ListInv, ServerStep \/ PageStep \/ FeedStep \/ UNCHANGED vars
    PROVE  ListInv'
<1>1. ASSUME NEW m \in Messages, CustomerWrites(m)
      PROVE  ListInv'
  BY <1>1, KeptList DEF CustomerWrites, ListInv, viewVars
<1>2. ASSUME NEW m \in Messages, NEW again \in BOOLEAN, Broadcast(m, again)
      PROVE  ListInv'
  <2>1. events' \subseteq events /\ stored' = stored /\ calls' = calls /\ {m} \in SUBSET stored
    BY <1>2 DEF Broadcast, ListInv
  <2>2. shown' = Merged({m}) \/ shown' = shown
    BY <1>2 DEF Broadcast
  <2>. QED
    BY <2>1, <2>2, MergeList, KeptList DEF ListInv
<1>3. CASE SecondPasses \/ FeedStep \/ UNCHANGED vars
  BY <1>3, KeptList DEF SecondPasses, FeedStep, vars, serverVars, viewVars, ListInv
<1>4. CASE DebounceFires
  BY <1>4, ThrottledList DEF DebounceFires, serverVars, viewVars
<1>5. CASE Poll
  BY <1>5, AskList DEF Poll, Ask, serverVars, viewVars
<1>6. ASSUME NEW n \in Slots, Failed(n)
      PROVE  ListInv'
  BY <1>6, KeptList DEF Failed, TypeOK, serverVars, viewVars, ListInv
<1>. QED
  BY <1>1, <1>2, <1>3, <1>4, <1>5, <1>6, ServeList, RefuseList, AnswerList
     DEF ServerStep, PageStep

LEMMA NextList == TypeOK /\ ListInv /\ [Next]_vars => ListInv'
  BY AgentList, OtherList DEF Next

\* However many loads, polls, sends and doubled events overlap, a customer's message is in
\* the list once at most, the agent's own reply twice.
THEOREM DuplicatesSafe == Spec => []DuplicatesBounded
<1>1. ListInv => DuplicatesBounded
  BY DEF ListInv
<1>. QED
  BY <1>1, InitList, NextList, TypeAlways, PTL DEF Spec

-----------------------------------------------------------------------------
(* Messages of other conversations *)

LEMMA ForeignStep ==
    ASSUME TypeOK, SerialInv, ListInv, [Next]_vars, NEW m \in Messages,
           shown'[m] > shown[m], SessionOf[m] # selected'
    PROVE  \/ \E n \in Slots : /\ calls[n].kind = "poll"
                               /\ calls[n].session = SessionOf[m]
                               /\ calls'[n] = NoCall
           \/ m \in events /\ SessionOf[m] \in captured
           \/ changes > 0
<1>0. shown[m] \in Nat /\ changes \in Nat
  BY InboxAssumption DEF TypeOK, InboxAssumption
<1>1. CASE shown' = shown
  BY <1>0, <1>1
<1>2. CASE Leave
  BY <1>0, <1>2 DEF Leave, Nothing
<1>3. ASSUME NEW m2 \in Messages, NEW again \in BOOLEAN, Broadcast(m2, again)
      PROVE  m \in events /\ SessionOf[m] \in captured
  BY <1>0, <1>3 DEF Broadcast, Merged, Feed!Notified
<1>4. ASSUME NEW n \in Slots, Answered(n), changes = 0
      PROVE  /\ calls[n].kind = "poll"
             /\ calls[n].session = SessionOf[m]
             /\ calls'[n] = NoCall
  <2>1. calls[n].kind \in {"load", "send"} => calls[n].session = selected /\ selected' = selected
    BY <1>4 DEF SerialInv, OneSpins, Answered
  <2>2. CASE calls[n].kind = "load"
    <3>1. m \in calls[n].rows
      BY <1>0, <1>4, <2>2, AnswerShown DEF Replaced
    <3>. QED
      BY <2>1, <2>2, <3>1 DEF ListInv, CallHonest, RowsOf
  <2>3. CASE calls[n].kind = "poll"
    <3>1. m \in calls[n].rows
      BY <1>0, <1>4, <2>3, AnswerShown DEF Merged
    <3>. QED
      BY <1>4, <2>3, <3>1 DEF ListInv, CallHonest, RowsOf, Answered, TypeOK
  <2>4. CASE calls[n].kind = "send"
    <3>1. m \in calls[n].rows
      BY <1>0, <1>4, <2>4, AnswerShown DEF Appended
    <3>. QED
      BY <2>1, <2>4, <3>1 DEF ListInv, CallHonest
  <2>5. CASE calls[n].kind = "close"
    BY <1>0, <1>4, <2>5, AnswerShown DEF Nothing
  <2>6. CASE calls[n].kind \notin {"load", "poll", "send", "close"}
    BY <1>0, <1>4, <2>6, AnswerShown
  <2>. QED
    BY <2>2, <2>3, <2>4, <2>5, <2>6
<1>5. CASE AgentStep
  <2>1. AgentStep => Leave \/ shown' = shown
    BY DEF AgentStep, Open, Refresh, SelectSession, SendMessage, CloseSession, AssignSession,
       ChangeFilter, Search, viewVars
  <2>. QED
    BY <1>1, <1>2, <1>5, <2>1
<1>6. CASE ServerStep
  <2>1. \/ shown' = shown
        \/ \E m2 \in Messages : \E again \in BOOLEAN : Broadcast(m2, again)
    BY <1>6 DEF ServerStep, Serve, Refuse, CustomerWrites, viewVars
  <2>. QED
    BY <1>1, <1>3, <2>1
<1>7. CASE PageStep
  <2>1. shown' = shown \/ \E n \in Slots : Answered(n)
    BY <1>7 DEF PageStep, SecondPasses, DebounceFires, Poll, Failed, viewVars
  <2>. QED
    BY <1>0, <1>1, <1>4, <2>1
<1>8. CASE FeedStep \/ UNCHANGED vars
  BY <1>1, <1>8 DEF FeedStep, vars, viewVars
<1>. QED
  BY <1>5, <1>6, <1>7, <1>8 DEF Next

\* For any conversations and any requests in flight: a message of another conversation comes
\* into the list only by a late poll of its own, by a handler the socket still holds of it, or
\* after a filter has been touched.
THEOREM ForeignSafe == Spec => ForeignComesLate
<1>1. TypeOK /\ SerialInv /\ ListInv /\ [Next]_vars
        => [\A m \in Messages :
              shown'[m] > shown[m] /\ SessionOf[m] # selected' =>
                 \/ \E n \in Slots : /\ calls[n].kind = "poll"
                                     /\ calls[n].session = SessionOf[m]
                                     /\ calls'[n] = NoCall
                 \/ m \in events /\ SessionOf[m] \in captured
                 \/ changes > 0]_vars
  BY ForeignStep
<1>. QED
  BY <1>1, InitSerial, NextSerial, InitList, NextList, TypeAlways, PTL DEF Spec, ForeignComesLate

-----------------------------------------------------------------------------
(* What the list keeps *)

(* The page shows nothing that the server does not have, although it appends the
   agent's own reply by itself and takes events for messages. *)
ShowsStored == \A m \in Messages : shown[m] > 0 => m \in stored

(* A message that is shown for the selected conversation goes from the list only with
   the answer to a load of that conversation, the server's part of which was done before
   the message was stored, or after a filter has taken the loading flag down.  Polls,
   events, sends and failures take nothing away. *)
VanishesByOlderLoad ==
    [][\A m \in Messages :
          shown[m] > 0 /\ shown'[m] = 0 /\ SessionOf[m] = selected' =>
             \/ \E n \in Slots : /\ calls[n].kind = "load"
                                 /\ calls[n].session = selected
                                 /\ m \in stored \ calls[n].rows
                                 /\ calls'[n] = NoCall
             \/ changes > 0]_vars

LEMMA VanishStep ==
    ASSUME TypeOK, SerialInv, ListInv, [Next]_vars, NEW m \in Messages,
           shown[m] > 0, shown'[m] = 0, SessionOf[m] = selected'
    PROVE  \/ \E n \in Slots : /\ calls[n].kind = "load"
                               /\ calls[n].session = selected
                               /\ m \in stored \ calls[n].rows
                               /\ calls'[n] = NoCall
           \/ changes > 0
<1>0. /\ shown[m] \in Nat /\ changes \in Nat /\ m \in stored
      /\ selected' # NoSession
  BY InboxAssumption DEF TypeOK, InboxAssumption, ListInv
<1>1. shown' # shown
  BY <1>0
<1>2. ~Leave
  BY <1>0 DEF Leave
<1>3. ASSUME NEW m2 \in Messages, NEW again \in BOOLEAN, Broadcast(m2, again)
      PROVE  FALSE
  BY <1>0, <1>3 DEF Broadcast, Merged
<1>4. ASSUME NEW n \in Slots, Answered(n), changes = 0
      PROVE  /\ calls[n].kind = "load"
             /\ calls[n].session = selected
             /\ m \in stored \ calls[n].rows
             /\ calls'[n] = NoCall
  <2>1. calls'[n] = NoCall
    BY <1>4 DEF Answered, TypeOK
  <2>2. CASE calls[n].kind = "load"
    <3>1. calls[n].session = selected
      BY <1>4, <2>2 DEF SerialInv, OneSpins
    <3>2. m \notin calls[n].rows
      BY <1>0, <1>4, <2>2, AnswerShown DEF Replaced
    <3>. QED
      BY <1>0, <2>1, <2>2, <3>1, <3>2
  <2>3. CASE calls[n].kind = "poll"
    BY <1>0, <1>4, <2>3, AnswerShown DEF Merged
  <2>4. CASE calls[n].kind = "send"
    BY <1>0, <1>4, <2>4, AnswerShown DEF Appended
  <2>5. CASE calls[n].kind = "close"
    BY <1>0, <1>4, <2>5 DEF Answered
  <2>6. CASE calls[n].kind \notin {"load", "poll", "send", "close"}
    BY <1>0, <1>4, <2>6, AnswerShown
  <2>. QED
    BY <2>2, <2>3, <2>4, <2>5, <2>6
<1>5. ~AgentStep
  BY <1>1, <1>2 DEF AgentStep, Open, Refresh, SelectSession, SendMessage, CloseSession,
     AssignSession, ChangeFilter, Search, viewVars
<1>6. ~ServerStep
  BY <1>1, <1>3 DEF ServerStep, Serve, Refuse, CustomerWrites, viewVars
<1>7. CASE PageStep
  <2>1. \E n \in Slots : Answered(n)
    BY <1>1, <1>7 DEF PageStep, SecondPasses, DebounceFires, Poll, Failed, viewVars
  <2>. QED
    BY <1>0, <1>4, <2>1
<1>8. ~(FeedStep \/ UNCHANGED vars)
  BY <1>1 DEF FeedStep, vars, viewVars
<1>. QED
  BY <1>5, <1>6, <1>7, <1>8 DEF Next

\* Whatever is under way when the agent leaves, sends or loses an answer: no message is in
\* the list that is not in the table.
THEOREM ShownIsStored == Spec => []ShowsStored
<1>1. ListInv => ShowsStored
  BY DEF ListInv, ShowsStored
<1>. QED
  BY <1>1, InitList, NextList, TypeAlways, PTL DEF Spec

\* The converse of ForeignSafe: what belongs in the list is taken out by the answer to an
\* older load only, for any number of requests in flight.
THEOREM VanishSafe == Spec => VanishesByOlderLoad
<1>1. TypeOK /\ SerialInv /\ ListInv /\ [Next]_vars
        => [\A m \in Messages :
              shown[m] > 0 /\ shown'[m] = 0 /\ SessionOf[m] = selected' =>
                 \/ \E n \in Slots : /\ calls[n].kind = "load"
                                     /\ calls[n].session = selected
                                     /\ m \in stored \ calls[n].rows
                                     /\ calls'[n] = NoCall
                 \/ changes > 0]_vars
  BY VanishStep
<1>. QED
  BY <1>1, InitSerial, NextSerial, InitList, NextList, TypeAlways, PTL DEF Spec,
     VanishesByOlderLoad

=============================================================================
