--------------------------- MODULE RealtimeSocket ---------------------------
(***************************************************************************)
(* The WebSocket of the agent's browser tab: the hook useWebSocket inside  *)
(* the RealtimeMessageProvider.                                            *)
(*                                                                         *)
(* A socket object keeps the callbacks it was given when it was made, and  *)
(* they are closures of one render.  Its onclose sees the value that       *)
(* reconnectAttempts had then (seen), its onmessage the Map of handlers    *)
(* that was current then (captured, see RealtimeFeed).  Later renders      *)
(* change the state and not the closures.                                  *)
(***************************************************************************)
EXTENDS Integers, FiniteSets

CONSTANTS
    Sessions,             \* conversations, the keys of their message handlers
    Global,               \* the key '*' of the inbox's global handler
    maxReconnectAttempts, \* the constant of that name
    MaxFaults,            \* bound: connections lost, refused or without a token
    MaxMounts             \* bound: how often the agent pages are entered

ASSUME SocketAssumption ==
    /\ Global \notin Sessions
    /\ maxReconnectAttempts \in Nat
    /\ MaxFaults \in Nat
    /\ MaxMounts \in Nat

VARIABLES
    sock,      \* state of wsRef.current
    timer,     \* the timeout that will call connect: the first one, a retry, none
    attempts,  \* the state reconnectAttempts
    seen,      \* reconnectAttempts in the onclose closure of the socket
    intervals, \* heartbeat intervals that run
    beat,      \* whether heartbeatIntervalRef holds one of them
    opened,    \* history: sockets that reached onopen
    asking,    \* the channel whose authorisation is awaited
    channels,  \* channels the server has this socket subscribed to
    handlers, captured, aliased, \* of RealtimeFeed
    faults, mounts \* counters of the bounds

connectionVars == <<sock, timer, attempts, seen>>
heartbeatVars == <<intervals, beat, opened>>
channelVars == <<asking, channels>>
mapVars == <<handlers, captured, aliased>>
boundVars == <<faults, mounts>>
vars == <<connectionVars, heartbeatVars, channelVars, mapVars, boundVars>>

\* Events arrive once the connection is established and a channel subscribed.
Listening == sock = "established" /\ channels # {}

Feed == INSTANCE RealtimeFeed WITH
    Sessions <- Sessions, Global <- Global, listening <- Listening,
    handlers <- handlers, captured <- captured, aliased <- aliased

-----------------------------------------------------------------------------
Channels == {"organization", "inbox"}
Live == sock \in {"connecting", "open", "established"}

TypeOK ==
    /\ sock \in {"none", "connecting", "open", "established", "closed"}
    /\ timer \in {"start", "retry", "none"}
    /\ attempts \in 0..maxReconnectAttempts
    /\ seen \in 0..maxReconnectAttempts
    /\ intervals \in Nat
    /\ beat \in BOOLEAN
    /\ opened \in Nat
    /\ asking \in Channels \cup {"none"}
    /\ channels \subseteq Channels
    /\ Feed!TypeOK
    /\ faults \in 0..MaxFaults
    /\ mounts \in 0..MaxMounts

\* The layout is mounted and the organization known: connect is 500 ms away.
Init ==
    /\ sock = "none"
    /\ timer = "start"
    /\ attempts = 0
    /\ seen = 0
    /\ intervals = 0
    /\ beat = FALSE
    /\ opened = 0
    /\ asking = "none"
    /\ channels = {}
    /\ Feed!Init
    /\ faults = 0
    /\ mounts = 0

-----------------------------------------------------------------------------
Fault == faults < MaxFaults /\ faults' = faults + 1 /\ UNCHANGED mounts

\* Mutant: connect is memoized without reconnectAttempts.
ConnectMemoized ==
    /\ timer # "none"
    /\ ~Live
    /\ sock' = "connecting"
    /\ timer' = "none"
    /\ intervals' = intervals + 1
    /\ beat' = TRUE
    /\ Feed!Bind
    /\ UNCHANGED <<attempts, seen, opened, channelVars, boundVars>>

\* connect() with a token: the new socket gets the callbacks of this render.
Connect ==
    /\ timer # "none"
    /\ ~Live
    /\ sock' = "connecting"
    /\ timer' = "none"
    /\ seen' = attempts
    /\ intervals' = intervals + 1
    /\ beat' = TRUE
    /\ Feed!Bind
    /\ UNCHANGED <<attempts, opened, channelVars, boundVars>>

\* connect() finds no token: it returns, and nothing calls it again.
ConnectWithoutToken ==
    /\ timer # "none"
    /\ ~Live
    /\ Fault
    /\ timer' = "none"
    /\ UNCHANGED <<sock, attempts, seen, heartbeatVars, channelVars, mapVars>>

\* onopen: a second interval takes the place of the first in the ref.
Opened ==
    /\ sock = "connecting"
    /\ sock' = "open"
    /\ intervals' = intervals + 1
    /\ beat' = TRUE
    /\ opened' = opened + 1
    /\ UNCHANGED <<timer, attempts, seen, channelVars, mapVars, boundVars>>

\* pusher:connection_established.
Established ==
    /\ sock = "open"
    /\ sock' = "established"
    /\ attempts' = 0
    /\ asking' = "organization"
    /\ Feed!Reregister
    /\ UNCHANGED <<timer, seen, heartbeatVars, channels, boundVars>>

\* Mutant: an inbox channel that was refused is asked for again.
AuthorizedUntilGranted(granted) ==
    /\ asking # "none"
    /\ channels' = IF granted THEN channels \cup {asking} ELSE channels
    /\ asking' = IF asking = "organization" THEN "inbox"
                 ELSE IF granted THEN "none" ELSE "organization"
    /\ UNCHANGED <<connectionVars, heartbeatVars, mapVars, boundVars>>

\* The answer to /broadcasting/auth: the channel is subscribed or left out for
\* good, and the next one is asked for.
Authorized(granted) ==
    /\ asking # "none"
    /\ channels' = IF granted THEN channels \cup {asking} ELSE channels
    /\ asking' = IF asking = "organization" THEN "inbox" ELSE "none"
    /\ UNCHANGED <<connectionVars, heartbeatVars, mapVars, boundVars>>

\* Mutant: the comparison is off by one.
ShouldReconnectOffByOne(unexpected) == unexpected /\ seen <= maxReconnectAttempts

\* onclose.  A socket closed by a code other than 1000 and 1001 is retried
\* while the attempts its closure has seen are below the maximum.
ShouldReconnect(unexpected) == unexpected /\ seen < maxReconnectAttempts

Closed(unexpected) ==
    /\ Live
    /\ Fault
    /\ sock' = "closed"
    /\ beat' = FALSE
    /\ intervals' = IF beat THEN intervals - 1 ELSE intervals
    /\ asking' = "none"
    /\ channels' = {}
    /\ IF sock = "established" THEN Feed!Reregister ELSE UNCHANGED mapVars
    /\ IF ShouldReconnect(unexpected)
       THEN timer' = "retry" /\ attempts' = attempts + 1
       ELSE UNCHANGED <<timer, attempts>>
    /\ UNCHANGED <<seen, opened>>

\* Mutant: disconnect does not clear the interval.
DisconnectBeating ==
    /\ mounts < MaxMounts
    /\ mounts' = mounts + 1
    /\ sock' = "none"
    /\ timer' = "start"
    /\ attempts' = 0
    /\ seen' = 0
    /\ beat' = FALSE
    /\ asking' = "none"
    /\ channels' = {}
    /\ Feed!Reset
    /\ UNCHANGED <<intervals, opened, faults>>

\* Mutant: disconnect does not close the socket.
DisconnectLeavingOpen ==
    /\ mounts < MaxMounts
    /\ mounts' = mounts + 1
    /\ timer' = "start"
    /\ attempts' = 0
    /\ handlers' = {}
    /\ UNCHANGED <<sock, seen, heartbeatVars, channelVars, captured, aliased, faults>>

\* disconnect() when the agent pages are left, and a new mount when they are
\* entered again.  The intervals no ref holds go on.
Disconnect ==
    /\ mounts < MaxMounts
    /\ mounts' = mounts + 1
    /\ sock' = "none"
    /\ timer' = "start"
    /\ attempts' = 0
    /\ seen' = 0
    /\ beat' = FALSE
    /\ intervals' = IF beat THEN intervals - 1 ELSE intervals
    /\ asking' = "none"
    /\ channels' = {}
    /\ Feed!Reset
    /\ UNCHANGED <<opened, faults>>

\* The pages register and unregister handlers.
ConsumerStep ==
    /\ UNCHANGED <<connectionVars, heartbeatVars, channelVars, boundVars>>
    /\ Feed!ConsumerStep

Next ==
    \/ Connect
    \/ ConnectWithoutToken
    \/ Opened
    \/ Established
    \/ \E granted \in BOOLEAN : Authorized(granted)
    \/ \E unexpected \in BOOLEAN : Closed(unexpected)
    \/ Disconnect
    \/ ConsumerStep

Spec == Init /\ [][Next]_vars

\* The browser fires the timers, and the network answers one way or the other.
Fairness ==
    /\ WF_vars(Connect \/ ConnectWithoutToken)
    /\ WF_vars(Opened \/ Established \/ \E u \in BOOLEAN : Closed(u))
    /\ WF_vars(\E granted \in BOOLEAN : Authorized(granted))

FairSpec == Spec /\ Fairness

-----------------------------------------------------------------------------
(* Properties *)

(* handleClose tests the attempts of its closure and adds to those of the
   state.  The counter of a live socket is the value its closure has seen or
   the zero an established connection has reset it to, and so a retry never
   counts past the maximum. *)
CounterInStep == Live => attempts \in {seen, 0}

(* Every socket that was opened leaves one interval behind that nothing can
   clear, a refused socket none, and the live socket has one more, which its
   close will clear. *)
OneLeakPerSocket ==
    /\ intervals = opened + (IF Live THEN 1 ELSE 0)
    /\ beat <=> Live

(* What the pages get is what RealtimeFeed promises. *)
ImplementsFeed == Feed!Spec
ServesOne == Feed!ServesOne

(* A timer, a handshake or an authorisation under way comes to an end: the
   connection is established and has asked for both channels, or there is no
   socket and nothing pending. *)
ConnectingEnds ==
    (timer # "none" \/ sock \in {"connecting", "open"} \/ asking # "none")
       ~> \/ sock = "established" /\ asking = "none"
          \/ ~Live /\ timer = "none"
=============================================================================
