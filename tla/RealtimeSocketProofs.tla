------------------------ MODULE RealtimeSocketProofs ------------------------
(***************************************************************************)
(* Proofs about RealtimeSocket, for every set of conversations, every      *)
(* maximum of attempts and every bound on faults and mounts.               *)
(***************************************************************************)
EXTENDS RealtimeSocket, TLAPS

USE SocketAssumption DEF SocketAssumption

-----------------------------------------------------------------------------
(* The counter and the heartbeats.  A step may count a retry up and a heartbeat
   down, so that the types need the two invariants, and these the types. *)
SocketInv == TypeOK /\ CounterInStep /\ OneLeakPerSocket

LEMMA InitSocket == Init => SocketInv
<1>. SUFFICES ASSUME Init PROVE SocketInv
  OBVIOUS
<1>1. Feed!TypeOK
  BY DEF Init, Feed!Init, Feed!TypeOK, Feed!Keys
<1>2. sock = "none" /\ intervals = 0 /\ opened = 0 /\ beat = FALSE
  BY DEF Init
<1>3. CounterInStep /\ OneLeakPerSocket
  BY <1>2 DEF CounterInStep, OneLeakPerSocket, Live
<1>4. channels \subseteq Channels
  BY DEF Init
<1>5. asking \in Channels \cup {"none"} /\ beat \in BOOLEAN
  BY DEF Init
<1>6. attempts \in 0..maxReconnectAttempts /\ seen \in 0..maxReconnectAttempts
  BY DEF Init
<1>7. faults \in 0..MaxFaults /\ mounts \in 0..MaxMounts /\ intervals \in Nat /\ opened \in Nat
  BY DEF Init
<1>. QED
  BY <1>1, <1>3, <1>4, <1>5, <1>6, <1>7 DEF Init, SocketInv, TypeOK

\* Whatever becomes of the Map of handlers keeps its type.
LEMMA FeedTyped ==
    ASSUME Feed!TypeOK,
           \/ UNCHANGED mapVars
           \/ Feed!Bind
           \/ Feed!Reregister
           \/ Feed!ConsumerStep
           \/ handlers' = {} /\ captured' = {} /\ aliased' = FALSE
    PROVE  Feed!TypeOK'
<1>1. Listening' \in BOOLEAN
  BY DEF Listening
<1>2. handlers' \subseteq Feed!Keys /\ captured' \subseteq Feed!Keys /\ aliased' \in BOOLEAN
  BY DEF Feed!TypeOK, Feed!Bind, Feed!Reregister, Feed!ConsumerStep, Feed!Register,
         Feed!Unregister, Feed!Replace, Feed!Keys, mapVars
<1>. QED
  BY <1>1, <1>2 DEF Feed!TypeOK

LEMMA ConnectSocket ==
    ASSUME SocketInv, Connect \/ ConnectWithoutToken
    PROVE  SocketInv'
<1>1. CASE Connect
  <2>1. Feed!TypeOK'
    BY <1>1, FeedTyped DEF Connect, SocketInv, TypeOK
  <2>. QED
    BY <1>1, <2>1 DEF Connect, SocketInv, TypeOK, CounterInStep, OneLeakPerSocket, Live,
       Channels, channelVars, boundVars
<1>2. CASE ConnectWithoutToken
  <2>1. Feed!TypeOK'
    BY <1>2, FeedTyped DEF ConnectWithoutToken, SocketInv, TypeOK
  <2>. QED
    BY <1>2, <2>1 DEF ConnectWithoutToken, Fault, SocketInv, TypeOK, CounterInStep,
       OneLeakPerSocket, Live, Channels, heartbeatVars, channelVars
<1>. QED
  BY <1>1, <1>2

LEMMA OpenSocket ==
    ASSUME SocketInv, Opened \/ Established \/ \E granted \in BOOLEAN : Authorized(granted)
    PROVE  SocketInv'
<1>1. CASE Opened
  <2>1. Feed!TypeOK'
    BY <1>1, FeedTyped DEF Opened, SocketInv, TypeOK
  <2>. QED
    BY <1>1, <2>1 DEF Opened, SocketInv, TypeOK, CounterInStep, OneLeakPerSocket, Live,
       Channels, channelVars, boundVars
<1>2. CASE Established
  <2>1. Feed!TypeOK'
    BY <1>2, FeedTyped DEF Established, SocketInv, TypeOK
  <2>. QED
    BY <1>2, <2>1 DEF Established, SocketInv, TypeOK, CounterInStep, OneLeakPerSocket, Live,
       Channels, heartbeatVars, boundVars
<1>3. ASSUME NEW granted \in BOOLEAN, Authorized(granted)
      PROVE  SocketInv'
  <2>1. Feed!TypeOK'
    BY <1>3, FeedTyped DEF Authorized, SocketInv, TypeOK
  <2>. QED
    BY <1>3, <2>1 DEF Authorized, SocketInv, TypeOK, CounterInStep, OneLeakPerSocket, Live,
       Channels, connectionVars, heartbeatVars, boundVars
<1>. QED
  BY <1>1, <1>2, <1>3

\* The retry that is counted: the attempts are those the closure has seen, which are
\* below the maximum, or they are zero.
LEMMA ClosedSocket ==
    ASSUME SocketInv, NEW unexpected \in BOOLEAN, Closed(unexpected)
    PROVE  SocketInv'
<1>1. Feed!TypeOK'
  BY FeedTyped DEF Closed, SocketInv, TypeOK
<1>2. attempts' \in 0..maxReconnectAttempts /\ timer' \in {"start", "retry", "none"}
  BY DEF Closed, ShouldReconnect, SocketInv, TypeOK, CounterInStep
<1>3. beat /\ intervals' = opened /\ opened \in Nat
  BY DEF Closed, SocketInv, TypeOK, OneLeakPerSocket, Live
<1>4. channels' \subseteq Channels /\ asking' \in Channels \cup {"none"} /\ beat' \in BOOLEAN
  BY DEF Closed
<1>5. sock' = "closed" /\ beat' = FALSE /\ opened' = opened /\ seen' = seen
  BY DEF Closed
<1>6. CounterInStep' /\ OneLeakPerSocket'
  BY <1>3, <1>5 DEF CounterInStep, OneLeakPerSocket, Live
<1>7. faults' \in 0..MaxFaults /\ mounts' \in 0..MaxMounts /\ seen' \in 0..maxReconnectAttempts
  BY <1>5 DEF Closed, Fault, SocketInv, TypeOK
<1>. QED
  BY <1>1, <1>2, <1>3, <1>4, <1>5, <1>6, <1>7 DEF SocketInv, TypeOK

LEMMA DisconnectSocket ==
    ASSUME SocketInv, Disconnect
    PROVE  SocketInv'
<1>1. Feed!TypeOK'
  BY FeedTyped DEF Disconnect, Feed!Reset, SocketInv, TypeOK
<1>2. intervals' = opened /\ opened \in Nat
  BY DEF Disconnect, SocketInv, TypeOK, OneLeakPerSocket
<1>3. channels' \subseteq Channels /\ asking' \in Channels \cup {"none"} /\ beat' \in BOOLEAN
  BY DEF Disconnect
<1>4. sock' = "none" /\ beat' = FALSE /\ opened' = opened /\ timer' = "start"
  BY DEF Disconnect
<1>5. CounterInStep' /\ OneLeakPerSocket'
  BY <1>2, <1>4 DEF CounterInStep, OneLeakPerSocket, Live
<1>6. /\ attempts' \in 0..maxReconnectAttempts /\ seen' \in 0..maxReconnectAttempts
      /\ faults' \in 0..MaxFaults /\ mounts' \in 0..MaxMounts
  BY DEF Disconnect, SocketInv, TypeOK
<1>. QED
  BY <1>1, <1>2, <1>3, <1>4, <1>5, <1>6 DEF SocketInv, TypeOK

LEMMA ConsumerSocket ==
    ASSUME SocketInv, ConsumerStep \/ UNCHANGED vars
    PROVE  SocketInv'
<1>1. Feed!TypeOK'
  BY FeedTyped DEF ConsumerStep, vars, SocketInv, TypeOK
<1>2. UNCHANGED <<connectionVars, heartbeatVars, channelVars, boundVars>>
  BY DEF ConsumerStep, vars
<1>. QED
  BY <1>1, <1>2 DEF connectionVars, heartbeatVars, channelVars, boundVars,
     SocketInv, TypeOK, CounterInStep, OneLeakPerSocket, Live, Channels

LEMMA NextSocket == SocketInv /\ [Next]_vars => SocketInv'
  BY ConnectSocket, OpenSocket, ClosedSocket, DisconnectSocket, ConsumerSocket DEF Next

LEMMA SocketAlways == Spec => []SocketInv
  BY InitSocket, NextSocket, PTL DEF Spec

\* The state keeps its types; the number of attempts stays within the maximum although
\* the comparison looks at another number than the one that is incremented.
THEOREM TypeCorrect == Spec => []TypeOK
  BY SocketAlways, PTL DEF SocketInv

\* The counter of a live socket is what its callbacks have captured, or zero.
THEOREM CounterSafe == Spec => []CounterInStep
  BY SocketAlways, PTL DEF SocketInv

\* There are as many heartbeats too many as sockets that were opened.
THEOREM LeaksCounted == Spec => []OneLeakPerSocket
  BY SocketAlways, PTL DEF SocketInv

-----------------------------------------------------------------------------
(* One conversation per socket *)

\* The Map of the present serves one conversation as well, and is the one the socket
\* has captured while they are the same object.
MapInv ==
    /\ \A k1, k2 \in handlers \cap Sessions : k1 = k2
    /\ aliased => captured = handlers
    /\ ServesOne

LEMMA InitMap == Init => MapInv
  BY DEF Init, Feed!Init, MapInv, ServesOne, Feed!ServesOne

LEMMA FeedMap ==
    ASSUME MapInv, UNCHANGED mapVars \/ Feed!Bind \/ Feed!Reregister \/ Feed!Reset
    PROVE  MapInv'
<1>1. CASE UNCHANGED mapVars
  BY <1>1 DEF MapInv, ServesOne, Feed!ServesOne, mapVars
<1>2. CASE Feed!Bind
  BY <1>2 DEF MapInv, ServesOne, Feed!ServesOne, Feed!Bind
<1>3. CASE Feed!Reregister
  BY <1>3 DEF MapInv, ServesOne, Feed!ServesOne, Feed!Reregister
<1>4. CASE Feed!Reset
  BY <1>4 DEF MapInv, ServesOne, Feed!ServesOne, Feed!Reset
<1>. QED
  BY <1>1, <1>2, <1>3, <1>4

LEMMA ConsumerMap ==
    ASSUME MapInv, Feed!ConsumerStep
    PROVE  MapInv'
<1>1. ASSUME NEW k \in Feed!Keys \ handlers, k \in Sessions => handlers \cap Sessions = {},
             Feed!Register(k)
      PROVE  MapInv'
  BY <1>1 DEF MapInv, ServesOne, Feed!ServesOne, Feed!Register
<1>2. ASSUME NEW k \in handlers \cap Sessions, Feed!Unregister(k)
      PROVE  MapInv'
  BY <1>2 DEF MapInv, ServesOne, Feed!ServesOne, Feed!Unregister
<1>3. ASSUME NEW k \in handlers \cap Sessions, NEW k2 \in Sessions, Feed!Replace(k, k2)
      PROVE  MapInv'
  BY <1>3 DEF MapInv, ServesOne, Feed!ServesOne, Feed!Replace
<1>. QED
  BY <1>1, <1>2, <1>3 DEF Feed!ConsumerStep

LEMMA NextMap == MapInv /\ [Next]_vars => MapInv'
<1>. SUFFICES ASSUME MapInv, [Next]_vars PROVE MapInv'
  OBVIOUS
<1>1. \/ UNCHANGED mapVars \/ Feed!Bind \/ Feed!Reregister \/ Feed!Reset
      \/ Feed!ConsumerStep
  BY DEF Next, Connect, ConnectWithoutToken, Opened, Established, Authorized, Closed,
         Disconnect, ConsumerStep, vars
<1>. QED
  BY <1>1, FeedMap, ConsumerMap

\* A socket that lives has handlers of one conversation at most: who selects another one
\* is served by polling only.
THEOREM OneServed == Spec => []ServesOne
<1>1. MapInv => ServesOne
  BY DEF MapInv
<1>. QED
  BY <1>1, InitMap, NextMap, PTL DEF Spec

-----------------------------------------------------------------------------
(* The refinement *)

\* Subscriptions and requests for them belong to an established connection.
Subscribed == asking # "none" \/ channels # {} => sock = "established"

LEMMA NextSubscribed == Subscribed /\ [Next]_vars => Subscribed'
  BY DEF Subscribed, Next, Connect, Live, ConnectWithoutToken, Opened, Established, Authorized,
         Closed, Disconnect, ConsumerStep, vars, connectionVars, heartbeatVars, channelVars,
         boundVars

\* Each step of the socket is a step of the feed or leaves it alone.
LEMMA FeedSimulated ==
    ASSUME SocketInv, Subscribed, [Next]_vars
    PROVE  [Feed!Next]_(Feed!feedVars)
<1>1. CASE Connect
  <2>1. Listening = FALSE /\ Listening' = FALSE /\ Feed!Bind
    BY <1>1 DEF Connect, Live, Listening
  <2>. QED
    BY <2>1 DEF Feed!NewSocket, Feed!FeedStep, Feed!Next
<1>2. CASE ConnectWithoutToken
  BY <1>2 DEF ConnectWithoutToken, Listening, channelVars, mapVars, Feed!feedVars, Feed!mapVars
<1>3. CASE Opened
  BY <1>3 DEF Opened, Listening, mapVars, Feed!feedVars, Feed!mapVars
<1>4. CASE Established
  <2>1. Listening = FALSE /\ Listening' = FALSE /\ Feed!Reregister
    BY <1>4 DEF Established, Subscribed, Listening
  <2>. QED
    BY <2>1 DEF Feed!ConnectionChanges, Feed!FeedStep, Feed!Next
<1>5. ASSUME NEW granted \in BOOLEAN, Authorized(granted)
      PROVE  [Feed!Next]_(Feed!feedVars)
  <2>1. (Listening => Listening') /\ UNCHANGED mapVars
    BY <1>5 DEF Authorized, Listening, connectionVars
  <2>2. Listening \in BOOLEAN /\ Listening' \in BOOLEAN
    BY DEF Listening
  <2>. QED
    BY <2>1, <2>2 DEF Feed!StartListening, Feed!FeedStep, Feed!Next, mapVars, Feed!mapVars,
       Feed!feedVars
<1>6. ASSUME NEW unexpected \in BOOLEAN, Closed(unexpected)
      PROVE  [Feed!Next]_(Feed!feedVars)
  <2>1. ~Listening'
    BY <1>6 DEF Closed, Listening
  <2>2. CASE sock = "established"
    <3>1. Feed!Reregister
      BY <1>6, <2>2 DEF Closed
    <3>. QED
      BY <2>1, <3>1 DEF Feed!StopListening, Feed!ConnectionChanges, Feed!FeedStep, Feed!Next,
         Listening
  <2>3. CASE sock # "established"
    BY <1>6, <2>1, <2>3 DEF Closed, Listening, mapVars, Feed!mapVars, Feed!feedVars
  <2>. QED
    BY <2>2, <2>3
<1>7. CASE Disconnect
  BY <1>7 DEF Disconnect, Feed!Next
<1>8. CASE ConsumerStep
  BY <1>8 DEF ConsumerStep, Feed!Next
<1>9. CASE UNCHANGED vars
  BY <1>9 DEF vars, connectionVars, channelVars, mapVars, Listening, Feed!feedVars, Feed!mapVars
<1>. QED
  BY <1>1, <1>2, <1>3, <1>4, <1>5, <1>6, <1>7, <1>8, <1>9 DEF Next

\* The socket implements the feed for any number of conversations, retries and mounts.
THEOREM RefinesFeed == Spec => ImplementsFeed
<1>1. Init => Feed!Init /\ Subscribed
  BY DEF Init, Subscribed, Listening, Feed!Init
<1>. QED
  BY <1>1, SocketAlways, NextSubscribed, FeedSimulated, PTL DEF Spec, ImplementsFeed, Feed!Spec

-----------------------------------------------------------------------------
(* The way to a connection *)

\* The steps of browser and network between a timer that runs and a connection that has
\* asked for both channels.
ToCome ==
    IF timer # "none" THEN 5
    ELSE IF sock = "connecting" THEN 4
    ELSE IF sock = "open" THEN 3
    ELSE IF asking = "organization" THEN 2
    ELSE IF asking = "inbox" THEN 1 ELSE 0

(* No timer runs beside a socket that lives, so that connect() never finds one and
   gives up in vain; and when nothing is to come the tab is connected and has asked for
   its channels, or there is no socket and nobody will make one. *)
NothingPending ==
    /\ Live => timer = "none"
    /\ ToCome = 0 => \/ sock = "established" /\ asking = "none"
                     \/ ~Live /\ timer = "none"

(* The socket goes in circles only as often as the connection fails or the pages are
   entered again: every other step brings a connection closer to its end, five steps
   away at most, or has to do with the handlers of the pages. *)
ConnectingAdvances ==
    [][\/ ToCome' < ToCome
       \/ UNCHANGED <<sock, timer, asking>>
       \/ faults' = faults + 1
       \/ mounts' = mounts + 1]_vars

OneOrNone == (Live => timer = "none") /\ Subscribed

LEMMA NextOneOrNone == TypeOK /\ OneOrNone /\ [Next]_vars => OneOrNone'
<1>. SUFFICES ASSUME TypeOK, OneOrNone, [Next]_vars PROVE (Live => timer = "none")'
  BY NextSubscribed DEF OneOrNone
<1>. QED
  BY DEF OneOrNone, Next, Connect, Live, ConnectWithoutToken, Opened, Established, Authorized,
         Closed, Disconnect, ConsumerStep, vars, connectionVars, heartbeatVars, channelVars,
         boundVars

LEMMA StepAdvances ==
    ASSUME TypeOK, OneOrNone, Next
    PROVE  \/ ToCome' < ToCome
           \/ UNCHANGED <<sock, timer, asking>>
           \/ faults' = faults + 1
           \/ mounts' = mounts + 1
<1>1. CASE Connect
  BY <1>1 DEF Connect, ToCome, TypeOK
<1>2. CASE Opened
  <2>1. sock = "connecting" /\ timer = "none"
    BY <1>2 DEF Opened, OneOrNone, Live
  <2>2. sock' = "open" /\ timer' = "none"
    BY <1>2, <2>1 DEF Opened
  <2>. QED
    BY <2>1, <2>2 DEF ToCome
<1>3. CASE Established
  <2>1. sock = "open" /\ timer = "none"
    BY <1>3 DEF Established, OneOrNone, Live
  <2>2. sock' = "established" /\ timer' = "none" /\ asking' = "organization"
    BY <1>3, <2>1 DEF Established
  <2>. QED
    BY <2>1, <2>2 DEF ToCome
<1>4. ASSUME NEW granted \in BOOLEAN, Authorized(granted)
      PROVE  ToCome' < ToCome
  <2>1. sock = "established" /\ timer = "none"
    BY <1>4 DEF Authorized, OneOrNone, Subscribed, Live
  <2>2. sock' = "established" /\ timer' = "none"
    BY <1>4, <2>1 DEF Authorized, connectionVars
  <2>3. \/ asking = "organization" /\ asking' = "inbox"
        \/ asking = "inbox" /\ asking' = "none"
    BY <1>4 DEF Authorized, TypeOK, Channels
  <2>. QED
    BY <2>1, <2>2, <2>3 DEF ToCome
<1>5. ConnectWithoutToken \/ (\E unexpected \in BOOLEAN : Closed(unexpected))
        => faults' = faults + 1
  BY DEF ConnectWithoutToken, Closed, Fault
<1>6. Disconnect => mounts' = mounts + 1
  BY DEF Disconnect
<1>7. ConsumerStep => UNCHANGED <<sock, timer, asking>>
  BY DEF ConsumerStep, connectionVars, channelVars
<1>. QED
  BY <1>1, <1>2, <1>3, <1>4, <1>5, <1>6, <1>7 DEF Next

\* The safety part of ConnectingEnds, for any number of retries: what is left to fairness
\* is that timers fire and the network answers.
THEOREM ConnectionAdvances == Spec => []NothingPending /\ ConnectingAdvances
<1>1. Init => OneOrNone
  BY DEF Init, OneOrNone, Subscribed, Live
<1>2. TypeOK /\ OneOrNone => NothingPending
  BY DEF NothingPending, OneOrNone, ToCome, TypeOK, Live, Channels
<1>3. TypeOK /\ OneOrNone /\ [Next]_vars
        => [\/ ToCome' < ToCome
            \/ UNCHANGED <<sock, timer, asking>>
            \/ faults' = faults + 1
            \/ mounts' = mounts + 1]_vars
  BY StepAdvances
<1>. QED
  BY <1>1, <1>2, <1>3, NextOneOrNone, TypeCorrect, PTL DEF Spec, ConnectingAdvances

=============================================================================
