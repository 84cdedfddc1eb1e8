----------------------- MODULE OutgoingMessagesProofs -----------------------
(***************************************************************************)
(* Proofs about OutgoingMessages, for every set of replies and of web      *)
(* processes, every number of endpoints, formats and posts, and every      *)
(* bound on echoes and faults.                                             *)
(***************************************************************************)
EXTENDS OutgoingMessages, TLAPS

-----------------------------------------------------------------------------
(* Type correctness *)

\* One more at one place keeps a function to the natural numbers.
LEMMA CountType ==
    ASSUME NEW S, NEW f \in [S -> Nat], NEW k
    PROVE  [f EXCEPT ![k] = @ + 1] \in [S -> Nat]
<1>1. CASE k \in S
  BY <1>1
<1>2. CASE k \notin S
  BY <1>2
<1>. QED
  BY <1>1, <1>2

LEMMA OutType ==
    ASSUME NEW state \in {"none", "sent", "ended"}
    PROVE  Out(state) \in Send
  BY OutgoingAssumption DEF Out, Send, First, Place

LEMMA GoingType ==
    ASSUME NEW p \in Place
    PROVE  Going(p) \in Send
  BY DEF Going, Send

\* Wherever a post of the loop leads, it is a place of the loop or its end.
LEMMA NextEndpointType ==
    ASSUME NEW p \in Place
    PROVE  NextEndpoint(p) \in Send
<1>1. CASE p.endpoint < Endpoints
  <2>1. [endpoint |-> p.endpoint + 1, format |-> 1, post |-> 1] \in Place
    BY <1>1, OutgoingAssumption DEF Place
  <2>. QED
    BY <1>1, <2>1, GoingType DEF NextEndpoint
<1>2. CASE ~(p.endpoint < Endpoints)
  BY <1>2, OutType DEF NextEndpoint
<1>. QED
  BY <1>1, <1>2

LEMMA NextFormatType ==
    ASSUME NEW p \in Place
    PROVE  NextFormat(p) \in Send
<1>1. CASE p.format < Formats
  <2>1. [endpoint |-> p.endpoint, format |-> p.format + 1, post |-> 1] \in Place
    BY <1>1, OutgoingAssumption DEF Place
  <2>. QED
    BY <1>1, <2>1, GoingType DEF NextFormat
<1>2. CASE ~(p.format < Formats)
  BY <1>2, NextEndpointType DEF NextFormat
<1>. QED
  BY <1>1, <1>2

LEMMA NextPostType ==
    ASSUME NEW p \in Place
    PROVE  NextPost(p) \in Send
<1>1. CASE p.post < Posts
  <2>1. [p EXCEPT !.post = @ + 1] \in Place
    BY <1>1, OutgoingAssumption DEF Place
  <2>. QED
    BY <1>1, <2>1, GoingType DEF NextPost
<1>2. CASE ~(p.post < Posts)
  BY <1>2, NextFormatType DEF NextPost
<1>. QED
  BY <1>1, <1>2

\* The loop of a reply goes somewhere.
LEMMA SendType ==
    ASSUME TypeOK, NEW r \in BotReplies, NEW s \in Send, send' = [send EXCEPT ![r] = s]
    PROVE  send' \in [BotReplies -> Send]
  BY DEF TypeOK

LEMMA InitTypes == Init => TypeOK
<1>1. Out("none") \in Send
  BY OutType
<1>2. 0 \in 0..MaxEchoes /\ 0 \in 0..MaxFaults
  BY OutgoingAssumption
<1>. QED
  BY <1>1, <1>2 DEF Init, TypeOK

\* The replies, and how they are sent.
RepliesOK ==
    /\ own \subseteq Replies
    /\ send \in [BotReplies -> Send]
    /\ copies \in [Replies -> Nat]
    /\ unheard \in [Replies -> Nat]
    /\ jobs \subseteq AgentReplies

\* The reports, and how they are stored.
EchoesOK ==
    /\ handler \in [Handlers -> Handling \cup {Idle}]
    /\ rows \in [Echoes -> Nat]
    /\ reached \subseteq Echoes
    /\ missed \subseteq Echoes

BoundsOK == active \in BOOLEAN /\ echoes \in 0..MaxEchoes /\ faults \in 0..MaxFaults

LEMMA PostTypes ==
    ASSUME TypeOK, NEW r \in BotReplies, Post(r)
    PROVE  RepliesOK'
<1>1. r \in Replies /\ send[r].place \in Place
  BY DEF Replies, TypeOK, Send
<1>2. /\ copies' = copies \/ copies' = [copies EXCEPT ![r] = @ + 1]
      /\ unheard' = unheard \/ unheard' = [unheard EXCEPT ![r] = @ + 1]
      /\ UNCHANGED <<own, jobs>>
  BY DEF Post, PostSucceeds, PostThrows, PostFails, PostNotFound, Taken
<1>3. copies' \in [Replies -> Nat] /\ unheard' \in [Replies -> Nat]
  BY <1>2, CountType DEF TypeOK
<1>4. \E s \in Send : send' = [send EXCEPT ![r] = s]
  <2>1. CASE PostSucceeds(r)
    BY <2>1, OutType DEF PostSucceeds
  <2>2. CASE PostThrows(r)
    BY <1>1, <2>2, NextPostType DEF PostThrows
  <2>3. CASE PostFails(r)
    BY <1>1, <2>3, NextFormatType DEF PostFails
  <2>4. CASE PostNotFound(r)
    BY <1>1, <2>4, NextEndpointType DEF PostNotFound
  <2>. QED
    BY <2>1, <2>2, <2>3, <2>4 DEF Post
<1>5. send' \in [BotReplies -> Send]
  BY <1>4, SendType
<1>. QED
  BY <1>2, <1>3, <1>5 DEF RepliesOK, TypeOK

LEMMA AuthorTypes ==
    ASSUME TypeOK,
           \/ \E r \in BotReplies : WriteReply(r) \/ WorkerDies(r)
           \/ \E r \in AgentReplies : AgentWrites(r) \/ ListenerReturns(r)
    PROVE  RepliesOK'
<1>1. ASSUME NEW r \in BotReplies, WriteReply(r)
      PROVE  RepliesOK'
  <2>1. First \in Place
    BY OutgoingAssumption DEF First, Place
  <2>2. \E s \in Send : send' = [send EXCEPT ![r] = s]
    BY <1>1, <2>1, OutType, GoingType DEF WriteReply
  <2>. QED
    BY <1>1, <2>2, SendType DEF WriteReply, RepliesOK, TypeOK, Replies
<1>2. ASSUME NEW r \in BotReplies, WorkerDies(r)
      PROVE  RepliesOK'
  BY <1>2, OutType, SendType DEF WorkerDies, RepliesOK, TypeOK
<1>3. ASSUME NEW r \in AgentReplies, AgentWrites(r) \/ ListenerReturns(r)
      PROVE  RepliesOK'
  BY <1>3 DEF AgentWrites, ListenerReturns, RepliesOK, TypeOK, Replies
<1>. QED
  BY <1>1, <1>2, <1>3

LEMMA HandlerTypes ==
    ASSUME TypeOK, NEW h \in Handlers,
           Handle(h) \/ HandlerFails(h) \/ \E e \in Echoes : Receive(h, e)
    PROVE  EchoesOK'
<1>1. ASSUME NEW e \in Echoes, Receive(h, e)
      PROVE  EchoesOK'
  <2>1. [echo |-> e, pc |-> "check"] \in Handling
    BY DEF Handling
  <2>. QED
    BY <1>1, <2>1 DEF Receive, EchoesOK, TypeOK
<1>2. ASSUME Handle(h) \/ HandlerFails(h)
      PROVE  EchoesOK'
  <2>1. handler[h] \in Handling /\ Echo(h) \in Echoes
    BY <1>2 DEF Handle, Check, FindSession, Create, HandlerFails, At, Echo, TypeOK, Handling
  <2>2. ASSUME NEW pc \in {"session", "create"}, Goto(h, pc)
        PROVE  handler' \in [Handlers -> Handling \cup {Idle}]
    <3>1. [handler[h] EXCEPT !.pc = pc] \in Handling
      BY <2>1 DEF Handling
    <3>2. handler' = [handler EXCEPT ![h] = [handler[h] EXCEPT !.pc = pc]]
      BY <2>2 DEF Goto
    <3>. QED
      BY <3>1, <3>2 DEF TypeOK
  <2>3. ASSUME Done(h)
        PROVE  handler' \in [Handlers -> Handling \cup {Idle}]
    BY <2>3 DEF Done, TypeOK
  <2>4. Done(h) \/ \E pc \in {"session", "create"} : Goto(h, pc)
    BY <1>2 DEF Handle, Check, FindSession, Create, HandlerFails
  <2>5. handler' \in [Handlers -> Handling \cup {Idle}]
    BY <2>2, <2>3, <2>4
  <2>6. rows' \in [Echoes -> Nat]
    BY <1>2, <2>1 DEF Handle, Check, FindSession, Create, HandlerFails, TypeOK
  <2>7. reached' \subseteq Echoes /\ missed' \subseteq Echoes
    BY <1>2, <2>1 DEF Handle, Check, FindSession, Create, HandlerFails, TypeOK
  <2>. QED
    BY <2>5, <2>6, <2>7 DEF EchoesOK
<1>. QED
  BY <1>1, <1>2

LEMMA BoundsTypes ==
    ASSUME TypeOK, Next
    PROVE  BoundsOK'
<1>1. echoes \in Nat /\ faults \in Nat /\ MaxEchoes \in Nat /\ MaxFaults \in Nat
  BY OutgoingAssumption DEF TypeOK
<1>2. \/ UNCHANGED <<active, echoes, faults>>
      \/ echoes < MaxEchoes /\ echoes' = echoes + 1 /\ UNCHANGED <<active, faults>>
      \/ Fault /\ UNCHANGED echoes /\ (active' = active \/ active' = ~active)
  BY DEF Next, WriteReply, Post, PostSucceeds, PostThrows, PostFails, PostNotFound, WorkerDies,
     AgentWrites, ListenerReturns, Receive, Handle, Check, FindSession, Create, HandlerFails,
     SessionChanges
<1>3. active' \in BOOLEAN
  BY <1>2 DEF TypeOK
<1>4. echoes' \in 0..MaxEchoes /\ faults' \in 0..MaxFaults
  BY <1>1, <1>2 DEF Fault, TypeOK
<1>. QED
  BY <1>3, <1>4 DEF BoundsOK

\* Who writes and sends leaves the reports alone, and the other way round.
AuthorStep ==
    \/ \E r \in BotReplies : WriteReply(r) \/ Post(r) \/ WorkerDies(r)
    \/ \E r \in AgentReplies : AgentWrites(r) \/ ListenerReturns(r)

HandlerStep == \E h \in Handlers :
    Handle(h) \/ HandlerFails(h) \/ \E e \in Echoes : Receive(h, e)

LEMMA StepsApart ==
    /\ AuthorStep => UNCHANGED echoVars
    /\ HandlerStep => UNCHANGED replyVars
    /\ Next => AuthorStep \/ HandlerStep \/ UNCHANGED <<replyVars, echoVars>>
<1>1. AuthorStep => UNCHANGED echoVars
  BY DEF AuthorStep, WriteReply, Post, PostSucceeds, PostThrows, PostFails, PostNotFound,
     WorkerDies, AgentWrites, ListenerReturns
<1>2. HandlerStep => UNCHANGED replyVars
  BY DEF HandlerStep, Receive, Handle, Check, FindSession, Create, HandlerFails
<1>3. Next => AuthorStep \/ HandlerStep \/ UNCHANGED <<replyVars, echoVars>>
  BY DEF Next, AuthorStep, HandlerStep, SessionChanges
<1>. QED
  BY <1>1, <1>2, <1>3

LEMMA NextTypes == TypeOK /\ [Next]_vars => TypeOK'
<1>. SUFFICES ASSUME TypeOK, [Next]_vars PROVE TypeOK'
  OBVIOUS
<1>1. CASE UNCHANGED vars
  BY <1>1 DEF vars, replyVars, echoVars, TypeOK
<1>2. ASSUME UNCHANGED replyVars
      PROVE  RepliesOK'
  BY <1>2 DEF replyVars, RepliesOK, TypeOK
<1>3. ASSUME UNCHANGED echoVars
      PROVE  EchoesOK'
  BY <1>3 DEF echoVars, EchoesOK, TypeOK
<1>4. ASSUME Next
      PROVE  RepliesOK' /\ EchoesOK' /\ BoundsOK'
  <2>1. BoundsOK'
    BY <1>4, BoundsTypes
  <2>2. CASE AuthorStep
    BY <1>3, <2>1, <2>2, PostTypes, AuthorTypes, StepsApart DEF AuthorStep
  <2>3. CASE HandlerStep
    BY <1>2, <2>1, <2>3, HandlerTypes, StepsApart DEF HandlerStep
  <2>4. CASE UNCHANGED <<replyVars, echoVars>>
    BY <1>2, <1>3, <2>1, <2>4
  <2>. QED
    BY <1>4, <2>2, <2>3, <2>4, StepsApart
<1>. QED
  BY <1>1, <1>4 DEF RepliesOK, EchoesOK, BoundsOK, TypeOK

\* Replies, reports and rows keep their types; no loop leaves the places it may be at.
THEOREM TypeCorrect == Spec => []TypeOK
  BY InitTypes, NextTypes, PTL DEF Spec

-----------------------------------------------------------------------------
(* Repeated replies *)

\* A loop that has not ended has sent nothing it was told of; a reply that nobody has
\* written has no loop.
Over(r) == r \in BotReplies /\ send[r].state \in {"sent", "ended"}

CopiesInv ==
    /\ \A r \in Replies : copies[r] <= unheard[r] + (IF Over(r) THEN 1 ELSE 0)
    /\ \A r \in BotReplies \ own : send[r].state = "none"

LEMMA InitCopies == Init => CopiesInv
  BY DEF Init, CopiesInv, Out, Over

\* The replies a step does not touch.
LEMMA OtherCopies ==
    ASSUME TypeOK, CopiesInv, NEW r \in Replies,
           copies'[r] = copies[r], unheard'[r] = unheard[r],
           r \in BotReplies => send'[r] = send[r]
    PROVE  copies'[r] <= unheard'[r] + (IF Over(r)' THEN 1 ELSE 0)
  BY DEF CopiesInv, Over

\* A loop that is at a post: what it has sent unheard is all there is.
LEMMA PostCopies ==
    ASSUME TypeOK, CopiesInv, NEW r \in BotReplies, Post(r)
    PROVE  CopiesInv'
<1>1. /\ r \in Replies /\ r \in own /\ ~Over(r) /\ copies[r] \in Nat /\ unheard[r] \in Nat
      /\ copies[r] <= unheard[r]
  BY DEF Post, PostSucceeds, PostThrows, PostFails, PostNotFound, Sending, CopiesInv, Over,
     Replies, TypeOK
<1>2. \A q \in BotReplies \ {r} : send'[q] = send[q]
  BY DEF Post, PostSucceeds, PostThrows, PostFails, PostNotFound, TypeOK
<1>3. \A q \in Replies \ {r} : copies'[q] = copies[q] /\ unheard'[q] = unheard[q]
  BY DEF Post, PostSucceeds, PostThrows, PostFails, PostNotFound, Taken, TypeOK
<1>4. copies'[r] <= unheard'[r] + (IF Over(r)' THEN 1 ELSE 0)
  <2>1. CASE PostSucceeds(r)
    <3>1. copies'[r] = copies[r] + 1 /\ unheard'[r] = unheard[r] /\ send'[r] = Out("sent")
      BY <1>1, <2>1 DEF PostSucceeds, TypeOK
    <3>2. Over(r)'
      BY <3>1 DEF Over, Out
    <3>. QED
      BY <1>1, <3>1, <3>2
  <2>2. CASE PostThrows(r) \/ PostFails(r) \/ PostNotFound(r)
    <3>1. \/ copies'[r] = copies[r] + 1 /\ unheard'[r] = unheard[r] + 1
          \/ copies'[r] = copies[r] /\ unheard'[r] = unheard[r]
      BY <1>1, <2>2 DEF PostThrows, PostFails, PostNotFound, Taken, TypeOK
    <3>. QED
      BY <1>1, <3>1
  <2>. QED
    BY <2>1, <2>2 DEF Post
<1>5. UNCHANGED own
  BY DEF Post, PostSucceeds, PostThrows, PostFails, PostNotFound
<1>6. \A q \in BotReplies \ own' : send'[q].state = "none"
  BY <1>1, <1>2, <1>5 DEF CopiesInv
<1>7. \A q \in Replies : copies'[q] <= unheard'[q] + (IF Over(q)' THEN 1 ELSE 0)
  BY <1>2, <1>3, <1>4, OtherCopies
<1>. QED
  BY <1>6, <1>7 DEF CopiesInv

LEMMA AuthorCopies ==
    ASSUME TypeOK, CopiesInv,
           \/ \E r \in BotReplies : WriteReply(r) \/ WorkerDies(r)
           \/ \E r \in AgentReplies : AgentWrites(r) \/ ListenerReturns(r)
    PROVE  CopiesInv'
<1>1. UNCHANGED <<copies, unheard>>
  BY DEF WriteReply, WorkerDies, AgentWrites, ListenerReturns
<1>2. own \subseteq own'
  BY DEF WriteReply, WorkerDies, AgentWrites, ListenerReturns
<1>3. ASSUME NEW r \in BotReplies, WriteReply(r) \/ WorkerDies(r)
      PROVE  CopiesInv'
  <2>1. r \in own' /\ ~Over(r) /\ \A q \in BotReplies \ {r} : send'[q] = send[q]
    BY <1>3 DEF WriteReply, WorkerDies, Sending, CopiesInv, Over, TypeOK
  <2>2. r \in Replies /\ copies[r] \in Nat /\ unheard[r] \in Nat /\ copies[r] <= unheard[r]
    BY <2>1 DEF CopiesInv, Replies, TypeOK
  <2>3. copies'[r] <= unheard'[r] + (IF Over(r)' THEN 1 ELSE 0)
    BY <1>1, <2>2
  <2>4. \A q \in Replies : copies'[q] <= unheard'[q] + (IF Over(q)' THEN 1 ELSE 0)
    BY <1>1, <2>1, <2>3, OtherCopies
  <2>5. \A q \in BotReplies \ own' : send'[q].state = "none"
    BY <1>2, <2>1 DEF CopiesInv
  <2>. QED
    BY <2>4, <2>5 DEF CopiesInv
<1>4. ASSUME NEW r \in AgentReplies, AgentWrites(r) \/ ListenerReturns(r)
      PROVE  CopiesInv'
  BY <1>1, <1>2, <1>4 DEF AgentWrites, ListenerReturns, CopiesInv, Over
<1>. QED
  BY <1>3, <1>4

LEMMA NextCopies == TypeOK /\ CopiesInv /\ [Next]_vars => CopiesInv'
<1>. SUFFICES ASSUME TypeOK, CopiesInv, [Next]_vars PROVE CopiesInv'
  OBVIOUS
<1>1. ASSUME UNCHANGED replyVars
      PROVE  CopiesInv'
  BY <1>1 DEF replyVars, CopiesInv, Over
<1>2. CASE AuthorStep
  BY <1>2, PostCopies, AuthorCopies DEF AuthorStep
<1>3. CASE ~AuthorStep
  BY <1>1, <1>3, StepsApart DEF vars
<1>. QED
  BY <1>2, <1>3

\* Whatever WhatsApp takes and whatever it answers, a reply is there once more than it was
\* taken unheard, at most.
THEOREM UnheardSafe == Spec => []UnheardExplain
<1>1. TypeOK /\ CopiesInv => UnheardExplain
  BY DEF CopiesInv, UnheardExplain, TypeOK
<1>. QED
  BY <1>1, InitCopies, NextCopies, TypeCorrect, PTL DEF Spec

-----------------------------------------------------------------------------
(* The number of copies *)

\* The posts that come before a place in the loops.
Before(p) == (p.endpoint - 1) * (Formats * Posts) + (p.format - 1) * Posts + (p.post - 1)

\* What a loop has sent it has sent at the places before the one it is at.
Within(r) ==
    /\ send[r].state = "none" => copies[r] = 0
    /\ Sending(r) => copies[r] <= Before(send[r].place)
    /\ copies[r] <= MaxCopies

WithinInv ==
    /\ \A r \in BotReplies : Within(r)
    /\ \A r \in Replies \ BotReplies : copies[r] = 0

LEMMA Times ==
    ASSUME NEW a \in Nat, NEW b \in Nat, NEW c \in Nat, a <= b
    PROVE  /\ a * c \in Nat
           /\ a * c <= b * c
           /\ (a + 1) * c = a * c + c
<1>1. PICK d \in Nat : b = a + d
  <2>1. b - a \in Nat /\ b = a + (b - a)
    OBVIOUS
  <2>. QED
    BY <2>1
<1>2. b * c = a * c + d * c
  BY <1>1
<1>3. a * c \in Nat /\ d * c \in Nat
  OBVIOUS
<1>4. (a + 1) * c = a * c + c
  OBVIOUS
<1>. QED
  BY <1>2, <1>3, <1>4

\* The place after this one, in any of the loops, has this one before it.
LEMMA BeforeNext ==
    ASSUME NEW p \in Place
    PROVE  /\ Before(p) \in Nat
           /\ MaxCopies \in Nat
           /\ Before(p) + 1 <= MaxCopies
           /\ Before([p EXCEPT !.post = @ + 1]) = Before(p) + 1
           /\ Before(p) + 1 <= Before([endpoint |-> p.endpoint, format |-> p.format + 1, post |-> 1])
           /\ Before(p) + 1 <= Before([endpoint |-> p.endpoint + 1, format |-> 1, post |-> 1])
<1>. DEFINE e == p.endpoint
            f == p.format
            k == p.post
            round == Formats * Posts
<1>1. /\ e \in 1..Endpoints /\ f \in 1..Formats /\ k \in 1..Posts
      /\ Endpoints \in Nat \ {0} /\ Formats \in Nat \ {0} /\ Posts \in Nat \ {0}
  BY OutgoingAssumption DEF Place
<1>2. /\ (f - 1) * Posts \in Nat
      /\ f * Posts = (f - 1) * Posts + Posts
      /\ f * Posts <= round
      /\ round \in Nat
  <2>1. f - 1 \in Nat /\ f \in Nat /\ Formats \in Nat /\ Posts \in Nat /\ f - 1 <= f /\ f <= Formats
    BY <1>1
  <2>2. (f - 1) * Posts \in Nat /\ ((f - 1) + 1) * Posts = (f - 1) * Posts + Posts
    BY <2>1, Times
  <2>3. f * Posts <= round
    BY <2>1, Times
  <2>4. round \in Nat
    BY <2>1
  <2>5. (f - 1) + 1 = f
    BY <2>1
  <2>. QED
    BY <2>2, <2>3, <2>4, <2>5
<1>. HIDE DEF round
<1>3. /\ (e - 1) * round \in Nat
      /\ e * round = (e - 1) * round + round
      /\ e * round <= Endpoints * round
  <2>1. e - 1 \in Nat /\ e \in Nat /\ Endpoints \in Nat /\ e - 1 <= e /\ e <= Endpoints
    BY <1>1
  <2>2. (e - 1) * round \in Nat /\ ((e - 1) + 1) * round = (e - 1) * round + round
    BY <1>2, <2>1, Times
  <2>3. e * round <= Endpoints * round
    BY <1>2, <2>1, Times
  <2>4. (e - 1) + 1 = e
    BY <2>1
  <2>. QED
    BY <2>2, <2>3, <2>4
<1>4. MaxCopies = Endpoints * round /\ MaxCopies \in Nat
  BY <1>1 DEF MaxCopies, round
<1>5. Before(p) = (e - 1) * round + (f - 1) * Posts + (k - 1)
  BY DEF Before, round
<1>6. Before([p EXCEPT !.post = @ + 1]) = (e - 1) * round + (f - 1) * Posts + ((k + 1) - 1)
  BY DEF Before, round, Place
<1>7. Before([endpoint |-> e, format |-> f + 1, post |-> 1])
        = (e - 1) * round + f * Posts
  <2>1. (f + 1) - 1 = f /\ 1 - 1 = 0
    BY <1>1
  <2>2. f * Posts \in Nat
    BY <1>1, <1>2
  <2>. QED
    BY <1>3, <2>1, <2>2 DEF Before, round
<1>8. Before([endpoint |-> e + 1, format |-> 1, post |-> 1]) = e * round
  <2>1. (e + 1) - 1 = e /\ 1 - 1 = 0 /\ 0 * Posts = 0
    BY <1>1
  <2>2. e * round \in Nat
    BY <1>2, <1>3
  <2>. QED
    BY <2>1, <2>2 DEF Before, round
<1>. QED
  BY <1>1, <1>2, <1>3, <1>4, <1>5, <1>6, <1>7, <1>8

\* Where a loop goes after the post at p, with one copy more at most.
LEMMA NextWithin ==
    ASSUME NEW p \in Place, NEW s, s = NextPost(p) \/ s = NextFormat(p) \/ s = NextEndpoint(p)
    PROVE  /\ s.state \in {"sending", "sent"}
           /\ s.state = "sending" => Before(p) + 1 <= Before(s.place)
<1>1. Before(p) \in Nat
  BY BeforeNext
<1>2. ASSUME s = NextEndpoint(p)
      PROVE  /\ s.state \in {"sending", "sent"}
             /\ s.state = "sending" => Before(p) + 1 <= Before(s.place)
  BY <1>2, BeforeNext DEF NextEndpoint, Going, Out
<1>3. ASSUME s = NextFormat(p)
      PROVE  /\ s.state \in {"sending", "sent"}
             /\ s.state = "sending" => Before(p) + 1 <= Before(s.place)
  BY <1>2, <1>3, BeforeNext DEF NextFormat, Going
<1>4. ASSUME s = NextPost(p), p.post < Posts
      PROVE  /\ s.state \in {"sending", "sent"}
             /\ s.state = "sending" => Before(p) + 1 <= Before(s.place)
  <2>. DEFINE q == [p EXCEPT !.post = @ + 1]
  <2>1. s = Going(q)
    BY <1>4 DEF NextPost
  <2>2. Before(q) = Before(p) + 1
    BY BeforeNext
  <2>3. s.state = "sending" /\ s.place = q
    BY <2>1 DEF Going
  <2>. QED
    BY <1>1, <2>2, <2>3
<1>. QED
  BY <1>2, <1>3, <1>4 DEF NextPost

LEMMA InitWithin == Init => WithinInv
<1>1. MaxCopies \in Nat
  BY OutgoingAssumption DEF MaxCopies
<1>. QED
  BY <1>1 DEF Init, WithinInv, Within, Sending, Out, Replies

LEMMA PostWithin ==
    ASSUME TypeOK, WithinInv, NEW r \in BotReplies, Post(r)
    PROVE  WithinInv'
<1>1. /\ r \in Replies /\ copies[r] \in Nat /\ send[r].place \in Place
      /\ copies[r] <= Before(send[r].place)
      /\ \A q \in BotReplies \ {r} : send'[q] = send[q]
      /\ \A q \in Replies \ {r} : copies'[q] = copies[q]
  BY DEF Post, PostSucceeds, PostThrows, PostFails, PostNotFound, Taken, Sending, WithinInv,
     Within, Replies, TypeOK, Send
<1>2. copies'[r] \in {copies[r], copies[r] + 1}
  BY <1>1 DEF Post, PostSucceeds, PostThrows, PostFails, PostNotFound, Taken, TypeOK
<1>3. /\ Before(send[r].place) \in Nat /\ MaxCopies \in Nat
      /\ Before(send[r].place) + 1 <= MaxCopies
  BY <1>1, BeforeNext
<1>4. /\ send'[r].state \in {"sending", "sent"}
      /\ send'[r].state = "sending" => Before(send[r].place) + 1 <= Before(send'[r].place)
  <2>1. CASE PostSucceeds(r)
    BY <2>1 DEF PostSucceeds, TypeOK, Out
  <2>2. CASE PostThrows(r) \/ PostFails(r) \/ PostNotFound(r)
    <3>1. \/ send'[r] = NextPost(send[r].place)
          \/ send'[r] = NextFormat(send[r].place)
          \/ send'[r] = NextEndpoint(send[r].place)
      BY <2>2 DEF PostThrows, PostFails, PostNotFound, TypeOK
    <3>. QED
      BY <1>1, <3>1, NextWithin
  <2>. QED
    BY <2>1, <2>2 DEF Post
<1>5. Within(r)'
  <2>1. copies'[r] <= MaxCopies
    BY <1>1, <1>2, <1>3
  <2>2. ASSUME Sending(r)'
        PROVE  copies'[r] <= Before(send'[r].place)
    <3>1. send'[r].place \in Place
      BY PostTypes DEF RepliesOK, Send
    <3>2. Before(send'[r].place) \in Nat
      BY <3>1, BeforeNext
    <3>3. Before(send[r].place) + 1 <= Before(send'[r].place)
      BY <1>4, <2>2 DEF Sending
    <3>. QED
      BY <1>1, <1>2, <1>3, <3>2, <3>3
  <2>. QED
    BY <1>4, <2>1, <2>2 DEF Within, Sending
<1>6. \A q \in BotReplies \ {r} : Within(q)'
  BY <1>1 DEF WithinInv, Within, Sending, Replies
<1>. QED
  BY <1>1, <1>5, <1>6 DEF WithinInv

LEMMA AuthorWithin ==
    ASSUME TypeOK, CopiesInv, WithinInv,
           \/ \E r \in BotReplies : WriteReply(r) \/ WorkerDies(r)
           \/ \E r \in AgentReplies : AgentWrites(r) \/ ListenerReturns(r)
    PROVE  WithinInv'
<1>1. UNCHANGED copies
  BY DEF WriteReply, WorkerDies, AgentWrites, ListenerReturns
<1>2. ASSUME NEW r \in BotReplies, WriteReply(r) \/ WorkerDies(r)
      PROVE  WithinInv'
  <2>1. \A q \in BotReplies \ {r} : send'[q] = send[q]
    BY <1>2 DEF WriteReply, WorkerDies, TypeOK
  <2>2. Within(r)'
    <3>1. CASE WriteReply(r)
      <4>1. send[r].state = "none" /\ copies[r] = 0
        BY <3>1 DEF WriteReply, CopiesInv, WithinInv, Within
      <4>2. send'[r] = Out("ended") \/ send'[r] = Going(First)
        BY <3>1 DEF WriteReply, TypeOK
      <4>3. First \in Place /\ Before(First) \in Nat
        <5>1. First \in Place
          BY OutgoingAssumption DEF First, Place
        <5>. QED
          BY <5>1, BeforeNext
      <4>. QED
        BY <1>1, <4>1, <4>2, <4>3 DEF WithinInv, Within, Sending, Out, Going
    <3>2. CASE WorkerDies(r)
      BY <1>1, <3>2 DEF WorkerDies, TypeOK, WithinInv, Within, Sending, Out
    <3>. QED
      BY <1>2, <3>1, <3>2
  <2>3. \A q \in BotReplies \ {r} : Within(q)'
    BY <1>1, <2>1 DEF WithinInv, Within, Sending
  <2>. QED
    BY <1>1, <2>2, <2>3 DEF WithinInv
<1>3. ASSUME NEW r \in AgentReplies, AgentWrites(r) \/ ListenerReturns(r)
      PROVE  WithinInv'
  BY <1>1, <1>3 DEF AgentWrites, ListenerReturns, WithinInv, Within, Sending
<1>. QED
  BY <1>2, <1>3

LEMMA NextWithinInv == TypeOK /\ CopiesInv /\ WithinInv /\ [Next]_vars => WithinInv'
<1>. SUFFICES ASSUME TypeOK, CopiesInv, WithinInv, [Next]_vars PROVE WithinInv'
  OBVIOUS
<1>1. ASSUME UNCHANGED replyVars
      PROVE  WithinInv'
  BY <1>1 DEF replyVars, WithinInv, Within, Sending
<1>2. CASE AuthorStep
  BY <1>2, PostWithin, AuthorWithin DEF AuthorStep
<1>3. CASE ~AuthorStep
  BY <1>1, <1>3, StepsApart DEF vars
<1>. QED
  BY <1>2, <1>3

\* Three loops one in the other, posts that are taken and held for failed, and answers in
\* any order: a reply is sent once for each turn of the three, at most.
THEOREM CopiesSafe == Spec => []CopiesBounded
<1>1. WithinInv => CopiesBounded
  <2>1. MaxCopies \in Nat
    BY OutgoingAssumption DEF MaxCopies
  <2>. QED
    BY <2>1 DEF WithinInv, Within, CopiesBounded
<1>. QED
  BY <1>1, InitWithin, InitCopies, NextCopies, NextWithinInv, TypeCorrect, PTL DEF Spec

\* Whatever is answered to its posts, and whenever its worker dies: a reply that the
\* customer gets more than once was taken for failed before, and the loop does not
\* send it more often than it has places.
THEOREM RepeatsSafe == Spec => []RepeatsExplained
<1>1. UnheardExplain /\ CopiesBounded <=> RepeatsExplained
  BY DEF RepeatsExplained
<1>. QED
  BY <1>1, UnheardSafe, CopiesSafe, PTL

-----------------------------------------------------------------------------
(* The end of the loops *)

\* The posts a loop has ahead of it, those of a loop that has not begun included.
Ahead(s) ==
    IF s.state = "none" THEN MaxCopies + 1
    ELSE IF s.state = "sending" THEN MaxCopies - Before(s.place) ELSE 0

\* A loop never has more ahead of it than there are places, or nothing.
AheadBounded == \A r \in BotReplies : Ahead(send[r]) \in 0..(MaxCopies + 1)

(* However its posts are answered and whenever its worker dies, a loop goes on only:
   every post leaves it fewer places, no step of another reply or of a web process
   touches it, and none starts it a second time. *)
LoopAdvances ==
    [][\A r \in BotReplies :
          /\ send'[r] = send[r] \/ Ahead(send'[r]) < Ahead(send[r])
          /\ Post(r) => Ahead(send'[r]) < Ahead(send[r])]_vars

LEMMA AheadType ==
    ASSUME NEW s \in Send
    PROVE  /\ Ahead(s) \in 0..(MaxCopies + 1)
           /\ MaxCopies \in Nat
           /\ s.state = "none" => Ahead(s) = MaxCopies + 1
           /\ s.state = "sending" => Ahead(s) = MaxCopies - Before(s.place) /\ Ahead(s) > 0
           /\ s.state \in {"sent", "ended"} => Ahead(s) = 0
           /\ s.state # "none" => Ahead(s) < MaxCopies + 1
<1>1. /\ MaxCopies \in Nat
      /\ s.state = "sending" => Before(s.place) \in Nat /\ Before(s.place) + 1 <= MaxCopies
  <2>1. MaxCopies \in Nat
    BY OutgoingAssumption DEF MaxCopies
  <2>2. s.place \in Place
    BY DEF Send
  <2>. QED
    BY <2>1, <2>2, BeforeNext
<1>2. s.state \in {"none", "sending", "sent", "ended"}
  BY DEF Send
<1>. QED
  BY <1>1, <1>2 DEF Ahead

\* A post, however it goes, leads to a place further on or out of the loops.
LEMMA PostAhead ==
    ASSUME TypeOK, NEW r \in BotReplies, Post(r)
    PROVE  /\ Ahead(send'[r]) < Ahead(send[r])
           /\ \A q \in BotReplies \ {r} : send'[q] = send[q]
<1>1. /\ send[r] \in Send /\ send[r].place \in Place /\ send[r].state = "sending"
      /\ \A q \in BotReplies \ {r} : send'[q] = send[q]
  BY DEF Post, PostSucceeds, PostThrows, PostFails, PostNotFound, Sending, TypeOK, Send
<1>2. send'[r] \in Send
  BY PostTypes DEF RepliesOK
<1>3. CASE PostSucceeds(r)
  <2>1. send'[r].state = "sent"
    BY <1>3 DEF PostSucceeds, TypeOK, Out
  <2>. QED
    BY <1>1, <1>2, <2>1, AheadType
<1>4. CASE PostThrows(r) \/ PostFails(r) \/ PostNotFound(r)
  <2>1. \/ send'[r] = NextPost(send[r].place)
        \/ send'[r] = NextFormat(send[r].place)
        \/ send'[r] = NextEndpoint(send[r].place)
    BY <1>4 DEF PostThrows, PostFails, PostNotFound, TypeOK
  <2>2. /\ send'[r].state \in {"sending", "sent"}
        /\ send'[r].state = "sending" => Before(send[r].place) + 1 <= Before(send'[r].place)
    BY <1>1, <2>1, NextWithin
  <2>3. Before(send[r].place) \in Nat /\ Before(send'[r].place) \in Nat
    BY <1>1, <1>2, BeforeNext DEF Send
  <2>4. CASE send'[r].state = "sent"
    BY <1>1, <1>2, <2>4, AheadType
  <2>5. CASE send'[r].state = "sending"
    BY <1>1, <1>2, <2>2, <2>3, <2>5, AheadType
  <2>. QED
    BY <2>2, <2>4, <2>5
<1>. QED
  BY <1>1, <1>3, <1>4 DEF Post

\* A reply is written once, when its loop has not begun; a worker that dies ends a loop
\* that is under way.
LEMMA AuthorAhead ==
    ASSUME TypeOK, CopiesInv, NEW r \in BotReplies, WriteReply(r) \/ WorkerDies(r)
    PROVE  /\ Ahead(send'[r]) < Ahead(send[r])
           /\ \A q \in BotReplies \ {r} : send'[q] = send[q]
<1>1. send[r] \in Send /\ \A q \in BotReplies \ {r} : send'[q] = send[q]
  BY DEF WriteReply, WorkerDies, TypeOK
<1>2. send'[r] \in Send
  BY AuthorTypes DEF RepliesOK
<1>3. CASE WriteReply(r)
  <2>1. send[r].state = "none"
    BY <1>3 DEF WriteReply, CopiesInv
  <2>2. send'[r] = Out("ended") \/ send'[r] = Going(First)
    BY <1>3 DEF WriteReply, TypeOK
  <2>3. send'[r].state # "none"
    BY <2>2 DEF Out, Going
  <2>. QED
    BY <1>1, <1>2, <2>1, <2>3, AheadType
<1>4. CASE WorkerDies(r)
  <2>1. send[r].state = "sending" /\ send'[r].state = "ended"
    BY <1>4 DEF WorkerDies, Sending, TypeOK, Out
  <2>. QED
    BY <1>1, <1>2, <2>1, AheadType
<1>. QED
  BY <1>1, <1>3, <1>4

\* The safety part of SendEnds: what is left to fairness is that a post is answered.
THEOREM LoopEnds == Spec => []AheadBounded /\ LoopAdvances
<1>1. TypeOK => AheadBounded
  BY AheadType DEF TypeOK, AheadBounded
<1>2. ASSUME TypeOK, CopiesInv, [Next]_vars
      PROVE  [\A r \in BotReplies :
                /\ send'[r] = send[r] \/ Ahead(send'[r]) < Ahead(send[r])
                /\ Post(r) => Ahead(send'[r]) < Ahead(send[r])]_vars
  <2>1. SUFFICES ASSUME Next, NEW r \in BotReplies
                 PROVE  /\ send'[r] = send[r] \/ Ahead(send'[r]) < Ahead(send[r])
                        /\ Post(r) => Ahead(send'[r]) < Ahead(send[r])
    BY <1>2
  <2>2. Post(r) => Ahead(send'[r]) < Ahead(send[r])
    BY <1>2, PostAhead
  <2>3. CASE \E q \in BotReplies : Post(q) \/ WriteReply(q) \/ WorkerDies(q)
    BY <1>2, <2>3, PostAhead, AuthorAhead
  <2>4. CASE ~(\E q \in BotReplies : Post(q) \/ WriteReply(q) \/ WorkerDies(q))
    <3>1. UNCHANGED send
      BY <2>1, <2>4 DEF Next, AgentWrites, ListenerReturns, Receive, Handle, Check, FindSession,
         Create, HandlerFails, SessionChanges, replyVars
    <3>. QED
      BY <2>2, <3>1
  <2>. QED
    BY <2>2, <2>3, <2>4
<1>. QED
  BY <1>1, <1>2, InitCopies, NextCopies, TypeCorrect, PTL DEF Spec, LoopAdvances

-----------------------------------------------------------------------------
(* Echoes *)

\* A report is of a message that WhatsApp has, and so are the rows.
Has(e) == e[2] <= copies[e[1]]

EchoInv ==
    /\ \A h \in Handlers : handler[h] # Idle => Has(Echo(h))
    /\ StoredOnce
    /\ EchoLossExplained

LEMMA InitEcho == Init => EchoInv
  BY DEF Init, EchoInv, StoredOnce, EchoLossExplained

\* Messages only become more.
LEMMA CopiesGrow ==
    ASSUME TypeOK, Next, NEW e \in Echoes, Has(e)
    PROVE  Has(e)'
<1>1. e[1] \in BotReplies /\ e[1] \in Replies /\ e[2] \in Int
  BY OutgoingAssumption DEF Echoes, Replies
<1>2. copies[e[1]] \in Nat
  BY <1>1 DEF TypeOK
<1>3. copies' = copies \/ \E r \in BotReplies : copies' = [copies EXCEPT ![r] = @ + 1]
  BY DEF Next, WriteReply, Post, PostSucceeds, PostThrows, PostFails, PostNotFound, Taken,
     WorkerDies, AgentWrites, ListenerReturns, Receive, Handle, Check, FindSession, Create,
     HandlerFails, SessionChanges, replyVars
<1>4. copies'[e[1]] >= copies[e[1]]
  BY <1>1, <1>2, <1>3 DEF TypeOK
<1>5. copies'[e[1]] \in Nat
  BY <1>1, <1>2, <1>3 DEF TypeOK
<1>. QED
  BY <1>1, <1>2, <1>4, <1>5 DEF Has

\* Steps that leave the reports alone.
LEMMA AuthorEcho ==
    ASSUME TypeOK, EchoInv, Next, UNCHANGED echoVars
    PROVE  EchoInv'
<1>1. handler' = handler /\ rows' = rows /\ reached' = reached /\ missed' = missed
  BY DEF echoVars
<1>2. \A h \in Handlers : handler[h] # Idle => Echo(h) \in Echoes
  BY DEF Echo, TypeOK, Handling
<1>3. \A h \in Handlers : handler'[h] # Idle => Has(Echo(h))'
  BY <1>1, <1>2, CopiesGrow DEF EchoInv, Echo, Has
<1>4. ASSUME NEW e \in Echoes
      PROVE  rows'[e] <= IF Has(e)' THEN 1 ELSE 0
  <2>1. rows[e] \in Nat /\ rows[e] <= IF Has(e) THEN 1 ELSE 0
    BY DEF TypeOK, EchoInv, StoredOnce, Has
  <2>. QED
    BY <1>1, <2>1, CopiesGrow
<1>5. StoredOnce'
  BY <1>4 DEF StoredOnce, Has
<1>6. EchoLossExplained'
  BY <1>1 DEF EchoInv, EchoLossExplained, Quiet, Echo
<1>. QED
  BY <1>3, <1>5, <1>6 DEF EchoInv

\* One process takes a step with its report; the others stay where they are.
LEMMA OthersStay ==
    ASSUME TypeOK, NEW h \in Handlers,
           Handle(h) \/ HandlerFails(h) \/ \E e \in Echoes : Receive(h, e)
    PROVE  \A g \in Handlers \ {h} : handler'[g] = handler[g] /\ Echo(g)' = Echo(g)
<1>1. \A g \in Handlers \ {h} : handler'[g] = handler[g]
  BY DEF Handle, Check, FindSession, Create, HandlerFails, Receive, Goto, Done, TypeOK
<1>. QED
  BY <1>1 DEF Echo

LEMMA ReceiveEcho ==
    ASSUME TypeOK, EchoInv, NEW h \in Handlers, NEW e \in Echoes, Receive(h, e)
    PROVE  EchoInv'
<1>1. /\ handler'[h] = [echo |-> e, pc |-> "check"] /\ handler[h] = Idle
      /\ rows' = rows /\ missed' = missed /\ copies' = copies /\ reached' = reached \cup {e}
      /\ [echo |-> e, pc |-> "check"] \in Handling
  BY DEF Receive, replyVars, TypeOK, Handling
<1>2. \A g \in Handlers \ {h} : handler'[g] = handler[g] /\ Echo(g)' = Echo(g)
  BY OthersStay
<1>3. Echo(h)' = e /\ Has(e) /\ (handler[h] # Idle)' /\ [echo |-> e, pc |-> "check"] # Idle
  BY <1>1, IdleIsNone DEF Echo, Receive, Has
<1>4. \A g \in Handlers : handler'[g] # Idle => Has(Echo(g))'
  BY <1>1, <1>2, <1>3 DEF EchoInv, Has
<1>5. StoredOnce'
  BY <1>1 DEF EchoInv, StoredOnce
<1>6. ASSUME NEW f \in reached', Quiet(f)'
      PROVE  rows'[f] > 0 \/ f \in missed'
  <2>1. f # e /\ f \in reached
    BY <1>1, <1>3, <1>6 DEF Quiet
  <2>2. Quiet(f)
    BY <1>1, <1>2, <1>6 DEF Quiet
  <2>. QED
    BY <1>1, <2>1, <2>2 DEF EchoInv, EchoLossExplained
<1>7. EchoLossExplained'
  BY <1>6 DEF EchoLossExplained
<1>. QED
  BY <1>4, <1>5, <1>7 DEF EchoInv

\* A process goes on with its report, or is through with it: then the message has a row,
\* or the report was missed.
LEMMA HandleEcho ==
    ASSUME TypeOK, EchoInv, NEW h \in Handlers, Handle(h) \/ HandlerFails(h)
    PROVE  EchoInv'
<1>. DEFINE e == Echo(h)
<1>1. handler[h] # Idle /\ handler[h] \in Handling /\ e \in Echoes /\ copies' = copies
      /\ reached' = reached
  BY DEF Handle, Check, FindSession, Create, HandlerFails, At, Echo, TypeOK, Handling, replyVars
<1>2. \A g \in Handlers \ {h} : handler'[g] = handler[g] /\ Echo(g)' = Echo(g)
  BY OthersStay
<1>3. /\ \A f \in Echoes \ {e} : rows'[f] = rows[f]
      /\ rows'[e] >= rows[e] /\ rows[e] \in Nat
      /\ rows'[e] \in {rows[e], 1}
      /\ missed \subseteq missed'
  BY <1>1 DEF Handle, Check, FindSession, Create, HandlerFails, TypeOK
<1>4. \/ handler'[h] = [handler[h] EXCEPT !.pc = "session"]
      \/ handler'[h] = [handler[h] EXCEPT !.pc = "create"]
      \/ handler'[h] = Idle /\ (rows'[e] > 0 \/ e \in missed')
  BY <1>1 DEF Handle, Check, FindSession, Create, HandlerFails, Goto, Done, TypeOK
<1>5. handler'[h] # Idle => Echo(h)' = e
  BY <1>1, <1>4 DEF Echo, Handling
<1>6. \A g \in Handlers : handler'[g] # Idle => Has(Echo(g))'
  BY <1>1, <1>2, <1>5 DEF EchoInv, Has
<1>7. ASSUME NEW f \in Echoes
      PROVE  rows'[f] <= IF f[2] <= copies'[f[1]] THEN 1 ELSE 0
  <2>1. CASE f = e
    BY <1>1, <1>3, <2>1 DEF EchoInv, StoredOnce, Has
  <2>2. CASE f # e
    BY <1>1, <1>3, <2>2 DEF EchoInv, StoredOnce
  <2>. QED
    BY <2>1, <2>2
<1>8. ASSUME NEW f \in reached', Quiet(f)'
      PROVE  rows'[f] > 0 \/ f \in missed'
  <2>1. f \in Echoes /\ f \in reached
    BY <1>1, <1>8 DEF TypeOK
  <2>2. CASE f = e
    <3>1. handler'[h] = Idle
      BY <1>5, <1>8, <2>2 DEF Quiet
    <3>2. \A pc \in {"session", "create"} : [handler[h] EXCEPT !.pc = pc] \in Handling
      BY <1>1 DEF Handling
    <3>. QED
      BY <1>4, <2>2, <3>1, <3>2, IdleIsNone
  <2>3. CASE f # e
    <3>1. Quiet(f)
      BY <1>2, <1>8, <2>3 DEF Quiet
    <3>. QED
      BY <1>3, <2>1, <2>3, <3>1 DEF EchoInv, EchoLossExplained
  <2>. QED
    BY <2>2, <2>3
<1>. QED
  BY <1>6, <1>7, <1>8 DEF EchoInv, StoredOnce, EchoLossExplained

LEMMA NextEcho == TypeOK /\ EchoInv /\ [Next]_vars => EchoInv'
<1>. SUFFICES ASSUME TypeOK, EchoInv, [Next]_vars PROVE EchoInv'
  OBVIOUS
<1>1. CASE UNCHANGED vars
  BY <1>1 DEF vars, replyVars, echoVars, EchoInv, StoredOnce, EchoLossExplained, Quiet, Echo, Has
<1>2. CASE Next /\ UNCHANGED echoVars
  BY <1>2, AuthorEcho
<1>3. CASE HandlerStep
  BY <1>3, ReceiveEcho, HandleEcho DEF HandlerStep
<1>. QED
  BY <1>1, <1>2, <1>3, StepsApart

LEMMA EchoAlways == Spec => []EchoInv
  BY InitEcho, NextEcho, TypeCorrect, PTL DEF Spec

\* A message has one row at most, for any number of processes and of reports.
THEOREM StoredSafe == Spec => []StoredOnce
  BY EchoAlways, PTL DEF EchoInv

\* A report that leaves no row has failed or found no session.
THEOREM EchoLossSafe == Spec => []EchoLossExplained
  BY EchoAlways, PTL DEF EchoInv

=============================================================================
