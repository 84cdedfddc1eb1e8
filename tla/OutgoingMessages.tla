-------------------------- MODULE OutgoingMessages --------------------------
(***************************************************************************)
(* Replies on their way to WhatsApp, and their echo.                       *)
(*                                                                         *)
(* A reply of the bot is written to the messages table and then handed to  *)
(* WAHA in a loop over endpoints, formats of the phone number and repeated *)
(* posts, until one of them is answered with success.  A reply of an agent *)
(* is written and left to a queued listener.  WhatsApp reports every       *)
(* message of the account back to the webhook, which stores it unless a    *)
(* row with its id exists: the rows of the bot and of the agents have none. *)
(* The transaction around the check has ended, and locked nothing, when    *)
(* the row is written; the unique index on the id refuses a second one.    *)
(***************************************************************************)
EXTENDS Integers, FiniteSets

CONSTANTS
    BotReplies, AgentReplies,
    Nameless,  \* replies of the bot whose session does not know its WAHA session
    Endpoints, \* endpoints sendTextMessage tries
    Formats,   \* formats of the phone number it tries at each
    Posts,     \* posts the HTTP client makes before it throws
    Handlers,  \* web processes that handle echoes
    Idle,      \* a handler that handles none
    MaxEchoes, \* bound: echoes of all messages delivered to the webhook
    MaxFaults  \* bound: dying workers, failing handlers and ends of sessions

ASSUME OutgoingAssumption ==
    /\ Nameless \subseteq BotReplies
    /\ Endpoints \in Nat \ {0}
    /\ Formats \in Nat \ {0}
    /\ Posts \in Nat \ {0}
    /\ IsFiniteSet(Handlers)
    /\ MaxEchoes \in Nat
    /\ MaxFaults \in Nat

VARIABLES
    own,     \* replies with the row their author has written
    send,    \* send[r]: where the loop that sends reply r is
    copies,  \* copies[r]: messages WhatsApp has of reply r
    unheard, \* history: unheard[r]: those of them not answered with success
    jobs,    \* agent replies whose queued listener has not run
    handler, \* handler[h]: the echo a web process handles, and where it is in it
    rows,    \* rows[e]: messages rows with the WhatsApp id of message e
    reached, \* history: messages of which an echo was delivered
    missed,  \* history: messages an echo of which failed or found no session
    active,  \* whether the customer has an active session
    echoes, faults \* counters of the bounds

replyVars == <<own, send, copies, unheard, jobs>>
echoVars == <<handler, rows, reached, missed>>
vars == <<replyVars, echoVars, active, echoes, faults>>

-----------------------------------------------------------------------------
Replies == BotReplies \cup AgentReplies

\* A place in the loops of sendTextMessage and of the HTTP client.
Place == [endpoint : 1..Endpoints, format : 1..Formats, post : 1..Posts]
First == [endpoint |-> 1, format |-> 1, post |-> 1]

\* What a loop is at, or that it has not begun or is over.
Send == [state : {"none", "sending", "sent", "ended"}, place : Place]
Going(p) == [state |-> "sending", place |-> p]
Out(state) == [state |-> state, place |-> First]

MaxCopies == Endpoints * Formats * Posts

\* The copies of one reply have different ids, but nothing looks at two ids.
Echoes == BotReplies \X (1..MaxCopies)
Handling == [echo : Echoes, pc : {"check", "session", "create"}]

ASSUME IdleIsNone == Idle \notin Handling

TypeOK ==
    /\ own \subseteq Replies
    /\ send \in [BotReplies -> Send]
    /\ copies \in [Replies -> Nat]
    /\ unheard \in [Replies -> Nat]
    /\ jobs \subseteq AgentReplies
    /\ handler \in [Handlers -> Handling \cup {Idle}]
    /\ rows \in [Echoes -> Nat]
    /\ reached \subseteq Echoes
    /\ missed \subseteq Echoes
    /\ active \in BOOLEAN
    /\ echoes \in 0..MaxEchoes
    /\ faults \in 0..MaxFaults

Init ==
    /\ own = {}
    /\ send = [r \in BotReplies |-> Out("none")]
    /\ copies = [r \in Replies |-> 0]
    /\ unheard = [r \in Replies |-> 0]
    /\ jobs = {}
    /\ handler = [h \in Handlers |-> Idle]
    /\ rows = [e \in Echoes |-> 0]
    /\ reached = {}
    /\ missed = {}
    /\ active = TRUE
    /\ echoes = 0
    /\ faults = 0

Fault == faults < MaxFaults /\ faults' = faults + 1

-----------------------------------------------------------------------------
(* The bot: processWithBot, sendWhatsAppResponse and sendTextMessage *)

\* The row is written first.  A session without the name of its WAHA session
\* is answered in the table only.
WriteReply(r) ==
    /\ r \notin own
    /\ own' = own \cup {r}
    /\ send' = [send EXCEPT ![r] = IF r \in Nameless THEN Out("ended") ELSE Going(First)]
    /\ UNCHANGED <<copies, unheard, jobs, echoVars, active, echoes, faults>>

Sending(r) == send[r].state = "sending"

\* Mutant: when everything was tried it is all tried again.
NextEndpointRound(p) ==
    IF p.endpoint < Endpoints
    THEN Going([endpoint |-> p.endpoint + 1, format |-> 1, post |-> 1])
    ELSE Going(First)

\* When everything was tried a made-up answer says that all went well.
NextEndpoint(p) ==
    IF p.endpoint < Endpoints
    THEN Going([endpoint |-> p.endpoint + 1, format |-> 1, post |-> 1])
    ELSE Out("sent")

\* Mutant: one format too many.
NextFormatOffByOne(p) ==
    IF p.format <= Formats
    THEN Going([endpoint |-> p.endpoint, format |-> p.format + 1, post |-> 1])
    ELSE NextEndpoint(p)

NextFormat(p) ==
    IF p.format < Formats
    THEN Going([endpoint |-> p.endpoint, format |-> p.format + 1, post |-> 1])
    ELSE NextEndpoint(p)

NextPost(p) ==
    IF p.post < Posts THEN Going([p EXCEPT !.post = @ + 1]) ELSE NextFormat(p)

\* Mutant: a success does not leave the loop.
PostSucceedsAndGoesOn(r) ==
    /\ Sending(r)
    /\ copies' = [copies EXCEPT ![r] = @ + 1]
    /\ send' = [send EXCEPT ![r] = NextFormat(@.place)]
    /\ UNCHANGED <<own, unheard, jobs, echoVars, active, echoes, faults>>

PostSucceeds(r) ==
    /\ Sending(r)
    /\ copies' = [copies EXCEPT ![r] = @ + 1]
    /\ send' = [send EXCEPT ![r] = Out("sent")]
    /\ UNCHANGED <<own, unheard, jobs, echoVars, active, echoes, faults>>

\* WhatsApp has the message, or has not, when the post goes wrong.
Taken(r) ==
    \/ /\ copies' = [copies EXCEPT ![r] = @ + 1]
       /\ unheard' = [unheard EXCEPT ![r] = @ + 1]
    \/ UNCHANGED <<copies, unheard>>

\* A timeout or a lost connection.
PostThrows(r) ==
    /\ Sending(r)
    /\ Taken(r)
    /\ send' = [send EXCEPT ![r] = NextPost(@.place)]
    /\ UNCHANGED <<own, jobs, echoVars, active, echoes, faults>>

\* An answer with an error.
PostFails(r) ==
    /\ Sending(r)
    /\ Taken(r)
    /\ send' = [send EXCEPT ![r] = NextFormat(@.place)]
    /\ UNCHANGED <<own, jobs, echoVars, active, echoes, faults>>

\* 404: the endpoint does not exist.
PostNotFound(r) ==
    /\ Sending(r)
    /\ send' = [send EXCEPT ![r] = NextEndpoint(@.place)]
    /\ UNCHANGED <<own, copies, unheard, jobs, echoVars, active, echoes, faults>>

\* The job's timeout, which is shorter than the loop can take, or a crash.
WorkerDies(r) ==
    /\ Fault
    /\ Sending(r)
    /\ send' = [send EXCEPT ![r] = Out("ended")]
    /\ UNCHANGED <<own, copies, unheard, jobs, echoVars, active, echoes>>

-----------------------------------------------------------------------------
(* An agent: InboxService::sendMessage and SendMessageToWahaListener *)

AgentWrites(r) ==
    /\ r \notin own
    /\ own' = own \cup {r}
    /\ jobs' = jobs \cup {r}
    /\ UNCHANGED <<send, copies, unheard, echoVars, active, echoes, faults>>

\* The listener looks for the name of the WAHA session in the session_data of
\* the event, which carries id and organization_id, and returns.
ListenerReturns(r) ==
    /\ r \in jobs
    /\ jobs' = jobs \ {r}
    /\ UNCHANGED <<own, send, copies, unheard, echoVars, active, echoes, faults>>

-----------------------------------------------------------------------------
(* The webhook: handleMessageEvent with fromMe, saveOutgoingMessage *)

At(h, pc) == handler[h] # Idle /\ handler[h].pc = pc
Echo(h) == handler[h].echo
Goto(h, pc) == handler' = [handler EXCEPT ![h].pc = pc]
Done(h) == handler' = [handler EXCEPT ![h] = Idle]

\* WAHA reports a message it has, or reports it again.
Receive(h, e) ==
    /\ handler[h] = Idle
    /\ e[2] <= copies[e[1]]
    /\ echoes < MaxEchoes
    /\ echoes' = echoes + 1
    /\ handler' = [handler EXCEPT ![h] = [echo |-> e, pc |-> "check"]]
    /\ reached' = reached \cup {e}
    /\ UNCHANGED <<replyVars, rows, missed, active, faults>>

\* Mutant: whoever finds a reply's own row takes the echo for a duplicate.
CheckByReply(h) ==
    /\ At(h, "check")
    /\ IF rows[Echo(h)] > 0 \/ Echo(h)[1] \in own THEN Done(h) ELSE Goto(h, "session")
    /\ UNCHANGED <<replyVars, rows, reached, missed, active, echoes, faults>>

\* isDuplicateMessage.  Its second query compares metadata->whatsapp->to, which
\* no row has: only the id counts.
Check(h) ==
    /\ At(h, "check")
    /\ IF rows[Echo(h)] > 0 THEN Done(h) ELSE Goto(h, "session")
    /\ UNCHANGED <<replyVars, rows, reached, missed, active, echoes, faults>>

FindSession(h) ==
    /\ At(h, "session")
    /\ IF active
       THEN Goto(h, "create") /\ UNCHANGED missed
       ELSE Done(h) /\ missed' = missed \cup {Echo(h)}
    /\ UNCHANGED <<replyVars, rows, reached, active, echoes, faults>>

\* Mutant: the table has no unique index.
CreateUnindexed(h) ==
    /\ At(h, "create")
    /\ rows' = [rows EXCEPT ![Echo(h)] = @ + 1]
    /\ Done(h)
    /\ UNCHANGED <<replyVars, reached, missed, active, echoes, faults>>

\* The row another handler has inserted since stays the only one.
Create(h) ==
    /\ At(h, "create")
    /\ rows' = IF rows[Echo(h)] > 0 THEN rows ELSE [rows EXCEPT ![Echo(h)] = 1]
    /\ Done(h)
    /\ UNCHANGED <<replyVars, reached, missed, active, echoes, faults>>

\* An exception is logged, and WAHA is told that all went well.
HandlerFails(h) ==
    /\ Fault
    /\ handler[h] # Idle
    /\ missed' = missed \cup {Echo(h)}
    /\ Done(h)
    /\ UNCHANGED <<replyVars, rows, reached, active, echoes>>

\* The customer's session ends, or a new one begins.
SessionChanges ==
    /\ Fault
    /\ active' = ~active
    /\ UNCHANGED <<replyVars, echoVars, echoes>>

-----------------------------------------------------------------------------
Post(r) == PostSucceeds(r) \/ PostThrows(r) \/ PostFails(r) \/ PostNotFound(r)
Handle(h) == Check(h) \/ FindSession(h) \/ Create(h)

Next ==
    \/ \E r \in BotReplies : WriteReply(r) \/ Post(r) \/ WorkerDies(r)
    \/ \E r \in AgentReplies : AgentWrites(r) \/ ListenerReturns(r)
    \/ \E h \in Handlers :
          \/ \E e \in Echoes : Receive(h, e)
          \/ Handle(h)
          \/ HandlerFails(h)
    \/ SessionChanges

Spec == Init /\ [][Next]_vars

\* A post is answered or times out, PHP runs to the end of a request, and a
\* queue worker takes the listener.
Fairness ==
    /\ \A r \in BotReplies : WF_vars(Post(r))
    /\ \A r \in AgentReplies : WF_vars(ListenerReturns(r))
    /\ \A h \in Handlers : WF_vars(Handle(h))

FairSpec == Spec /\ Fairness

-----------------------------------------------------------------------------
(* Properties *)

\* One copy for each post that was taken for failed and one for the success that
\* ends the loop.
UnheardExplain == \A r \in Replies : copies[r] <= unheard[r] + 1

\* No more copies than the loop has places.
CopiesBounded == \A r \in Replies : copies[r] <= MaxCopies

(* The customer gets a reply of the bot more than once only when WhatsApp had
   taken a post that sendTextMessage held for failed; and although the loop over
   endpoints and formats goes on after such an answer, and the client under it
   repeats a post that got none, never more often than the two of them can post. *)
RepeatsExplained == UnheardExplain /\ CopiesBounded

(* However often WAHA reports a message, and however the reports overlap, the
   table has one row with its id at most, and only of a message that WhatsApp
   has. *)
StoredOnce ==
    \A e \in Echoes : rows[e] <= IF e[2] <= copies[e[1]] THEN 1 ELSE 0

Quiet(e) == \A h \in Handlers : handler[h] # Idle => Echo(h) # e

(* A message that was reported is in the table when its handlers are through,
   unless one of them failed or found no active session: no check takes a
   message for a duplicate that is not there. *)
EchoLossExplained ==
    \A e \in reached : Quiet(e) => rows[e] > 0 \/ e \in missed

(* The loop comes to an end, whatever WAHA answers. *)
SendEnds ==
    \A r \in BotReplies : Sending(r) ~> ~Sending(r)

(* SendMessageToWahaListener: "Only send if message is from agent".  What an
   agent writes in the inbox reaches WhatsApp, when nothing goes wrong. *)
AgentReplyReaches ==
    \A r \in AgentReplies : r \in own ~> copies[r] > 0
=============================================================================
