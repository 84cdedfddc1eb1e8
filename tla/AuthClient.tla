----------------------------- MODULE AuthClient -----------------------------
(***************************************************************************)
(* Who is signed in, in the browser: AuthService and AuthContext of the    *)
(* front end, in several tabs that share localStorage.                     *)
(*                                                                         *)
(* A request carries the access token that is stored when it is sent.  The *)
(* first 401 to it has the tab ask for new tokens, once for all requests   *)
(* that were refused meanwhile (refreshPromise), and then sends it again.  *)
(* When no new tokens are to be had the tab clears the storage, for all    *)
(* tabs, and reloads itself on the login page.                             *)
(*                                                                         *)
(* A token is modelled by the user it belongs to.  The server may answer   *)
(* any request in any way at any time.                                     *)
(***************************************************************************)
EXTENDS Integers, FiniteSets

CONSTANTS
    Tabs,     \* tabs of one browser
    Users,    \* accounts
    NoUser,   \* no token, nobody
    MaxCalls, \* bound: requests in flight in one tab
    MaxStarts \* bound: requests, logins, logouts and reloads in all

ASSUME AuthAssumption ==
    /\ NoUser \notin Users
    /\ MaxCalls \in Nat \ {0}
    /\ MaxStarts \in Nat

VARIABLES
    jwt,        \* jwt_token in localStorage
    refresh,    \* refresh_token
    user,       \* chatbot_user
    page,       \* what a tab shows: the application or its login page
    leaving,    \* whether the tab is about to load the login page
    header,     \* the default Authorization header of the tab's client
    refreshing, \* refreshPromise: whose refresh token the tab has sent
    calls,      \* requests in flight
    crossed,    \* history: the last login found another user's refresh under way
    starts      \* counter of the bound

storageVars == <<jwt, refresh, user>>
tabVars == <<page, leaving, header>>
vars == <<storageVars, tabVars, refreshing, calls, crossed, starts>>

Someone == Users \cup {NoUser}
Slots == 1..MaxCalls

\* page: a request of a page by AuthService's client; plain: one by the client
\* of api/axios.js; me: getCurrentUser; login and logout.
Kinds == {"page", "plain", "me", "login", "logout"}
Call == [kind : Kinds, as : Someone, tries : 1..2, state : {"asked", "waiting"}]
NoCall == [kind |-> "none", as |-> NoUser, tries |-> 1, state |-> "none"]

TypeOK ==
    /\ jwt \in Someone
    /\ refresh \in Someone
    /\ user \in Someone
    /\ page \in [Tabs -> {"app", "login"}]
    /\ leaving \in [Tabs -> BOOLEAN]
    /\ header \in [Tabs -> Someone]
    /\ refreshing \in [Tabs -> Someone]
    /\ calls \in [Tabs -> [Slots -> Call \cup {NoCall}]]
    /\ crossed \in BOOLEAN
    /\ starts \in 0..MaxStarts

NoCalls == [n \in Slots |-> NoCall]

Init ==
    /\ jwt = NoUser
    /\ refresh = NoUser
    /\ user = NoUser
    /\ page = [t \in Tabs |-> "login"]
    /\ leaving = [t \in Tabs |-> FALSE]
    /\ header = [t \in Tabs |-> NoUser]
    /\ refreshing = [t \in Tabs |-> NoUser]
    /\ calls = [t \in Tabs |-> NoCalls]
    /\ crossed = FALSE
    /\ starts = 0

-----------------------------------------------------------------------------
(* What the handlers are made of *)

Start == starts < MaxStarts /\ starts' = starts + 1

FreeSlots(t) == {n \in Slots : calls[t][n] = NoCall}

\* A request of a kind is put into a free slot.
Ask(t, kind, as) ==
    /\ FreeSlots(t) # {}
    /\ LET n == CHOOSE i \in FreeSlots(t) : TRUE
       IN calls' = [calls EXCEPT ![t][n] =
                       [kind |-> kind, as |-> as, tries |-> 1, state |-> "asked"]]

Drop(t, n) == calls' = [calls EXCEPT ![t][n] = NoCall]

InFlight(t, kind) == \E n \in Slots : calls[t][n].kind = kind

\* The token the request interceptor of AuthService's client puts on.
Carried(t) == IF jwt # NoUser THEN jwt ELSE header[t]

\* clearTokens.
Clear(t) ==
    /\ jwt' = NoUser
    /\ refresh' = NoUser
    /\ user' = NoUser
    /\ header' = [header EXCEPT ![t] = NoUser]

\* clearTokens and the redirect, which happens after the current execution.
GiveUp(t) ==
    /\ Clear(t)
    /\ leaving' = [leaving EXCEPT ![t] = TRUE]
    /\ UNCHANGED page

\* Mutant: a refresh token that is stored already is kept.
StoreLoginPartly(t, u) ==
    /\ jwt' = u
    /\ refresh' = IF refresh = NoUser THEN u ELSE refresh
    /\ user' = u
    /\ header' = [header EXCEPT ![t] = u]

\* updateTokens with the tokens of u, and what a login stores besides.
StoreLogin(t, u) ==
    /\ jwt' = u
    /\ refresh' = u
    /\ user' = u
    /\ header' = [header EXCEPT ![t] = u]

UpdateTokens(u) ==
    /\ jwt' = u
    /\ refresh' = u
    /\ UNCHANGED user

-----------------------------------------------------------------------------
(* What the user starts *)

Usable(t) == page[t] = "app" /\ ~leaving[t] /\ ~InFlight(t, "me")

Request(t, kind) ==
    /\ Start
    /\ Usable(t)
    /\ kind \in {"page", "plain"}
    /\ Ask(t, kind, IF kind = "page" THEN Carried(t) ELSE jwt)
    /\ UNCHANGED <<storageVars, tabVars, refreshing, crossed>>

Login(t, u) ==
    /\ Start
    /\ page[t] = "login"
    /\ ~leaving[t]
    /\ ~InFlight(t, "login")
    /\ Ask(t, "login", u)
    /\ UNCHANGED <<storageVars, tabVars, refreshing, crossed>>

Logout(t) ==
    /\ Start
    /\ Usable(t)
    /\ ~InFlight(t, "logout")
    /\ Ask(t, "logout", Carried(t))
    /\ UNCHANGED <<storageVars, tabVars, refreshing, crossed>>

\* The tab is loaded anew, and initializeAuth asks who the stored token is.
\* Whatever was under way in the tab is gone.
Reload(t) ==
    /\ Start
    /\ IF jwt # NoUser /\ user # NoUser
       THEN /\ page' = [page EXCEPT ![t] = "app"]
            /\ calls' = [calls EXCEPT ![t] = [NoCalls EXCEPT ![1] =
                  [kind |-> "me", as |-> jwt, tries |-> 1, state |-> "asked"]]]
       ELSE /\ page' = [page EXCEPT ![t] = "login"]
            /\ calls' = [calls EXCEPT ![t] = NoCalls]
    /\ leaving' = [leaving EXCEPT ![t] = FALSE]
    /\ header' = [header EXCEPT ![t] = NoUser]
    /\ refreshing' = [refreshing EXCEPT ![t] = NoUser]
    /\ UNCHANGED <<storageVars, crossed>>

\* The login page is loaded; on it no request is made.
Navigate(t) ==
    /\ leaving[t]
    /\ leaving' = [leaving EXCEPT ![t] = FALSE]
    /\ page' = [page EXCEPT ![t] = "login"]
    /\ header' = [header EXCEPT ![t] = NoUser]
    /\ refreshing' = [refreshing EXCEPT ![t] = NoUser]
    /\ calls' = [calls EXCEPT ![t] = NoCalls]
    /\ UNCHANGED <<storageVars, crossed, starts>>

-----------------------------------------------------------------------------
(* Answers *)

Asked(t, n, kinds) == calls[t][n].state = "asked" /\ calls[t][n].kind \in kinds

LoginOk(t, n) ==
    /\ Asked(t, n, {"login"})
    /\ LET u == calls[t][n].as IN
          /\ StoreLogin(t, u)
          /\ crossed' = \E t2 \in Tabs : refreshing[t2] \notin {u, NoUser}
    /\ page' = [page EXCEPT ![t] = "app"]
    /\ Drop(t, n)
    /\ UNCHANGED <<leaving, refreshing, starts>>

\* Of getCurrentUser only the state of React is set.
RequestOk(t, n) ==
    /\ Asked(t, n, {"page", "plain", "me"})
    /\ calls[t][n].as # NoUser
    /\ Drop(t, n)
    /\ UNCHANGED <<storageVars, tabVars, refreshing, crossed, starts>>

\* Mutant: a missing refresh token is only noticed by the server.
JoinRefreshUnchecked(t, n) ==
    /\ refreshing' = IF refreshing[t] # NoUser THEN refreshing
                     ELSE [refreshing EXCEPT ![t] = refresh]
    /\ calls' = [calls EXCEPT ![t][n].state = "waiting"]
    /\ UNCHANGED <<storageVars, tabVars>>

\* refreshTokens: who comes second waits for the first.  Without a refresh
\* token the attempt has failed at once.
JoinRefresh(t, n) ==
    /\ refreshing[t] # NoUser \/ refresh # NoUser
    /\ refreshing' = IF refreshing[t] # NoUser THEN refreshing
                     ELSE [refreshing EXCEPT ![t] = refresh]
    /\ calls' = [calls EXCEPT ![t][n].state = "waiting"]
    /\ UNCHANGED <<storageVars, tabVars>>

NothingToRefresh(t, n) ==
    /\ refreshing[t] = NoUser
    /\ refresh = NoUser
    /\ GiveUp(t)
    /\ Drop(t, n)
    /\ UNCHANGED refreshing

\* Mutant: a request is refreshed however often it was sent.
UnauthorizedAgain(t, n) ==
    /\ Asked(t, n, {"page", "me", "logout"})
    /\ JoinRefresh(t, n) \/ NothingToRefresh(t, n)
    /\ UNCHANGED <<crossed, starts>>

\* The first 401 to a request.
Unauthorized(t, n) ==
    /\ Asked(t, n, {"page", "me", "logout"})
    /\ calls[t][n].tries = 1
    /\ JoinRefresh(t, n) \/ NothingToRefresh(t, n)
    /\ UNCHANGED <<crossed, starts>>

\* A 401 to the other client: the refresh token stays.
PlainUnauthorized(t, n) ==
    /\ Asked(t, n, {"plain"})
    /\ jwt' = NoUser
    /\ user' = NoUser
    /\ leaving' = [leaving EXCEPT ![t] = TRUE]
    /\ Drop(t, n)
    /\ UNCHANGED <<refresh, page, header, refreshing, crossed, starts>>

\* Any other failure, and a 401 after the retry, is left to the caller.
RequestRejected(t, n) ==
    /\ Asked(t, n, {"page", "plain", "login"})
    /\ Drop(t, n)
    /\ UNCHANGED <<storageVars, tabVars, refreshing, crossed, starts>>

\* getCurrentUser fails after its retry: the session has expired.
MeUnauthorized(t, n) ==
    /\ Asked(t, n, {"me"})
    /\ calls[t][n].tries = 2
    /\ GiveUp(t)
    /\ Drop(t, n)
    /\ UNCHANGED <<refreshing, crossed, starts>>

\* It fails otherwise: the stored user will do, if there still is one.
MeFailed(t, n) ==
    /\ Asked(t, n, {"me"})
    /\ leaving' = [leaving EXCEPT ![t] = @ \/ user = NoUser]
    /\ Drop(t, n)
    /\ UNCHANGED <<storageVars, page, header, refreshing, crossed, starts>>

\* Mutant: a logout that the server has refused leaves the storage as it is.
LoggedOutHalf(t, n) ==
    /\ Asked(t, n, {"logout"})
    /\ Clear(t) \/ UNCHANGED <<storageVars, header>>
    /\ page' = [page EXCEPT ![t] = "login"]
    /\ Drop(t, n)
    /\ UNCHANGED <<leaving, refreshing, crossed, starts>>

\* The logout was answered or has failed for good; the application shows its
\* login page without loading it.
LoggedOut(t, n) ==
    /\ Asked(t, n, {"logout"})
    /\ Clear(t)
    /\ page' = [page EXCEPT ![t] = "login"]
    /\ Drop(t, n)
    /\ UNCHANGED <<leaving, refreshing, crossed, starts>>

-----------------------------------------------------------------------------
(* The refresh *)

\* The WebSocket asks for new tokens when a channel was refused, and drops them.
SocketRefresh(t) ==
    /\ Start
    /\ Usable(t)
    /\ refreshing[t] = NoUser
    /\ refresh # NoUser
    /\ refreshing' = [refreshing EXCEPT ![t] = refresh]
    /\ UNCHANGED <<storageVars, tabVars, calls, crossed>>

Waiting(t) == {n \in Slots : calls[t][n].state = "waiting"}

\* Mutant: the mark _retry is lost with the request's configuration.
ResentUnmarked(c, u) ==
    [kind |-> c.kind, as |-> u, tries |-> c.tries, state |-> "asked"]

\* Each waiting request stores the new tokens and is sent again.
Resent(c, u) ==
    [kind |-> c.kind, as |-> u, tries |-> c.tries + 1, state |-> "asked"]

RefreshOk(t) ==
    LET u == refreshing[t] IN
    /\ u # NoUser
    /\ IF Waiting(t) # {} THEN UpdateTokens(u) ELSE UNCHANGED storageVars
    /\ calls' = [calls EXCEPT ![t] =
          [n \in Slots |-> IF n \in Waiting(t) THEN Resent(@[n], u) ELSE @[n]]]
    /\ refreshing' = [refreshing EXCEPT ![t] = NoUser]
    /\ UNCHANGED <<tabVars, crossed, starts>>

\* The refresh is refused or fails: each waiting request gives up, and the
\* refused refresh by itself.
RefreshFails(t, unauthorized) ==
    /\ refreshing[t] # NoUser
    /\ IF Waiting(t) # {} \/ unauthorized
       THEN GiveUp(t)
       ELSE UNCHANGED <<storageVars, tabVars>>
    /\ calls' = [calls EXCEPT ![t] =
          [n \in Slots |-> IF n \in Waiting(t) THEN NoCall ELSE @[n]]]
    /\ refreshing' = [refreshing EXCEPT ![t] = NoUser]
    /\ UNCHANGED <<crossed, starts>>

-----------------------------------------------------------------------------
UserStep(t) ==
    \/ \E kind \in Kinds : Request(t, kind)
    \/ \E u \in Users : Login(t, u)
    \/ Logout(t)
    \/ Reload(t)
    \/ SocketRefresh(t)

Answer(t, n) ==
    \/ LoginOk(t, n)
    \/ RequestOk(t, n)
    \/ Unauthorized(t, n)
    \/ PlainUnauthorized(t, n)
    \/ RequestRejected(t, n)
    \/ MeUnauthorized(t, n)
    \/ MeFailed(t, n)
    \/ LoggedOut(t, n)

RefreshAnswer(t) ==
    \/ RefreshOk(t)
    \/ \E unauthorized \in BOOLEAN : RefreshFails(t, unauthorized)

Next == \E t \in Tabs :
    \/ UserStep(t)
    \/ \E n \in Slots : Answer(t, n)
    \/ RefreshAnswer(t)
    \/ Navigate(t)

Spec == Init /\ [][Next]_vars

\* Every request is answered or times out, a redirect happens.
Fairness == \A t \in Tabs :
    /\ \A n \in Slots : WF_vars(Answer(t, n))
    /\ WF_vars(RefreshAnswer(t))
    /\ WF_vars(Navigate(t))

FairSpec == Spec /\ Fairness

-----------------------------------------------------------------------------
(* Properties *)

(* A request that waits for new tokens waits for a refresh that is under way
   in its tab: no answer is missed, and no failed attempt leaves one behind. *)
NobodyWaitsInVain ==
    \A t \in Tabs : Waiting(t) # {} => refreshing[t] # NoUser

(* The tokens and the user in the storage belong to one account, in whatever
   order the tabs sign in and out, refresh and reload.  The exception is a
   login that overtook the refresh of another user's token. *)
IdentityAgrees ==
    ~crossed => \A u1, u2 \in {jwt, refresh, user} \ {NoUser} : u1 = u2

(* Every request comes to an end, also when the server refuses all tokens. *)
RequestsSettle ==
    \A t \in Tabs : \A n \in Slots : calls[t][n] # NoCall ~> calls[t][n] = NoCall

(* However a logout ends, answered, refused twice, with a refresh that fails or
   none to try, and whether or not the server can be reached: the storage is
   clear when it has ended, unless the tab was loaded anew before. *)
LogoutClears ==
    [][\A t \in Tabs : \A n \in Slots :
          calls[t][n].kind = "logout" /\ calls'[t][n].kind # "logout" =>
             \/ jwt' = NoUser /\ refresh' = NoUser /\ user' = NoUser
             \/ starts' # starts
             \/ leaving[t] /\ ~leaving'[t]]_vars
=============================================================================
