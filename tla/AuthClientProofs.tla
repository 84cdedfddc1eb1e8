-------------------------- MODULE AuthClientProofs --------------------------
(***************************************************************************)
(* Proofs about AuthClient, for every set of tabs and of accounts, every   *)
(* number of requests in flight and every bound.                           *)
(***************************************************************************)
EXTENDS AuthClient, TLAPS

-----------------------------------------------------------------------------
(* Type correctness *)

\* Only a request that was sent once waits, and so it is sent twice at most.
FirstTry == \A t \in Tabs : \A n \in Slots :
    calls[t][n].state = "waiting" => calls[t][n].tries = 1

AuthInv == TypeOK /\ FirstTry /\ NobodyWaitsInVain

Table == [Tabs -> [Slots -> Call \cup {NoCall}]]

\* One request is put into its slot, changed or dropped.
Put(t, n, c) == calls' = [calls EXCEPT ![t][n] = c]

LEMMA PutStep ==
    ASSUME TypeOK, NEW t \in Tabs, NEW n \in Slots, NEW c \in Call \cup {NoCall}, Put(t, n, c)
    PROVE  /\ calls' \in Table
           /\ calls'[t][n] = c
           /\ \A t2 \in Tabs : \A n2 \in Slots :
                 <<t2, n2>> # <<t, n>> => calls'[t2][n2] = calls[t2][n2]
<1>1. calls \in Table
  BY DEF TypeOK, Table
<1>. QED
  BY <1>1 DEF Put, Table

\* A request that is sent for the first time.
LEMMA AskedCall ==
    ASSUME NEW kind \in Kinds, NEW who \in Someone
    PROVE  /\ [kind |-> kind, as |-> who, tries |-> 1, state |-> "asked"] \in Call
           /\ [kind |-> kind, as |-> who, tries |-> 1, state |-> "asked"].state # "waiting"
  BY DEF Call

LEMMA DropPuts ==
    ASSUME NEW t, NEW n, Drop(t, n)
    PROVE  Put(t, n, NoCall)
  BY DEF Drop, Put

LEMMA AskPuts ==
    ASSUME NEW t \in Tabs, NEW kind \in Kinds, NEW who \in Someone, Ask(t, kind, who)
    PROVE  \E n \in Slots : /\ calls[t][n] = NoCall
                            /\ Put(t, n, [kind |-> kind, as |-> who, tries |-> 1, state |-> "asked"])
<1>. DEFINE n == CHOOSE i \in FreeSlots(t) : TRUE
<1>1. n \in FreeSlots(t)
  BY DEF Ask
<1>2. n \in Slots /\ calls[t][n] = NoCall
  BY <1>1 DEF FreeSlots
<1>. QED
  BY <1>2 DEF Ask, Put

\* The storage and the headers belong to accounts.
LEMMA StorageTyped ==
    ASSUME TypeOK, [Next]_vars
    PROVE  jwt' \in Someone /\ refresh' \in Someone /\ user' \in Someone
<1>1. \A t \in Tabs : /\ refreshing[t] \in Someone
                      /\ \A n \in Slots : calls[t][n] \in Call => calls[t][n].as \in Someone
  BY DEF TypeOK, Call
<1>2. CASE UNCHANGED storageVars
  BY <1>2 DEF storageVars, TypeOK
<1>3. ASSUME NEW t \in Tabs, Clear(t)
      PROVE  jwt' \in Someone /\ refresh' \in Someone /\ user' \in Someone
  BY <1>3 DEF Clear, Someone
<1>4. ASSUME NEW t \in Tabs, NEW n \in Slots, LoginOk(t, n)
      PROVE  jwt' \in Someone /\ refresh' \in Someone /\ user' \in Someone
  <2>1. calls[t][n] \in Call
    BY <1>4 DEF LoginOk, Asked, TypeOK, NoCall
  <2>. QED
    BY <1>1, <1>4, <2>1 DEF LoginOk, StoreLogin
<1>5. ASSUME NEW t \in Tabs, NEW n \in Slots, PlainUnauthorized(t, n)
      PROVE  jwt' \in Someone /\ refresh' \in Someone /\ user' \in Someone
  BY <1>5 DEF PlainUnauthorized, Someone, TypeOK
<1>6. ASSUME NEW t \in Tabs, RefreshOk(t)
      PROVE  jwt' \in Someone /\ refresh' \in Someone /\ user' \in Someone
  BY <1>1, <1>6 DEF RefreshOk, UpdateTokens, storageVars, TypeOK
<1>7. ASSUME NEW t \in Tabs, NEW n \in Slots, Answer(t, n), ~LoginOk(t, n), ~PlainUnauthorized(t, n)
      PROVE  UNCHANGED storageVars \/ Clear(t)
  BY <1>7 DEF Answer, RequestOk, Unauthorized, JoinRefresh, NothingToRefresh, RequestRejected,
     MeUnauthorized, MeFailed, LoggedOut, GiveUp
<1>8. ASSUME NEW t \in Tabs, UserStep(t) \/ Navigate(t)
      PROVE  UNCHANGED storageVars
  BY <1>8 DEF UserStep, Request, Login, Logout, Reload, SocketRefresh, Navigate
<1>9. ASSUME NEW t \in Tabs, NEW unauthorized \in BOOLEAN, RefreshFails(t, unauthorized)
      PROVE  UNCHANGED storageVars \/ Clear(t)
  BY <1>9 DEF RefreshFails, GiveUp
<1>10. CASE UNCHANGED vars
  BY <1>2, <1>10 DEF vars
<1>. QED
  BY <1>2, <1>3, <1>4, <1>5, <1>6, <1>7, <1>8, <1>9, <1>10 DEF Next, RefreshAnswer

\* What a tab shows, its header and its refresh keep their types.
TabsOK ==
    /\ page \in [Tabs -> {"app", "login"}]
    /\ leaving \in [Tabs -> BOOLEAN]
    /\ header \in [Tabs -> Someone]
    /\ refreshing \in [Tabs -> Someone]
    /\ crossed \in BOOLEAN
    /\ starts \in 0..MaxStarts

LEMMA TypeTabs == TypeOK => TabsOK
  BY DEF TypeOK, TabsOK

LEMMA UserStepTabs ==
    ASSUME TypeOK, NEW t \in Tabs, UserStep(t) \/ Navigate(t)
    PROVE  TabsOK'
<1>. USE TypeTabs, AuthAssumption DEF TabsOK
<1>1. CASE Navigate(t)
  BY <1>1 DEF Navigate, Someone
<1>2. CASE Reload(t)
  BY <1>2 DEF Reload, Start, Someone
<1>3. CASE SocketRefresh(t)
  BY <1>3 DEF SocketRefresh, Start, tabVars, TypeOK
<1>4. CASE UserStep(t) /\ ~Reload(t) /\ ~SocketRefresh(t)
  BY <1>4 DEF UserStep, Request, Login, Logout, Start, tabVars
<1>. QED
  BY <1>1, <1>2, <1>3, <1>4 DEF UserStep

LEMMA AnswerTabs ==
    ASSUME TypeOK, NEW t \in Tabs, NEW n \in Slots, Answer(t, n)
    PROVE  TabsOK'
<1>. USE TypeTabs DEF TabsOK
<1>1. CASE LoginOk(t, n)
  <2>1. calls[t][n] \in Call
    BY <1>1 DEF LoginOk, Asked, TypeOK, NoCall
  <2>2. calls[t][n].as \in Someone
    BY <2>1 DEF Call
  <2>3. crossed' \in BOOLEAN
    BY <1>1 DEF LoginOk
  <2>. QED
    BY <1>1, <2>2, <2>3 DEF LoginOk, StoreLogin
<1>2. CASE RequestOk(t, n) \/ RequestRejected(t, n)
  BY <1>2 DEF RequestOk, RequestRejected, tabVars
<1>3. CASE Unauthorized(t, n)
  <2>1. CASE JoinRefresh(t, n)
    BY <1>3, <2>1 DEF Unauthorized, JoinRefresh, tabVars, TypeOK
  <2>2. CASE NothingToRefresh(t, n)
    BY <1>3, <2>2 DEF Unauthorized, NothingToRefresh, GiveUp, Clear, Someone
  <2>. QED
    BY <1>3, <2>1, <2>2 DEF Unauthorized
<1>4. CASE PlainUnauthorized(t, n)
  BY <1>4 DEF PlainUnauthorized
<1>5. CASE MeUnauthorized(t, n)
  BY <1>5 DEF MeUnauthorized, GiveUp, Clear, Someone
<1>6. CASE MeFailed(t, n)
  BY <1>6 DEF MeFailed
<1>7. CASE LoggedOut(t, n)
  BY <1>7 DEF LoggedOut, Clear, Someone
<1>. QED
  BY <1>1, <1>2, <1>3, <1>4, <1>5, <1>6, <1>7 DEF Answer

LEMMA RefreshTabs ==
    ASSUME TypeOK, NEW t \in Tabs, RefreshAnswer(t)
    PROVE  TabsOK'
<1>. USE TypeTabs DEF TabsOK
<1>1. CASE RefreshOk(t)
  BY <1>1 DEF RefreshOk, tabVars, Someone
<1>2. ASSUME NEW unauthorized \in BOOLEAN, RefreshFails(t, unauthorized)
      PROVE  TabsOK'
  <2>1. refreshing' \in [Tabs -> Someone] /\ crossed' \in BOOLEAN /\ starts' \in 0..MaxStarts
    BY <1>2 DEF RefreshFails, Someone
  <2>2. CASE GiveUp(t)
    BY <2>1, <2>2 DEF GiveUp, Clear, Someone
  <2>3. CASE UNCHANGED tabVars
    BY <2>1, <2>3 DEF tabVars
  <2>. QED
    BY <1>2, <2>2, <2>3 DEF RefreshFails
<1>. QED
  BY <1>1, <1>2 DEF RefreshAnswer

LEMMA TabsTyped ==
    ASSUME TypeOK, [Next]_vars
    PROVE  TabsOK'
<1>1. CASE UNCHANGED vars
  BY <1>1, TypeTabs DEF vars, tabVars, TabsOK
<1>. QED
  BY <1>1, UserStepTabs, AnswerTabs, RefreshTabs DEF Next

-----------------------------------------------------------------------------
(* The requests in flight *)

\* The requests have their types, wait only the first time they are sent, and only
\* while their tab refreshes.
CallsOK ==
    /\ calls \in Table
    /\ FirstTry
    /\ NobodyWaitsInVain

LEMMA InvCalls == AuthInv => CallsOK
  BY DEF AuthInv, CallsOK, TypeOK, Table

\* A request that does not wait is put into a slot, and the refreshes go on.
LEMMA PutCalls ==
    ASSUME AuthInv, NEW t \in Tabs, NEW n \in Slots, NEW c \in Call \cup {NoCall}, Put(t, n, c),
           c.state # "waiting", UNCHANGED refreshing
    PROVE  CallsOK'
<1>1. /\ calls' \in Table
      /\ calls'[t][n] = c
      /\ \A t2 \in Tabs : \A n2 \in Slots :
            <<t2, n2>> # <<t, n>> => calls'[t2][n2] = calls[t2][n2]
  BY PutStep DEF AuthInv
<1>2. FirstTry'
  BY <1>1 DEF FirstTry, AuthInv
<1>3. \A t2 \in Tabs : Waiting(t2)' \subseteq Waiting(t2)
  BY <1>1 DEF Waiting
<1>4. NobodyWaitsInVain'
  BY <1>3 DEF NobodyWaitsInVain, AuthInv
<1>. QED
  BY <1>1, <1>2, <1>4 DEF CallsOK

LEMMA DropCalls ==
    ASSUME AuthInv, NEW t \in Tabs, NEW n \in Slots, Drop(t, n), UNCHANGED refreshing
    PROVE  CallsOK'
  BY DropPuts, PutCalls DEF NoCall

LEMMA AskCalls ==
    ASSUME AuthInv, NEW t \in Tabs, NEW kind \in Kinds, NEW who \in Someone, Ask(t, kind, who),
           UNCHANGED refreshing
    PROVE  CallsOK'
<1>. DEFINE c == [kind |-> kind, as |-> who, tries |-> 1, state |-> "asked"]
<1>1. PICK n \in Slots : Put(t, n, c)
  BY AskPuts
<1>2. c \in Call /\ c.state # "waiting"
  BY AskedCall
<1>. QED
  BY <1>1, <1>2, PutCalls

\* The requests of one tab are replaced, none of them waits, and its refresh is over.
LEMMA TabCalls ==
    ASSUME AuthInv, NEW t \in Tabs, NEW f \in [Slots -> Call \cup {NoCall}],
           calls' = [calls EXCEPT ![t] = f], \A n \in Slots : f[n].state # "waiting",
           refreshing' = [refreshing EXCEPT ![t] = NoUser]
    PROVE  CallsOK'
<1>1. calls \in Table /\ refreshing \in [Tabs -> Someone]
  BY DEF AuthInv, TypeOK, Table
<1>2. calls' \in Table /\ calls'[t] = f /\ \A t2 \in Tabs \ {t} : calls'[t2] = calls[t2]
  BY <1>1 DEF Table
<1>3. \A t2 \in Tabs \ {t} : refreshing'[t2] = refreshing[t2]
  BY <1>1
<1>4. FirstTry'
  BY <1>2 DEF FirstTry, AuthInv
<1>5. Waiting(t)' = {} /\ \A t2 \in Tabs \ {t} : Waiting(t2)' = Waiting(t2)
  BY <1>2 DEF Waiting
<1>6. NobodyWaitsInVain'
  BY <1>3, <1>5 DEF NobodyWaitsInVain, AuthInv
<1>. QED
  BY <1>2, <1>4, <1>6 DEF CallsOK

LEMMA UserStepCalls ==
    ASSUME AuthInv, NEW t \in Tabs, UserStep(t) \/ Navigate(t)
    PROVE  CallsOK'
<1>1. header[t] \in Someone /\ jwt \in Someone /\ Carried(t) \in Someone
  BY DEF AuthInv, TypeOK, Carried
<1>2. ASSUME NEW kind \in Kinds, Request(t, kind)
      PROVE  CallsOK'
  BY <1>1, <1>2, AskCalls DEF Request, Kinds
<1>3. ASSUME NEW u \in Users, Login(t, u)
      PROVE  CallsOK'
  BY <1>3, AskCalls DEF Login, Kinds, Someone
<1>4. CASE Logout(t)
  BY <1>1, <1>4, AskCalls DEF Logout, Kinds
<1>5. CASE Reload(t)
  <2>. DEFINE me == [NoCalls EXCEPT ![1] = [kind |-> "me", as |-> jwt, tries |-> 1, state |-> "asked"]]
  <2>1. /\ me \in [Slots -> Call \cup {NoCall}] /\ \A n \in Slots : me[n].state # "waiting"
    <3>1. "me" \in Kinds
      BY DEF Kinds
    <3>. HIDE DEF me
    <3>2. /\ me \in [Slots -> Call \cup {NoCall}]
          /\ \A n \in Slots : me[n] \in {NoCall, [kind |-> "me", as |-> jwt, tries |-> 1, state |-> "asked"]}
      BY <1>1, <3>1, AskedCall DEF NoCalls, me
    <3>. QED
      BY <3>2 DEF NoCall
  <2>2. /\ NoCalls \in [Slots -> Call \cup {NoCall}] /\ \A n \in Slots : NoCalls[n].state # "waiting"
    BY DEF NoCalls, NoCall
  <2>3. calls' = [calls EXCEPT ![t] = me] \/ calls' = [calls EXCEPT ![t] = NoCalls]
    BY <1>5 DEF Reload
  <2>. QED
    BY <1>5, <2>1, <2>2, <2>3, TabCalls DEF Reload
<1>6. CASE SocketRefresh(t)
  <2>1. calls' = calls /\ refreshing' = [refreshing EXCEPT ![t] = refresh] /\ refresh # NoUser
    BY <1>6 DEF SocketRefresh
  <2>2. refreshing \in [Tabs -> Someone]
    BY DEF AuthInv, TypeOK
  <2>3. \A t2 \in Tabs : Waiting(t2)' = Waiting(t2)
    BY <2>1 DEF Waiting
  <2>4. NobodyWaitsInVain'
    BY <2>1, <2>2, <2>3 DEF NobodyWaitsInVain, AuthInv
  <2>. QED
    BY <2>1, <2>4, InvCalls DEF CallsOK, FirstTry
<1>7. CASE Navigate(t)
  <2>1. /\ NoCalls \in [Slots -> Call \cup {NoCall}] /\ \A n \in Slots : NoCalls[n].state # "waiting"
    BY DEF NoCalls, NoCall
  <2>. QED
    BY <1>7, <2>1, TabCalls DEF Navigate
<1>. QED
  BY <1>2, <1>3, <1>4, <1>5, <1>6, <1>7 DEF UserStep

\* The first 401 to a request: it waits, for a refresh that was or is now under way.
LEMMA JoinCalls ==
    ASSUME AuthInv, NEW t \in Tabs, NEW n \in Slots, Unauthorized(t, n), JoinRefresh(t, n)
    PROVE  CallsOK'
<1>. DEFINE c == [calls[t][n] EXCEPT !.state = "waiting"]
<1>1. calls[t][n] \in Call /\ calls[t][n].tries = 1
  BY DEF Unauthorized, Asked, AuthInv, TypeOK, NoCall
<1>2. c \in Call /\ c.tries = 1
  BY <1>1 DEF Call
<1>3. Put(t, n, c)
  BY DEF JoinRefresh, Put
<1>4. /\ calls' \in Table
      /\ calls'[t][n] = c
      /\ \A t2 \in Tabs : \A n2 \in Slots :
            <<t2, n2>> # <<t, n>> => calls'[t2][n2] = calls[t2][n2]
  BY <1>2, <1>3, PutStep DEF AuthInv
<1>5. FirstTry'
  <2>. SUFFICES ASSUME NEW t2 \in Tabs, NEW n2 \in Slots, calls'[t2][n2].state = "waiting"
                PROVE  calls'[t2][n2].tries = 1
    BY DEF FirstTry
  <2>1. CASE t2 = t /\ n2 = n
    BY <1>2, <1>4, <2>1
  <2>2. CASE ~(t2 = t /\ n2 = n)
    BY <1>4, <2>2 DEF FirstTry, AuthInv
  <2>. QED
    BY <2>1, <2>2
<1>6. refreshing \in [Tabs -> Someone]
  BY DEF AuthInv, TypeOK
<1>7. refreshing'[t] # NoUser /\ \A t2 \in Tabs \ {t} : refreshing'[t2] = refreshing[t2]
  BY <1>6 DEF JoinRefresh
<1>8. \A t2 \in Tabs \ {t} : Waiting(t2)' = Waiting(t2)
  BY <1>4 DEF Waiting
<1>9. NobodyWaitsInVain'
  BY <1>7, <1>8 DEF NobodyWaitsInVain, AuthInv
<1>. QED
  BY <1>4, <1>5, <1>9 DEF CallsOK

LEMMA AnswerCalls ==
    ASSUME AuthInv, NEW t \in Tabs, NEW n \in Slots, Answer(t, n)
    PROVE  CallsOK'
<1>1. CASE Unauthorized(t, n) /\ JoinRefresh(t, n)
  BY <1>1, JoinCalls
<1>2. CASE ~(Unauthorized(t, n) /\ JoinRefresh(t, n))
  <2>1. Drop(t, n) /\ UNCHANGED refreshing
    BY <1>2 DEF Answer, LoginOk, RequestOk, Unauthorized, NothingToRefresh, PlainUnauthorized,
       RequestRejected, MeUnauthorized, MeFailed, LoggedOut
  <2>. QED
    BY <2>1, DropCalls
<1>. QED
  BY <1>1, <1>2

\* The answer to a refresh: nobody waits for it any more.
LEMMA RefreshCalls ==
    ASSUME AuthInv, NEW t \in Tabs, RefreshAnswer(t)
    PROVE  CallsOK'
<1>1. /\ refreshing[t] \in Someone
      /\ calls[t] \in [Slots -> Call \cup {NoCall}]
      /\ \A n \in Waiting(t) : n \in Slots /\ calls[t][n].tries = 1
      /\ \A n \in Waiting(t) : calls[t][n] \in Call
  BY DEF AuthInv, TypeOK, FirstTry, Waiting, NoCall
<1>2. CASE RefreshOk(t)
  <2>. DEFINE f == [n \in Slots |-> IF n \in Waiting(t) THEN Resent(calls[t][n], refreshing[t])
                                                       ELSE calls[t][n]]
  <2>1. ASSUME NEW n \in Waiting(t)
        PROVE  /\ Resent(calls[t][n], refreshing[t]) \in Call
               /\ Resent(calls[t][n], refreshing[t]).state = "asked"
    <3>1. PICK c \in Call : c = calls[t][n] /\ c.tries = 1
      BY <1>1, <2>1
    <3>2. c.kind \in Kinds /\ c.tries + 1 = 2
      BY <3>1 DEF Call
    <3>. QED
      BY <1>1, <3>1, <3>2 DEF Resent, Call
  <2>2. f \in [Slots -> Call \cup {NoCall}] /\ \A n \in Slots : f[n].state # "waiting"
    BY <1>1, <2>1 DEF Waiting
  <2>3. calls' = [calls EXCEPT ![t] = f] /\ refreshing' = [refreshing EXCEPT ![t] = NoUser]
    BY <1>2 DEF RefreshOk
  <2>. QED
    BY <2>2, <2>3, TabCalls
<1>3. ASSUME NEW unauthorized \in BOOLEAN, RefreshFails(t, unauthorized)
      PROVE  CallsOK'
  <2>. DEFINE f == [n \in Slots |-> IF n \in Waiting(t) THEN NoCall ELSE calls[t][n]]
  <2>1. f \in [Slots -> Call \cup {NoCall}] /\ \A n \in Slots : f[n].state # "waiting"
    BY <1>1 DEF Waiting, NoCall
  <2>2. calls' = [calls EXCEPT ![t] = f] /\ refreshing' = [refreshing EXCEPT ![t] = NoUser]
    BY <1>3 DEF RefreshFails
  <2>. QED
    BY <2>1, <2>2, TabCalls
<1>. QED
  BY <1>2, <1>3 DEF RefreshAnswer

LEMMA InitAuth == Init => AuthInv
<1>. SUFFICES ASSUME Init PROVE AuthInv
  OBVIOUS
<1>1. calls \in Table /\ FirstTry /\ NobodyWaitsInVain
  BY DEF Init, Table, NoCalls, NoCall, FirstTry, NobodyWaitsInVain, Waiting
<1>2. NoUser \in Someone /\ 0 \in 0..MaxStarts
  BY AuthAssumption DEF Someone
<1>3. /\ page \in [Tabs -> {"app", "login"}] /\ leaving \in [Tabs -> BOOLEAN]
      /\ header \in [Tabs -> Someone] /\ refreshing \in [Tabs -> Someone]
  BY <1>2 DEF Init
<1>. QED
  BY <1>1, <1>2, <1>3 DEF Init, AuthInv, TypeOK, Table

LEMMA NextAuth == AuthInv /\ [Next]_vars => AuthInv'
<1>. SUFFICES ASSUME AuthInv, [Next]_vars PROVE AuthInv'
  OBVIOUS
<1>1. ASSUME UNCHANGED vars
      PROVE  CallsOK'
  <2>1. calls' = calls /\ refreshing' = refreshing
    BY <1>1 DEF vars
  <2>. QED
    BY <2>1, InvCalls DEF CallsOK, FirstTry, NobodyWaitsInVain, Waiting
<1>2. CallsOK'
  BY <1>1, UserStepCalls, AnswerCalls, RefreshCalls DEF Next, CallsOK
<1>3. jwt' \in Someone /\ refresh' \in Someone /\ user' \in Someone /\ TabsOK'
  BY StorageTyped, TabsTyped DEF AuthInv
<1>. QED
  BY <1>2, <1>3 DEF CallsOK, TabsOK, AuthInv, TypeOK, Table

LEMMA AuthAlways == Spec => []AuthInv
  BY InitAuth, NextAuth, PTL DEF Spec

\* Storage, tabs and requests keep their types, and no request is sent a third time.
THEOREM TypeCorrect == Spec => []TypeOK
  BY AuthAlways, PTL DEF AuthInv

\* A request that waits for new tokens waits for a refresh that is under way.
THEOREM WaitsForRefresh == Spec => []NobodyWaitsInVain
  BY AuthAlways, PTL DEF AuthInv

-----------------------------------------------------------------------------
(* One account *)

\* Whose tokens are stored, or on their way to be stored.
Accounts == {jwt, refresh, user} \cup {refreshing[t] : t \in Tabs}

\* The refreshes under way are for the stored account as well, or the next answer
\* would bring another one into the storage.
OneAccount == ~crossed => \A u1, u2 \in Accounts \ {NoUser} : u1 = u2

LEMMA InitOneAccount == Init => OneAccount
  BY DEF Init, OneAccount, Accounts

\* A step that brings in nobody new.
LEMMA NobodyNew ==
    ASSUME OneAccount, UNCHANGED crossed, Accounts' \subseteq Accounts \cup {NoUser}
    PROVE  OneAccount'
  BY DEF OneAccount

LEMMA RefreshingStep ==
    ASSUME TypeOK, NEW t \in Tabs, NEW u \in Accounts \cup {NoUser}, UNCHANGED storageVars,
           refreshing' = [refreshing EXCEPT ![t] = u] \/ UNCHANGED refreshing
    PROVE  Accounts' \subseteq Accounts \cup {NoUser}
<1>1. refreshing \in [Tabs -> Someone] /\ refreshing' \in [Tabs -> Someone \cup {u}]
  BY DEF TypeOK
<1>2. \A t2 \in Tabs : refreshing'[t2] \in Accounts \cup {NoUser}
  BY <1>1 DEF Accounts
<1>. QED
  BY <1>2 DEF Accounts, storageVars

\* The storage is cleared, in part or whole, or gets the tokens of one account that is
\* refreshed; the refreshes under way become fewer.
LEMMA StorageStep ==
    ASSUME TypeOK,
           jwt' \in Accounts \cup {NoUser},
           refresh' \in Accounts \cup {NoUser},
           user' \in Accounts \cup {NoUser},
           \A t \in Tabs : refreshing'[t] \in {refreshing[t], NoUser}
    PROVE  Accounts' \subseteq Accounts \cup {NoUser}
  BY DEF Accounts

LEMMA UserStepAccount ==
    ASSUME TypeOK, OneAccount, NEW t \in Tabs, UserStep(t) \/ Navigate(t)
    PROVE  OneAccount'
<1>1. UNCHANGED storageVars /\ UNCHANGED crossed
  BY DEF UserStep, Request, Login, Logout, Reload, SocketRefresh, Navigate
<1>2. \/ refreshing' = [refreshing EXCEPT ![t] = refresh]
      \/ refreshing' = [refreshing EXCEPT ![t] = NoUser]
      \/ UNCHANGED refreshing
  BY DEF UserStep, Request, Login, Logout, Reload, SocketRefresh, Navigate
<1>3. refresh \in Accounts
  BY DEF Accounts
<1>. QED
  BY <1>1, <1>2, <1>3, RefreshingStep, NobodyNew

\* A login replaces the stored account, and says so when another one is being refreshed.
LEMMA LoginAccount ==
    ASSUME TypeOK, NEW t \in Tabs, NEW n \in Slots, LoginOk(t, n)
    PROVE  OneAccount'
<1>. DEFINE u == calls[t][n].as
<1>1. jwt' = u /\ refresh' = u /\ user' = u /\ refreshing' = refreshing
  BY DEF LoginOk, StoreLogin
<1>2. ~crossed' => \A t2 \in Tabs : refreshing[t2] \in {u, NoUser}
  BY DEF LoginOk
<1>3. ~crossed' => Accounts' \subseteq {u, NoUser}
  BY <1>1, <1>2 DEF Accounts
<1>. QED
  BY <1>3 DEF OneAccount

LEMMA AnswerAccount ==
    ASSUME TypeOK, OneAccount, NEW t \in Tabs, NEW n \in Slots, Answer(t, n)
    PROVE  OneAccount'
<1>. USE DEF Answer
<1>1. CASE LoginOk(t, n)
  BY <1>1, LoginAccount
<1>2. CASE Unauthorized(t, n) /\ JoinRefresh(t, n)
  <2>1. UNCHANGED storageVars /\ UNCHANGED crossed /\ refresh \in Accounts
    BY <1>2 DEF Unauthorized, JoinRefresh, Accounts
  <2>2. refreshing' = [refreshing EXCEPT ![t] = refresh] \/ UNCHANGED refreshing
    BY <1>2 DEF JoinRefresh
  <2>. QED
    BY <2>1, <2>2, RefreshingStep, NobodyNew
<1>3. CASE ~LoginOk(t, n) /\ ~(Unauthorized(t, n) /\ JoinRefresh(t, n))
  <2>1. UNCHANGED refreshing /\ UNCHANGED crossed
    BY <1>3 DEF RequestOk, Unauthorized, NothingToRefresh, PlainUnauthorized, RequestRejected,
       MeUnauthorized, MeFailed, LoggedOut
  <2>2. UNCHANGED storageVars \/ Clear(t) \/ (jwt' = NoUser /\ user' = NoUser /\ UNCHANGED refresh)
    BY <1>3 DEF RequestOk, Unauthorized, NothingToRefresh, PlainUnauthorized, RequestRejected,
       MeUnauthorized, MeFailed, LoggedOut, GiveUp
  <2>3. /\ jwt' \in Accounts \cup {NoUser}
        /\ refresh' \in Accounts \cup {NoUser}
        /\ user' \in Accounts \cup {NoUser}
    BY <2>2 DEF storageVars, Clear, Accounts
  <2>. QED
    BY <2>1, <2>3, StorageStep, NobodyNew
<1>. QED
  BY <1>1, <1>2, <1>3

LEMMA RefreshAccount ==
    ASSUME TypeOK, OneAccount, NEW t \in Tabs, RefreshAnswer(t)
    PROVE  OneAccount'
<1>1. UNCHANGED crossed /\ refreshing' = [refreshing EXCEPT ![t] = NoUser]
  BY DEF RefreshAnswer, RefreshOk, RefreshFails
<1>2. \A t2 \in Tabs : refreshing'[t2] \in {refreshing[t2], NoUser}
  BY <1>1 DEF TypeOK
<1>3. \/ UNCHANGED storageVars
      \/ Clear(t)
      \/ jwt' = refreshing[t] /\ refresh' = refreshing[t] /\ UNCHANGED user
  BY DEF RefreshAnswer, RefreshOk, RefreshFails, GiveUp, UpdateTokens
<1>4. refreshing[t] \in Accounts
  BY DEF Accounts
<1>5. /\ jwt' \in Accounts \cup {NoUser}
      /\ refresh' \in Accounts \cup {NoUser}
      /\ user' \in Accounts \cup {NoUser}
  BY <1>3, <1>4 DEF storageVars, Clear, Accounts
<1>. QED
  BY <1>1, <1>2, <1>5, StorageStep, NobodyNew

LEMMA NextAccount == TypeOK /\ OneAccount /\ [Next]_vars => OneAccount'
<1>. SUFFICES ASSUME TypeOK, OneAccount, [Next]_vars PROVE OneAccount'
  OBVIOUS
<1>1. ASSUME UNCHANGED vars
      PROVE  OneAccount'
  BY <1>1 DEF vars, storageVars, OneAccount, Accounts
<1>. QED
  BY <1>1, UserStepAccount, AnswerAccount, RefreshAccount DEF Next

\* The storage never mixes two accounts, for any number of tabs and requests, unless a
\* login overtook the refresh of another account's token.
THEOREM IdentitySafe == Spec => []IdentityAgrees
<1>1. OneAccount => IdentityAgrees
  BY DEF OneAccount, IdentityAgrees, Accounts
<1>. QED
  BY <1>1, InitOneAccount, NextAccount, TypeCorrect, PTL DEF Spec

-----------------------------------------------------------------------------
(* Logout *)

Cleared == jwt' = NoUser /\ refresh' = NoUser /\ user' = NoUser

LEMMA ClearClears == \A t \in Tabs : Clear(t) => Cleared
  BY DEF Clear, Cleared

\* A logout that is no longer in its slot after the step.
LogoutEnds(t, n) == calls[t][n].kind = "logout" /\ calls'[t][n].kind # "logout"

\* A step that puts a request into one slot ends no logout in another.
LEMMA PutEnds ==
    ASSUME TypeOK, NEW t \in Tabs, NEW n \in Slots, NEW c \in Call \cup {NoCall}, Put(t, n, c),
           NEW t2 \in Tabs, NEW n2 \in Slots, LogoutEnds(t2, n2)
    PROVE  t2 = t /\ n2 = n /\ c.kind # "logout"
  BY PutStep DEF LogoutEnds

LEMMA AnswerEnds ==
    ASSUME AuthInv, NEW t \in Tabs, NEW n \in Slots, Answer(t, n),
           NEW t2 \in Tabs, NEW n2 \in Slots, LogoutEnds(t2, n2)
    PROVE  Cleared
<1>1. CASE Unauthorized(t, n) /\ JoinRefresh(t, n)
  <2>. DEFINE c == [calls[t][n] EXCEPT !.state = "waiting"]
  <2>1. calls[t][n] \in Call
    BY <1>1 DEF Unauthorized, Asked, AuthInv, TypeOK, NoCall
  <2>2. c \in Call /\ c.kind = calls[t][n].kind
    BY <2>1 DEF Call
  <2>3. Put(t, n, c)
    BY <1>1 DEF JoinRefresh, Put
  <2>. HIDE DEF c
  <2>4. t2 = t /\ n2 = n /\ c.kind # "logout"
    BY <2>2, <2>3, PutEnds DEF AuthInv
  <2>. QED
    BY <2>2, <2>4 DEF LogoutEnds
<1>2. CASE ~(Unauthorized(t, n) /\ JoinRefresh(t, n))
  <2>1. Put(t, n, NoCall)
    BY <1>2, DropPuts DEF Answer, LoginOk, RequestOk, Unauthorized, NothingToRefresh,
       PlainUnauthorized, RequestRejected, MeUnauthorized, MeFailed, LoggedOut
  <2>2. calls[t][n].kind = "logout"
    BY <2>1, PutEnds DEF AuthInv, LogoutEnds
  <2>3. Clear(t)
    BY <1>2, <2>2 DEF Answer, LoginOk, RequestOk, Unauthorized, NothingToRefresh, GiveUp,
       PlainUnauthorized, RequestRejected, MeUnauthorized, MeFailed, LoggedOut, Asked
  <2>. QED
    BY <2>3, ClearClears
<1>. QED
  BY <1>1, <1>2

\* A refresh that fails ends the logouts that wait for it and clears the storage; one that
\* succeeds has them sent again.
LEMMA RefreshEnds ==
    ASSUME AuthInv, NEW t \in Tabs, RefreshAnswer(t),
           NEW t2 \in Tabs, NEW n2 \in Slots, LogoutEnds(t2, n2)
    PROVE  Cleared
<1>1. calls \in Table
  BY DEF AuthInv, TypeOK, Table
<1>2. CASE RefreshOk(t)
  <2>1. \A n \in Slots : calls'[t][n].kind = calls[t][n].kind
    BY <1>1, <1>2 DEF RefreshOk, Resent, Table
  <2>2. \A t3 \in Tabs \ {t} : calls'[t3] = calls[t3]
    BY <1>1, <1>2 DEF RefreshOk, Table
  <2>. QED
    BY <2>1, <2>2 DEF LogoutEnds
<1>3. ASSUME NEW unauthorized \in BOOLEAN, RefreshFails(t, unauthorized)
      PROVE  Cleared
  <2>1. \A t3 \in Tabs \ {t} : calls'[t3] = calls[t3]
    BY <1>1, <1>3 DEF RefreshFails, Table
  <2>2. \A n \in Slots \ Waiting(t) : calls'[t][n] = calls[t][n]
    BY <1>1, <1>3 DEF RefreshFails, Table
  <2>3. n2 \in Waiting(t)
    BY <2>1, <2>2 DEF LogoutEnds
  <2>. QED
    BY <1>3, <2>3, ClearClears DEF RefreshFails, GiveUp
<1>. QED
  BY <1>2, <1>3 DEF RefreshAnswer

\* What the user does ends a logout only by loading the tab anew.
LEMMA UserEnds ==
    ASSUME AuthInv, NEW t \in Tabs, UserStep(t) \/ Navigate(t),
           NEW t2 \in Tabs, NEW n2 \in Slots, LogoutEnds(t2, n2)
    PROVE  starts' # starts \/ (leaving[t2] /\ ~leaving'[t2])
<1>1. CASE UserStep(t)
  <2>1. starts' = starts + 1
    BY <1>1 DEF UserStep, Request, Login, Logout, Reload, SocketRefresh, Start
  <2>2. starts \in 0..MaxStarts
    BY DEF AuthInv, TypeOK
  <2>3. starts' # starts
    BY <2>1, <2>2
  <2>. QED
    BY <2>3
<1>2. CASE Navigate(t)
  <2>1. calls \in Table /\ leaving \in [Tabs -> BOOLEAN]
    BY DEF AuthInv, TypeOK, Table
  <2>2. \A t3 \in Tabs \ {t} : calls'[t3] = calls[t3]
    BY <1>2, <2>1 DEF Navigate, Table
  <2>3. leaving[t] /\ ~leaving'[t]
    BY <1>2, <2>1 DEF Navigate
  <2>. QED
    BY <2>2, <2>3 DEF LogoutEnds
<1>. QED
  BY <1>1, <1>2

\* However a logout ends, the storage is clear when it has, for any number of tabs and of
\* requests that end with it.
THEOREM LogoutSafe == Spec => LogoutClears
<1>1. ASSUME AuthInv, [Next]_vars
      PROVE  [\A t \in Tabs : \A n \in Slots :
                calls[t][n].kind = "logout" /\ calls'[t][n].kind # "logout" =>
                   \/ jwt' = NoUser /\ refresh' = NoUser /\ user' = NoUser
                   \/ starts' # starts
                   \/ leaving[t] /\ ~leaving'[t]]_vars
  <2>1. ASSUME Next, NEW t2 \in Tabs, NEW n2 \in Slots, LogoutEnds(t2, n2)
        PROVE  Cleared \/ starts' # starts \/ (leaving[t2] /\ ~leaving'[t2])
    <3>1. PICK t \in Tabs : \/ UserStep(t) \/ Navigate(t)
                           \/ \E n \in Slots : Answer(t, n)
                           \/ RefreshAnswer(t)
      BY <2>1 DEF Next
    <3>2. CASE UserStep(t) \/ Navigate(t)
      BY <1>1, <2>1, <3>2, UserEnds
    <3>3. CASE \E n \in Slots : Answer(t, n)
      BY <1>1, <2>1, <3>3, AnswerEnds
    <3>4. CASE RefreshAnswer(t)
      BY <1>1, <2>1, <3>4, RefreshEnds
    <3>. QED
      BY <3>1, <3>2, <3>3, <3>4
  <2>. QED
    BY <1>1, <2>1 DEF LogoutEnds, Cleared
<1>. QED
  BY <1>1, AuthAlways, PTL DEF Spec, LogoutClears

-----------------------------------------------------------------------------
(* How far a request has come *)

\* The answers a request can still get: the first, that of the refresh it waits for,
\* and the one to what is sent again.
Left(c) ==
    IF c = NoCall THEN 0
    ELSE IF c.state = "waiting" THEN 2
    ELSE IF c.tries = 1 THEN 3 ELSE 1

\* A request stays the one it is and has fewer answers before it, or is gone.
Advances(c, d) == d = NoCall \/ (d.kind = c.kind /\ Left(d) < Left(c))

(* Nothing sends a request back: whatever happens in any tab, a request that is in
   flight is left alone or comes closer to its end, which is three answers away at
   most, unless its tab is loaded anew.  A new request takes a free slot. *)
RequestsAdvance ==
    [][\A t \in Tabs : \A n \in Slots :
          calls[t][n] # NoCall =>
             \/ calls'[t][n] = calls[t][n]
             \/ Advances(calls[t][n], calls'[t][n])
             \/ Reload(t)]_vars

\* What a step does to the request in one slot.
Moves(t, n) ==
    calls[t][n] # NoCall =>
       \/ calls'[t][n] = calls[t][n]
       \/ Advances(calls[t][n], calls'[t][n])
       \/ Reload(t)

\* A request is dropped, or put where none was, or only those of one tab are touched.
LEMMA PutMoves ==
    ASSUME TypeOK, NEW t \in Tabs, NEW n \in Slots, NEW c \in Call \cup {NoCall}, Put(t, n, c),
           calls[t][n] = NoCall \/ Advances(calls[t][n], c),
           NEW t2 \in Tabs, NEW n2 \in Slots
    PROVE  Moves(t2, n2)
<1>1. CASE t2 = t /\ n2 = n
  BY <1>1, PutStep DEF Moves
<1>2. CASE <<t2, n2>> # <<t, n>>
  BY <1>2, PutStep DEF Moves
<1>. QED
  BY <1>1, <1>2

LEMMA AskMoves ==
    ASSUME TypeOK, NEW t \in Tabs, NEW kind \in Kinds, NEW who \in Someone, Ask(t, kind, who),
           NEW t2 \in Tabs, NEW n2 \in Slots
    PROVE  Moves(t2, n2)
<1>. DEFINE c == [kind |-> kind, as |-> who, tries |-> 1, state |-> "asked"]
<1>1. PICK n \in Slots : calls[t][n] = NoCall /\ Put(t, n, c)
  BY AskPuts
<1>2. c \in Call
  BY AskedCall
<1>. HIDE DEF c
<1>. QED
  BY <1>1, <1>2, PutMoves

LEMMA DropMoves ==
    ASSUME TypeOK, NEW t \in Tabs, NEW n \in Slots, Drop(t, n),
           NEW t2 \in Tabs, NEW n2 \in Slots
    PROVE  Moves(t2, n2)
<1>1. NoCall \in Call \cup {NoCall} /\ Advances(calls[t][n], NoCall)
  BY DEF Advances
<1>. QED
  BY <1>1, DropPuts, PutMoves

\* The user's steps leave the requests in flight alone, except that a page is loaded.
LEMMA UserMoves ==
    ASSUME TypeOK, NEW t \in Tabs, UserStep(t) \/ Navigate(t),
           NEW t2 \in Tabs, NEW n2 \in Slots
    PROVE  Moves(t2, n2)
<1>1. header[t] \in Someone /\ jwt \in Someone /\ Carried(t) \in Someone
  BY DEF TypeOK, Carried
<1>2. ASSUME NEW kind \in Kinds, Request(t, kind)
      PROVE  Moves(t2, n2)
  BY <1>1, <1>2, AskMoves DEF Request, Kinds
<1>3. ASSUME NEW u \in Users, Login(t, u)
      PROVE  Moves(t2, n2)
  BY <1>3, AskMoves DEF Login, Kinds, Someone
<1>4. CASE Logout(t)
  BY <1>1, <1>4, AskMoves DEF Logout, Kinds
<1>5. CASE SocketRefresh(t)
  BY <1>5 DEF SocketRefresh, Moves
<1>6. ASSUME NEW f, calls' = [calls EXCEPT ![t] = f], t2 # t
      PROVE  Moves(t2, n2)
  BY <1>6 DEF Moves, TypeOK
<1>7. CASE Reload(t)
  <2>1. CASE t2 = t
    BY <1>7, <2>1 DEF Moves
  <2>2. CASE t2 # t
    BY <1>6, <1>7, <2>2 DEF Reload
  <2>. QED
    BY <2>1, <2>2
<1>8. CASE Navigate(t)
  <2>1. calls \in Table
    BY DEF TypeOK, Table
  <2>2. calls'[t] = NoCalls
    BY <1>8, <2>1 DEF Navigate, Table
  <2>3. CASE t2 = t
    BY <2>2, <2>3 DEF Moves, Advances, NoCalls
  <2>4. CASE t2 # t
    BY <1>6, <1>8, <2>4 DEF Navigate
  <2>. QED
    BY <2>3, <2>4
<1>. QED
  BY <1>2, <1>3, <1>4, <1>5, <1>7, <1>8 DEF UserStep

\* An answer ends its request or, the first time it is refused, has it wait.
LEMMA AnswerMoves ==
    ASSUME TypeOK, NEW t \in Tabs, NEW n \in Slots, Answer(t, n),
           NEW t2 \in Tabs, NEW n2 \in Slots
    PROVE  Moves(t2, n2)
<1>1. CASE Unauthorized(t, n) /\ JoinRefresh(t, n)
  <2>. DEFINE c == calls[t][n]
              d == [c EXCEPT !.state = "waiting"]
  <2>1. c \in Call /\ c.tries = 1 /\ c.state = "asked"
    BY <1>1 DEF Unauthorized, Asked, TypeOK, NoCall
  <2>2. d \in Call /\ d.kind = c.kind /\ d.state = "waiting"
    BY <2>1 DEF Call
  <2>3. c # NoCall /\ d # NoCall
    BY <2>1, <2>2 DEF NoCall
  <2>4. Left(c) = 3 /\ Left(d) = 2
    BY <2>1, <2>2, <2>3 DEF Left
  <2>5. Put(t, n, d)
    BY <1>1 DEF JoinRefresh, Put
  <2>6. Advances(c, d)
    BY <2>2, <2>4 DEF Advances
  <2>. HIDE DEF c, d
  <2>. QED
    BY <2>2, <2>5, <2>6, PutMoves DEF c
<1>2. CASE Drop(t, n)
  BY <1>2, DropMoves
<1>. QED
  BY <1>1, <1>2 DEF Answer, LoginOk, RequestOk, Unauthorized, NothingToRefresh,
     PlainUnauthorized, RequestRejected, MeUnauthorized, MeFailed, LoggedOut

\* A refresh sends what waited for it a second time, or ends it.
LEMMA RefreshMoves ==
    ASSUME AuthInv, NEW t \in Tabs, RefreshAnswer(t), NEW t2 \in Tabs, NEW n2 \in Slots
    PROVE  Moves(t2, n2)
<1>1. calls \in Table
  BY DEF AuthInv, TypeOK, Table
<1>2. CASE RefreshOk(t)
  <2>. DEFINE u == refreshing[t]
              c == calls[t][n2]
              d == Resent(c, u)
  <2>1. CASE t2 = t /\ n2 \in Waiting(t)
    <3>1. calls'[t2][n2] = d
      BY <1>1, <1>2, <2>1 DEF RefreshOk, Table
    <3>2. c \in Call /\ c.state = "waiting" /\ c.tries = 1
      BY <2>1 DEF Waiting, AuthInv, FirstTry, TypeOK, NoCall
    <3>3. d.kind = c.kind /\ d.tries = 2 /\ d.state = "asked"
      BY <3>2 DEF Resent
    <3>4. c # NoCall /\ d # NoCall
      BY <3>2, <3>3 DEF NoCall
    <3>5. Left(c) = 2 /\ Left(d) = 1
      BY <3>2, <3>3, <3>4 DEF Left
    <3>. QED
      BY <2>1, <3>1, <3>3, <3>5 DEF Moves, Advances
  <2>2. CASE t2 = t /\ n2 \notin Waiting(t)
    BY <1>1, <1>2, <2>2 DEF RefreshOk, Table, Moves
  <2>3. CASE t2 # t
    BY <1>1, <1>2, <2>3 DEF RefreshOk, Table, Moves
  <2>. QED
    BY <2>1, <2>2, <2>3
<1>3. ASSUME NEW unauthorized \in BOOLEAN, RefreshFails(t, unauthorized)
      PROVE  Moves(t2, n2)
  <2>1. CASE t2 = t /\ n2 \in Waiting(t)
    <3>1. calls'[t2][n2] = NoCall
      BY <1>1, <1>3, <2>1 DEF RefreshFails, Table
    <3>. QED
      BY <3>1 DEF Moves, Advances
  <2>2. CASE t2 = t /\ n2 \notin Waiting(t)
    BY <1>1, <1>3, <2>2 DEF RefreshFails, Table, Moves
  <2>3. CASE t2 # t
    BY <1>1, <1>3, <2>3 DEF RefreshFails, Table, Moves
  <2>. QED
    BY <2>1, <2>2, <2>3
<1>. QED
  BY <1>2, <1>3 DEF RefreshAnswer

\* The safety part of RequestsSettle, for any number of tabs and requests: what is left
\* to fairness is only that the answers come.
THEOREM CallsAdvance == Spec => RequestsAdvance
<1>1. ASSUME AuthInv, [Next]_vars
      PROVE  [\A t \in Tabs : \A n \in Slots :
                calls[t][n] # NoCall =>
                   \/ calls'[t][n] = calls[t][n]
                   \/ Advances(calls[t][n], calls'[t][n])
                   \/ Reload(t)]_vars
  <2>1. ASSUME Next, NEW t2 \in Tabs, NEW n2 \in Slots
        PROVE  Moves(t2, n2)
    BY <1>1, <2>1, UserMoves, AnswerMoves, RefreshMoves DEF Next, AuthInv
  <2>. QED
    BY <1>1, <2>1 DEF Moves
<1>. QED
  BY <1>1, AuthAlways, PTL DEF Spec, RequestsAdvance

=============================================================================
