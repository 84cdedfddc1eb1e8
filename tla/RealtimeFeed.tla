---------------------------- MODULE RealtimeFeed ----------------------------
(***************************************************************************)
(* What the pages of the agent get from the WebSocket: whether events      *)
(* arrive, and whose handlers are called when one does.                    *)
(*                                                                         *)
(* The provider keeps the handlers in a Map that is React state.  A socket *)
(* calls the handlers of the Map that was current when it was made         *)
(* (captured).  Registering writes into the current Map before it copies   *)
(* it, so the first registration after a socket is made still reaches the  *)
(* captured Map, unless something was unregistered before (aliased).       *)
(* RealtimeSocket implements this specification.                           *)
(***************************************************************************)
EXTENDS FiniteSets

CONSTANTS
    Sessions, \* conversations, the keys of their message handlers
    Global    \* the key '*' of the inbox's global handler

Keys == Sessions \cup {Global}

VARIABLES
    listening, \* whether events reach the socket's onmessage
    handlers,  \* keys of the provider's current Map
    captured,  \* keys of the Map in the closure of the socket's onmessage
    aliased    \* whether the two are one object

mapVars == <<handlers, captured, aliased>>
feedVars == <<listening, mapVars>>

TypeOK ==
    /\ listening \in BOOLEAN
    /\ handlers \subseteq Keys
    /\ captured \subseteq Keys
    /\ aliased \in BOOLEAN

Init ==
    /\ listening = FALSE
    /\ handlers = {}
    /\ captured = {}
    /\ aliased = FALSE

-----------------------------------------------------------------------------
(* The provider's Map *)

\* Mutant: the socket's closure sees the Map through a ref.
RegisterByRef(k) ==
    /\ handlers' = handlers \cup {k}
    /\ captured' = captured \cup {k}
    /\ aliased' = FALSE

\* A consumer's effect registers its handler: prev.set, then the copy.
Register(k) ==
    /\ handlers' = handlers \cup {k}
    /\ captured' = IF aliased THEN captured \cup {k} ELSE captured
    /\ aliased' = FALSE

\* The cleanup copies the Map, then deletes.
Unregister(k) ==
    /\ handlers' = handlers \ {k}
    /\ aliased' = FALSE
    /\ UNCHANGED captured

\* The cleanup of the effect for k, then the effect for k2, which registers in
\* the copy the cleanup has made.
Replace(k, k2) ==
    /\ handlers' = (handlers \ {k}) \cup {k2}
    /\ aliased' = FALSE
    /\ UNCHANGED captured

\* registerMessageHandler changes with isConnected: every consumer unregisters
\* and registers again, the same keys in a new Map.
Reregister ==
    /\ aliased' = (aliased /\ handlers = {})
    /\ UNCHANGED <<handlers, captured>>

\* A new socket captures the Map of the present render.
Bind ==
    /\ captured' = handlers
    /\ aliased' = TRUE
    /\ UNCHANGED handlers

-----------------------------------------------------------------------------
NewSocket == ~listening /\ Bind /\ UNCHANGED listening
StartListening == ~listening /\ listening' = TRUE /\ UNCHANGED mapVars
StopListening == listening /\ listening' = FALSE /\ Reregister
ConnectionChanges == ~listening /\ Reregister /\ UNCHANGED listening

\* The layout is left and entered again: new state.
Reset ==
    /\ listening' = FALSE
    /\ handlers' = {}
    /\ captured' = {}
    /\ aliased' = FALSE

FeedStep == NewSocket \/ StartListening \/ StopListening \/ ConnectionChanges

\* A page shows one conversation at a time.
ConsumerStep ==
    /\ \/ \E k \in Keys \ handlers :
            /\ k \in Sessions => handlers \cap Sessions = {}
            /\ Register(k)
       \/ \E k \in handlers \cap Sessions : Unregister(k)
       \/ \E k \in handlers \cap Sessions : \E k2 \in Sessions \ {k} : Replace(k, k2)
    /\ UNCHANGED listening

Next == FeedStep \/ ConsumerStep \/ Reset

Spec == Init /\ [][Next]_feedVars

\* An event of conversation k calls k's handler.
Notified(k) == listening /\ k \in captured

-----------------------------------------------------------------------------
(* One socket serves at most one conversation: whoever selects a second one
   while it lives gets no realtime messages for that. *)
ServesOne == \A k1, k2 \in captured \cap Sessions : k1 = k2
=============================================================================
