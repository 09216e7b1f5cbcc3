---------------------------- MODULE CostService ----------------------------
(***************************************************************************)
(* The service behind every cost endpoint (service.py, class CostService)  *)
(* with the callers that drive it: request handlers, the warm loop and the *)
(* registry poll (app.py), and POST /api/refresh (routes.py).              *)
(*                                                                         *)
(* The five TTLCaches are SWRCaches, which is all the service relies on:   *)
(* one instance, in which the keys of one cache are each other's peers.    *)
(* A handler is a walk: a sequence of queries, each over the projects that *)
(* the map holds when the query starts, one awaited fetch after the other. *)
(* The event loop is free for other coroutines only while every walker     *)
(* waits for a fetch: a row that is served from a cache does not yield.    *)
(***************************************************************************)
EXTENDS Integers, Sequences, FiniteSets

CONSTANTS
  Project,     \* slugs the registry may report
  Kind,        \* what is cached per project: one of the five data, one window
  CacheOf,     \* which of the five caches a kind is in
  Endpoint,    \* the endpoints: sequences of queries, which are sets of kinds
  WarmUp,      \* the queries of _warm_cache
  Request,     \* names of the request handlers under way at once
  Warmer,      \* the warm loop and the warm-up at start, two more walks
  Slot,        \* names of the background refreshes; bounds how many run at once
  MaxEntries,  \* DEFAULT_MAX_ENTRIES
  None         \* absent

ASSUME QueriesAssumption == Endpoint \subseteq Seq(SUBSET Kind) /\ WarmUp \in Seq(SUBSET Kind)
ASSUME EntriesAssumption == MaxEntries \in Nat \ {0}
ASSUME NamesAssumption == Warmer \cap Request = {} /\ Slot \cap (Request \cup Warmer) = {}

VARIABLES
  held, fresh, pending, fetch,  \* the caches (see SWRCache)
  present,      \* keys of _project_map and of _clients
  lastUpdated,  \* whether _last_updated is set
  clientless,   \* refreshes that found no client for their key
  walk          \* the handlers and the warm loop

Key == Project \X Kind
Walker == Request \cup Warmer

\* A walker that misses waits for a fetch of its own, under its own name.
Cache ==
  INSTANCE SWRCache WITH
    Task <- Walker \cup Slot,
    Peers <- [k \in Key |-> {j \in Key : CacheOf[j[2]] = CacheOf[k[2]]}],
    Capacity <- MaxEntries

caches == <<held, fresh, pending, fetch>>
vars == <<caches, present, lastUpdated, clientless, walk>>

-----------------------------------------------------------------------------
\* `todo`: keys of the current query without a row; `rest`: queries to come.
Resting == [pc |-> "idle", todo |-> {}, rest |-> <<>>]

TypeOK ==
  /\ Cache!TypeOK
  /\ present \subseteq Project
  /\ lastUpdated \in BOOLEAN
  /\ clientless \subseteq Slot
  /\ walk \in [Walker -> [pc : {"idle", "next", "fetch"}, todo : SUBSET Key,
                          rest : Seq(SUBSET Kind)]]

Init ==
  /\ Cache!Init
  /\ present = {}
  /\ lastUpdated = FALSE
  /\ clientless = {}
  /\ walk = [w \in Walker |-> Resting]

-----------------------------------------------------------------------------
(* A walk.                                                                 *)

\* No walker is between two awaits.
LoopFree == \A w \in Walker : walk[w].pc # "next"

Start(w, queries) ==
  /\ LoopFree
  /\ walk[w].pc = "idle"
  /\ walk' = [walk EXCEPT ![w] = [pc |-> "next", todo |-> {}, rest |-> queries]]
  /\ UNCHANGED <<caches, present, lastUpdated, clientless>>

Begin(r) == \E queries \in Endpoint : Start(r, queries)

\* Mutant: no warm-up while some data is there.
StartWarmUpCold(w) ==
  /\ present # {}
  /\ ~ lastUpdated
  /\ Start(w, WarmUp)

\* _warm_cache, which returns at once while no project is known.
StartWarmUp(w) ==
  /\ present # {}
  /\ Start(w, WarmUp)

\* The next query resolves its projects, _projects(slug): "all" (as the warm-up
\* asks), those of a component, or a single one.  A slug that is not known, or
\* no longer, ends the request with 404, here a query without projects.
Ask(w) ==
  /\ walk[w].pc = "next" /\ walk[w].todo = {} /\ walk[w].rest # <<>>
  /\ \E S \in IF w \in Warmer THEN {present} ELSE SUBSET present :
       walk' = [walk EXCEPT ![w].todo = S \X Head(walk[w].rest), ![w].rest = Tail(@)]
  /\ UNCHANGED <<caches, present, lastUpdated, clientless>>

\* The walk goes on with a row for k, fetched or defaulted.
Answered(w, k) ==
  walk' = [walk EXCEPT ![w].pc = "next", ![w].todo = @ \ {k}]

\* The clients are looked up when a fetch starts, in the map of that moment.
HasClient(k) == k[1] \in present

\* get_or_fetch serves what it holds.  The refresh of a project that has left
\* the map finds no client: it can only fail.
Serve(w, k) ==
  /\ walk[w].pc = "next"
  /\ k \in walk[w].todo
  /\ \/ Cache!Hit(k) /\ UNCHANGED <<caches, clientless>>
     \/ \E t \in Slot :
          /\ Cache!ServeStale(t, k)
          /\ clientless' = IF HasClient(k) THEN clientless ELSE clientless \cup {t}
  /\ Answered(w, k)
  /\ UNCHANGED <<present, lastUpdated>>

\* A cold key: the walker waits for the fetch.
Wait(w, k) ==
  /\ walk[w].pc = "next"
  /\ k \in walk[w].todo
  /\ HasClient(k)
  /\ Cache!ColdMiss(w, k)
  /\ walk' = [walk EXCEPT ![w].pc = "fetch"]
  /\ UNCHANGED <<present, lastUpdated, clientless>>

\* A cold key of a project that has left the map: the KeyError is caught by
\* _safe_project_fetch and the row is a default.
Gone(w, k) ==
  /\ walk[w].pc = "next"
  /\ k \in walk[w].todo \ held
  /\ ~ HasClient(k)
  /\ Answered(w, k)
  /\ UNCHANGED <<caches, present, lastUpdated, clientless>>

\* The response is complete, or the warm-up done.
Respond(w) ==
  /\ walk[w].pc = "next" /\ walk[w].todo = {} /\ walk[w].rest = <<>>
  /\ walk' = [walk EXCEPT ![w] = Resting]
  /\ UNCHANGED <<caches, present, lastUpdated, clientless>>

-----------------------------------------------------------------------------
(* Fetches of Langfuse data.                                               *)

\* Whoever awaits t goes on: a walker with its row, a refresh with nothing.
Resume(t) ==
  IF t \in Walker THEN Answered(t, fetch[t].key) ELSE UNCHANGED walk

\* The result is stored and on_refresh, _touch_last_updated, is called.
Deliver(t) ==
  /\ LoopFree
  /\ t \notin clientless
  /\ Cache!Complete(t)
  /\ lastUpdated' = TRUE
  /\ Resume(t)
  /\ UNCHANGED <<present, clientless>>

\* Mutant: a walk tries again until its fetch succeeds.
FetchFailsRetried(t) ==
  /\ LoopFree
  /\ Cache!Fail(t)
  /\ IF t \in Walker THEN walk' = [walk EXCEPT ![t].pc = "next"] ELSE UNCHANGED walk
  /\ clientless' = clientless \ {t}
  /\ UNCHANGED <<present, lastUpdated>>

\* The fetch raised: _safe_project_fetch answers a walker with a default.
FetchFails(t) ==
  /\ LoopFree
  /\ Cache!Fail(t)
  /\ Resume(t)
  /\ clientless' = clientless \ {t}
  /\ UNCHANGED <<present, lastUpdated>>

-----------------------------------------------------------------------------
(* The registry poll and the invalidation.                                 *)

\* Mutant: the time of the last refresh survives.
ClearKeepsTime ==
  /\ LoopFree
  /\ Cache!InvalidateAll
  /\ UNCHANGED lastUpdated

\* invalidate_all
Clear ==
  /\ LoopFree
  /\ Cache!InvalidateAll
  /\ lastUpdated' = FALSE

\* refresh_projects once the registry has answered with the projects S.  A
\* refresh without a client has not started, or it would have failed already:
\* it may find one now.
RefreshProjects ==
  \E S \in (SUBSET Project) \ {{}} :
    /\ present' = S
    /\ Clear
    /\ clientless' = {t \in clientless : fetch[t].key[1] \notin S}
    /\ UNCHANGED walk

\* The registry fails or reports no project: the map and the caches are kept.
RegistryFails == UNCHANGED vars

\* POST /api/refresh
RefreshCache ==
  /\ Clear
  /\ UNCHANGED <<present, clientless, walk>>

-----------------------------------------------------------------------------
\* The clock passes a deadline.  Bound: not more keys are stale and unmarked
\* than there are free Slots, so that no walk waits for one.
Expire(k) ==
  /\ Cardinality(held \ (fresh \cup pending)) < Cardinality({t \in Slot : fetch[t] = Cache!Idle})
  /\ Cache!Expire(k)
  /\ UNCHANGED <<present, lastUpdated, clientless, walk>>

Step(w) ==
  \/ \E k \in Key : Serve(w, k) \/ Wait(w, k) \/ Gone(w, k)
  \/ Ask(w)
  \/ Respond(w)

\* What happens without anybody pressing refresh.
Routine ==
  \/ \E r \in Request : Begin(r)
  \/ \E w \in Warmer : StartWarmUp(w)
  \/ \E w \in Walker : Step(w)
  \/ \E t \in Walker \cup Slot : Deliver(t) \/ FetchFails(t)
  \/ RefreshProjects \/ RegistryFails
  \/ \E k \in Key : Expire(k)

Next == Routine \/ RefreshCache

Spec == Init /\ [][Next]_vars

\* The event loop runs every coroutine that is ready, the HTTP client's timeout
\* ends every fetch, and the warm loop sleeps for a fixed time.  Strong fairness
\* for what waits until the loop is free, which it is again and again.
Fairness ==
  /\ \A w \in Walker : WF_vars(Step(w))
  /\ \A w \in Warmer : SF_vars(StartWarmUp(w))
  /\ \A t \in Walker \cup Slot : SF_vars(Deliver(t) \/ FetchFails(t))

FairSpec == Spec /\ Fairness

-----------------------------------------------------------------------------
(* Properties.                                                             *)

\* The dashboard shows a time of refresh exactly while some cache holds data
\* (service.py:97): a fetch that was under way during an invalidation sets it
\* again, and the registry poll resets it with the caches.
LastUpdatedInv == lastUpdated <=> held # {}

\* Every request is answered, whatever happens to its fetches, to the caches
\* and to the project map in the meantime.
RequestsEnd == \A r \in Request : (walk[r].pc # "idle") ~> (walk[r].pc = "idle")

\* The keys of the known projects that share a cache have room in it.
Fits == \A c \in Kind : Cardinality({k \in present \X Kind : CacheOf[k[2]] = CacheOf[c]}) <= MaxEntries

\* From some moment on nobody clears the caches, in which there is room, and
\* Langfuse answers, now and then, each key the warm loop asks for.
Quiet ==
  /\ <>[][~ RefreshProjects /\ ~ RefreshCache]_vars
  /\ <>[]Fits
  /\ \A w \in Warmer, k \in Key : SF_vars(fetch[w].key = k /\ Deliver(w))

Preloaded == UNION {WarmUp[i] : i \in DOMAIN WarmUp}

\* What config.py:102-106 wants of the warm loop, once it is left in peace: all
\* its aggregates are there and stay, although fetches fail, a warm-up may have
\* been overtaken by a poll, and late answers of earlier projects come in.
AggregatesReturn == Quiet => <>[](present \X Preloaded \subseteq held)

=============================================================================
