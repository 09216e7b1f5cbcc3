------------------------------ MODULE TTLCache ------------------------------
(***************************************************************************)
(* The stale-while-revalidate cache of cache.py (class TTLCache).          *)
(*                                                                         *)
(* All callers share one asyncio event loop, so a coroutine runs without   *)
(* interruption from one await to the next: each action below is such a    *)
(* segment.  get_or_fetch(k) either serves from the store in one segment   *)
(* (ServeFresh, ServeStale) or suspends in fetch_fn (ColdMiss) and resumes *)
(* at Complete or Fail; a background refresh has the same two ends.        *)
(*                                                                         *)
(* A cached value is the version of the backend's data that the fetch      *)
(* read, and the clock is abstracted to the set of entries whose deadline  *)
(* is still ahead: Expire(k) is the clock passing the deadline of k.       *)
(***************************************************************************)
EXTENDS Integers, SequencesExt

CONSTANTS
  Key,         \* cache keys: (project slug, hours)
  Task,        \* names for the suspended coroutines; bounds how many run at once
  MaxEntries,  \* the max_entries argument
  MaxVersion,  \* bound: the backend's data changes at most this often
  None         \* absent

ASSUME MaxEntriesAssumption == MaxEntries \in Int
ASSUME MaxVersionAssumption == MaxVersion \in Nat
ASSUME NoneAssumption == None \notin Nat \cup Key

VARIABLES
  lru,       \* order of the OrderedDict _store, least recently used first
  store,     \* value of each key, None when the key is not in _store
  fresh,     \* cached keys whose deadline has not passed
  pending,   \* _pending: keys marked as being refreshed
  task,      \* the suspended coroutines
  source,    \* version of the backend's data
  floor,     \* history: version of the data at the last invalidate()
  orphaned   \* history: refreshes whose mark somebody else cleared

vars == <<lru, store, fresh, pending, task, source, floor, orphaned>>

-----------------------------------------------------------------------------
Version == 0 .. MaxVersion

Idle == [kind |-> "idle", key |-> None, read |-> None]

TypeOK ==
  /\ lru \in Seq(Key)
  /\ store \in [Key -> Version \cup {None}]
  /\ fresh \subseteq Key
  /\ pending \subseteq Key
  /\ task \in [Task -> {Idle} \cup [kind : {"cold", "refresh"},
                                   key : Key,
                                   read : Version \cup {None}]]
  /\ source \in Version
  /\ floor \in Version
  /\ orphaned \subseteq Task

Init ==
  /\ lru = <<>>
  /\ store = [k \in Key |-> None]
  /\ fresh = {}
  /\ pending = {}
  /\ task = [t \in Task |-> Idle]
  /\ source = 0
  /\ floor = 0
  /\ orphaned = {}

-----------------------------------------------------------------------------
(* Helpers.                                                                *)

\* Mutant: max_entries unclamped.
CapacityUnclamped == MaxEntries

\* max(1, max_entries)
Capacity == IF MaxEntries > 1 THEN MaxEntries ELSE 1

Cached(k) == store[k] # None

RefreshesOf(K) == {t \in Task : task[t].kind = "refresh" /\ task[t].key \in K}

PositionOf(s, k) == CHOOSE i \in DOMAIN s : s[i] = k

Without(s, k) == IF k \in ToSet(s) THEN RemoveAt(s, PositionOf(s, k)) ELSE s

\* OrderedDict.move_to_end, also right after inserting k
MoveToEnd(s, k) == Append(Without(s, k), k)

\* Mutant: the store may exceed max_entries by one.
OverflowLate(k) ==
  LET order == MoveToEnd(lru, k)
  IN  IF Len(order) > Capacity + 1 THEN {Head(order)} ELSE {}

\* The keys popitem(last=False) drops once k has been stored: one at most,
\* since the store was within its capacity before.
Overflow(k) ==
  LET order == MoveToEnd(lru, k)
  IN  IF Len(order) > Capacity THEN {Head(order)} ELSE {}

\* Take the marks of the keys K away; `done` are the refreshes that end with it.
ClearMarks(K, done) ==
  /\ pending' = pending \ K
  /\ orphaned' = (orphaned \cup RefreshesOf(K)) \ done

\* Mutant: popitem() without last=False drops the newest key.
StoreNewestOut(k, value) ==
  LET order == MoveToEnd(lru, k)
      evicted == IF Len(order) > Capacity THEN {k} ELSE {}
  IN  /\ lru' = IF evicted = {} THEN order ELSE Front(order)
      /\ store' = [j \in Key |-> IF j \in evicted THEN None
                                 ELSE IF j = k THEN value ELSE store[j]]
      /\ fresh' = (fresh \cup {k}) \ evicted

\* _store_entry
StoreEntry(k, value) ==
  LET order == MoveToEnd(lru, k)
      evicted == Overflow(k)
  IN  /\ lru' = IF evicted = {} THEN order ELSE Tail(order)
      /\ store' = [j \in Key |-> IF j \in evicted THEN None
                                 ELSE IF j = k THEN value ELSE store[j]]
      /\ fresh' = (fresh \cup {k}) \ evicted

-----------------------------------------------------------------------------
(* get_or_fetch(k), up to its first await or its return.                   *)

\* Mutant: a hit is not moved to the end of the order.
ServeFreshInPlace(k) ==
  /\ Cached(k)
  /\ k \in fresh
  /\ UNCHANGED vars

ServeFresh(k) ==
  /\ Cached(k)
  /\ k \in fresh
  /\ lru' = MoveToEnd(lru, k)
  /\ UNCHANGED <<store, fresh, pending, task, source, floor, orphaned>>

\* Mutant: every stale hit starts a refresh.
ServeStaleAlways(t, k) ==
  /\ Cached(k)
  /\ k \notin fresh
  /\ task[t] = Idle
  /\ lru' = MoveToEnd(lru, k)
  /\ pending' = pending \cup {k}
  /\ task' = [task EXCEPT ![t] = [kind |-> "refresh", key |-> k, read |-> None]]
  /\ UNCHANGED <<store, fresh, source, floor, orphaned>>

\* Stale and nobody refreshes it yet: serve it and start a refresh task t.
ServeStale(t, k) ==
  /\ Cached(k)
  /\ k \notin fresh
  /\ k \notin pending
  /\ task[t] = Idle
  /\ lru' = MoveToEnd(lru, k)
  /\ pending' = pending \cup {k}
  /\ task' = [task EXCEPT ![t] = [kind |-> "refresh", key |-> k, read |-> None]]
  /\ UNCHANGED <<store, fresh, source, floor, orphaned>>

\* Stale and marked: serve it, the refresh is somebody else's.
ServeMarked(k) ==
  /\ Cached(k)
  /\ k \notin fresh
  /\ k \in pending
  /\ lru' = MoveToEnd(lru, k)
  /\ UNCHANGED <<store, fresh, pending, task, source, floor, orphaned>>

\* Nothing cached: the caller itself waits for the fetch.
ColdMiss(t, k) ==
  /\ ~ Cached(k)
  /\ task[t] = Idle
  /\ task' = [task EXCEPT ![t] = [kind |-> "cold", key |-> k, read |-> None]]
  /\ UNCHANGED <<lru, store, fresh, pending, source, floor, orphaned>>

-----------------------------------------------------------------------------
(* fetch_fn: the backend reads its data, the answer travels back.          *)

Answer(t) ==
  /\ task[t] # Idle
  /\ task[t].read = None
  /\ task' = [task EXCEPT ![t].read = source]
  /\ UNCHANGED <<lru, store, fresh, pending, source, floor, orphaned>>

\* Mutant: an evicted key keeps its mark.
CompleteKeepsMarks(t) ==
  LET k == task[t].key
      refreshed == IF task[t].kind = "refresh" THEN {k} ELSE {}
  IN  /\ task[t] # Idle
      /\ task[t].read # None
      /\ StoreEntry(k, task[t].read)
      /\ ClearMarks(refreshed, {t})
      /\ task' = [task EXCEPT ![t] = Idle]
      /\ UNCHANGED <<source, floor>>

\* The fetch returned: store the result; a refresh then clears its mark.
Complete(t) ==
  LET k == task[t].key
      refreshed == IF task[t].kind = "refresh" THEN {k} ELSE {}
  IN  /\ task[t] # Idle
      /\ task[t].read # None
      /\ StoreEntry(k, task[t].read)
      /\ ClearMarks(Overflow(k) \cup refreshed, {t})
      /\ task' = [task EXCEPT ![t] = Idle]
      /\ UNCHANGED <<source, floor>>

\* Mutant: a failed fetch stores a default in place of data.
FailStoresDefault(t) ==
  /\ task[t] # Idle
  /\ StoreEntry(task[t].key, -1)
  /\ ClearMarks(Overflow(task[t].key) \cup {task[t].key}, {t})
  /\ task' = [task EXCEPT ![t] = Idle]
  /\ UNCHANGED <<source, floor>>

\* Mutant: only a successful refresh clears its mark.
FailKeepsMark(t) ==
  /\ task[t] # Idle
  /\ ClearMarks({}, {t})
  /\ task' = [task EXCEPT ![t] = Idle]
  /\ UNCHANGED <<lru, store, fresh, source, floor>>

\* The fetch raised: a cold caller gets the exception, a refresh swallows it.
Fail(t) ==
  LET refreshed == IF task[t].kind = "refresh" THEN {task[t].key} ELSE {}
  IN  /\ task[t] # Idle
      /\ ClearMarks(refreshed, {t})
      /\ task' = [task EXCEPT ![t] = Idle]
      /\ UNCHANGED <<lru, store, fresh, source, floor>>

-----------------------------------------------------------------------------
(* invalidate(k) and invalidate().                                         *)

Invalidate(k) ==
  /\ lru' = Without(lru, k)
  /\ store' = [store EXCEPT ![k] = None]
  /\ fresh' = fresh \ {k}
  /\ ClearMarks({k}, {})
  /\ UNCHANGED <<task, source, floor>>

InvalidateAll ==
  /\ lru' = <<>>
  /\ store' = [k \in Key |-> None]
  /\ fresh' = {}
  /\ ClearMarks(Key, {})
  /\ floor' = source
  /\ UNCHANGED <<task, source>>

-----------------------------------------------------------------------------
(* Environment: time and the backend.                                      *)

Expire(k) ==
  /\ k \in fresh
  /\ fresh' = fresh \ {k}
  /\ UNCHANGED <<lru, store, pending, task, source, floor, orphaned>>

SourceChanges ==
  /\ source < MaxVersion
  /\ source' = source + 1
  /\ UNCHANGED <<lru, store, fresh, pending, task, floor, orphaned>>

Next ==
  \/ \E k \in Key :
       \/ ServeFresh(k)
       \/ ServeMarked(k)
       \/ Invalidate(k)
       \/ Expire(k)
       \/ \E t \in Task : ServeStale(t, k) \/ ColdMiss(t, k)
  \/ \E t \in Task : Answer(t) \/ Complete(t) \/ Fail(t)
  \/ InvalidateAll
  \/ SourceChanges

Spec == Init /\ [][Next]_vars

-----------------------------------------------------------------------------
(* Safety.                                                                 *)

\* The store is one OrderedDict: its order names every cached key once, holds
\* at most max_entries keys (cache.py:45-48), and only cached keys are fresh.
StoreInv ==
  /\ IsInjective(lru)
  /\ ToSet(lru) = {k \in Key : Cached(k)}
  /\ Len(lru) <= Capacity
  /\ fresh \subseteq ToSet(lru)

\* A mark stands for a running refresh, whatever was invalidated, evicted,
\* stored again or failed in between: a key whose mark outlived its refresh
\* would be served stale for ever, since no caller starts another one.
MarkHasRefresh ==
  \A k \in pending : Cached(k) /\ \E t \in RefreshesOf({k}) : t \notin orphaned

\* The refreshes of one key that still own its mark are at most one, and the
\* mark is set as long as it runs: only an invalidation or an eviction lets a
\* second fetch of a cached key start beside the first.
OneRefreshPerKey ==
  \A k \in Key : \A t, u \in RefreshesOf({k}) \ orphaned :
    t = u /\ k \in pending

\* service.py:102, routes.py:331-336: after an invalidation "the next request
\* fetches fresh data".  A fetch already under way at that moment stores what
\* it read before, so this does not hold of the code.
FreshAfterInvalidate == \A k \in Key : Cached(k) => store[k] >= floor

-----------------------------------------------------------------------------
(* Refinement.                                                             *)

SWR ==
  INSTANCE SWRCache WITH
    Peers <- [k \in Key |-> Key],
    held <- {k \in Key : Cached(k)},
    fetch <- [t \in Task |-> [kind |-> task[t].kind, key |-> task[t].key]]

\* What the service relies on: get_or_fetch, the background refreshes and the
\* invalidations behave, under every interleaving, as SWRCache says.  A value
\* leaves only for another key of a full cache, a failure changes nothing
\* that is held, and a refresh disturbs no mark but its own and the evicted.
ImplementsSWR == SWR!Spec

-----------------------------------------------------------------------------
(* Liveness.  The event loop resumes every coroutine whose await is over,  *)
(* the HTTP client's timeout ends every fetch one way or the other, and    *)
(* the clock moves.                                                        *)

Fairness ==
  /\ \A t \in Task : WF_vars(Complete(t)) /\ WF_vars(Answer(t) \/ Fail(t))
  /\ \A k \in Key : WF_vars(Expire(k))

FairSpec == Spec /\ Fairness

\* Every mark is cleared again, also when the refresh fails.
MarksAreCleared == \A k \in Key : (k \in pending) ~> (k \notin pending)

\* The warm loop (app.py:119-128) keeps asking for its keys, and the backend
\* answers for each of them now and then.  Task bounds the model, not the code:
\* that a request gets a free slot is part of the assumption.
Demand ==
  \A k \in Key :
    /\ SF_vars(\E t \in Task : ServeStale(t, k) \/ ColdMiss(t, k))
    /\ SF_vars(\E t \in Task : task[t].key = k /\ Answer(t))
    /\ SF_vars(\E t \in Task : task[t].key = k /\ Complete(t))

\* Stale data does not stay: under such demand the cache comes to hold the
\* backend's current data again and again, although stale entries are never
\* dropped, refreshes may fail and old answers may be stored late.
DataArrives == Demand => \A k \in Key : []<>(store[k] = source)

=============================================================================
