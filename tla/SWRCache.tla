------------------------------ MODULE SWRCache ------------------------------
(***************************************************************************)
(* What cache.py promises to the service that uses it, without saying how: *)
(* a bounded set of held keys that is served while stale and fetched again *)
(* behind the caller's back.  There is no order of use here, no deadline   *)
(* and no value; TTLCache implements it (ImplementsSWR there).             *)
(*                                                                         *)
(* Several caches with one key space are one instance: the keys of a cache *)
(* are each other's peers, they share its capacity and evict each other.   *)
(***************************************************************************)
EXTENDS Integers, FiniteSets

CONSTANTS
  Key,       \* the keys of all caches
  Task,      \* names for the suspended coroutines
  Peers,     \* Peers[k]: the keys of the cache that k belongs to
  Capacity,  \* how many keys one cache holds
  None       \* absent

VARIABLES
  held,     \* keys with a value
  fresh,    \* held keys that need no refresh yet
  pending,  \* held keys that are being refreshed
  fetch     \* the suspended coroutines

vars == <<held, fresh, pending, fetch>>

Idle == [kind |-> "idle", key |-> None]

Fetching(kind, k) == [kind |-> kind, key |-> k]

TypeOK ==
  /\ held \subseteq Key
  /\ fresh \subseteq Key
  /\ pending \subseteq Key
  /\ fetch \in [Task -> {Idle} \cup [kind : {"cold", "refresh"}, key : Key]]

Init ==
  /\ held = {}
  /\ fresh = {}
  /\ pending = {}
  /\ fetch = [t \in Task |-> Idle]

-----------------------------------------------------------------------------
\* The caller gets a value at once and nothing else happens.
Hit(k) ==
  /\ k \in held
  /\ k \in fresh \/ k \in pending

\* The caller gets a stale value at once, and t starts to refresh it.
ServeStale(t, k) ==
  /\ k \in held \ (fresh \cup pending)
  /\ fetch[t] = Idle
  /\ pending' = pending \cup {k}
  /\ fetch' = [fetch EXCEPT ![t] = Fetching("refresh", k)]
  /\ UNCHANGED <<held, fresh>>

\* Nothing is held for k: the caller t waits for its own fetch.
ColdMiss(t, k) ==
  /\ k \in Key \ held
  /\ fetch[t] = Idle
  /\ fetch' = [fetch EXCEPT ![t] = Fetching("cold", k)]
  /\ UNCHANGED <<held, fresh, pending>>

\* What storing k may drop: one peer, and only from a cache that is full.
Victims(k) ==
  LET full == Cardinality((held \cap Peers[k]) \cup {k}) > Capacity
  IN  IF full THEN {{j} : j \in (held \cap Peers[k]) \ {k}} ELSE {{}}

Marked(t) == IF fetch[t].kind = "refresh" THEN {fetch[t].key} ELSE {}

\* The fetch of t succeeded.
Complete(t) ==
  /\ fetch[t] # Idle
  /\ \E out \in Victims(fetch[t].key) :
       /\ held' = (held \cup {fetch[t].key}) \ out
       /\ fresh' = (fresh \cup {fetch[t].key}) \ out
       /\ pending' = pending \ (out \cup Marked(t))
  /\ fetch' = [fetch EXCEPT ![t] = Idle]

\* The fetch of t failed: nothing is stored, nothing is dropped.
Fail(t) ==
  /\ fetch[t] # Idle
  /\ pending' = pending \ Marked(t)
  /\ fetch' = [fetch EXCEPT ![t] = Idle]
  /\ UNCHANGED <<held, fresh>>

Invalidate(k) ==
  /\ held' = held \ {k}
  /\ fresh' = fresh \ {k}
  /\ pending' = pending \ {k}
  /\ UNCHANGED fetch

InvalidateAll ==
  /\ held' = {}
  /\ fresh' = {}
  /\ pending' = {}
  /\ UNCHANGED fetch

Expire(k) ==
  /\ k \in fresh
  /\ fresh' = fresh \ {k}
  /\ UNCHANGED <<held, pending, fetch>>

Next ==
  \/ \E k \in Key : Invalidate(k) \/ Expire(k)
  \/ \E t \in Task, k \in Key : ServeStale(t, k) \/ ColdMiss(t, k)
  \/ \E t \in Task : Complete(t) \/ Fail(t)
  \/ InvalidateAll

Spec == Init /\ [][Next]_vars

=============================================================================
