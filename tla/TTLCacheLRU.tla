----------------------------- MODULE TTLCacheLRU -----------------------------
(***************************************************************************)
(* What least-recently-used eviction promises the cache's users, stated    *)
(* over TTLCache with two history variables.  The code's own argument      *)
(* (cache.py:28-33) is that the warm loop's keys fit into max_entries, so  *)
(* that a caller walking over other keys cannot push them out for good.    *)
(***************************************************************************)
EXTENDS TTLCache, FiniteSets

VARIABLES
  kept,   \* history: keys stored and not invalidated since
  since   \* history: the other keys used since each key's last use

history == <<kept, since>>

HInit ==
  /\ Init
  /\ kept = {}
  /\ since = [k \in Key |-> {}]

Used(k) == since' = [j \in Key |-> IF j = k THEN {} ELSE since[j] \cup {k}]

HNext ==
  \/ \E k \in Key :
       /\ \/ ServeFresh(k)
          \/ ServeMarked(k)
          \/ \E t \in Task : ServeStale(t, k)
       /\ Used(k)
       /\ UNCHANGED kept
  \/ \E t \in Task :
       /\ Complete(t)
       /\ Used(task[t].key)
       /\ kept' = kept \cup {task[t].key}
  \/ \E k \in Key :
       /\ Invalidate(k)
       /\ kept' = kept \ {k}
       /\ UNCHANGED since
  \/ /\ InvalidateAll
     /\ kept' = {}
     /\ UNCHANGED since
  \/ /\ \/ \E t \in Task : Answer(t) \/ Fail(t)
        \/ \E t \in Task, k \in Key : ColdMiss(t, k)
        \/ \E k \in Key : Expire(k)
        \/ SourceChanges
     /\ UNCHANGED history

HSpec == HInit /\ [][HNext]_<<vars, history>>

-----------------------------------------------------------------------------
\* A stored key leaves the cache, unless invalidated, only after Capacity
\* other keys have been used since its own last use: never because it is
\* stale, never because its refresh failed, and not while callers return to
\* it within a working set of Capacity keys.
WorkingSetStays ==
  \A k \in kept : Cached(k) \/ Cardinality(since[k]) >= Capacity

=============================================================================
