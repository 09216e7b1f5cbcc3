-------------------------- MODULE TTLCacheLRUProofs --------------------------
(***************************************************************************)
(* Proofs about TTLCacheLRU: what least-recently-used eviction promises,   *)
(* for every set of keys, every number of suspended coroutines and every   *)
(* max_entries.                                                            *)
(*                                                                         *)
(* An evicted key is the first in the order of a store that is over its    *)
(* capacity, so Capacity keys come after it; what remains to be shown is   *)
(* that the order tells the truth about use.                               *)
(***************************************************************************)
EXTENDS TTLCacheLRU, TTLCacheProofs, FiniteSetTheorems

\* A key that comes later in the order was used since.
InUseOrder(order, used) ==
  \A i, j \in DOMAIN order : i < j => order[j] \in used[order[i]]

HInv ==
  /\ IInv
  /\ kept \subseteq Key
  /\ since \in [Key -> SUBSET Key]
  /\ \A k \in Key : IsFiniteSet(since[k])
  /\ InUseOrder(lru, since)
  /\ WorkingSetStays

-----------------------------------------------------------------------------
(* Orders.                                                                 *)

\* The keys that stay keep their order when one is removed.
LEMMA WithoutKeepsOrder ==
  ASSUME NEW S, NEW s \in Seq(S), NEW k, NEW used, InUseOrder(s, used)
  PROVE  InUseOrder(Without(s, k), used)
<1>1. CASE k \notin ToSet(s)
  BY <1>1 DEF Without
<1>2. CASE k \in ToSet(s)
  <2> DEFINE r == Without(s, k)
             n == Len(s)
  <2>1. PICK p \in 1 .. n :
          /\ r \in Seq(S) /\ Len(r) = n - 1
          /\ \A i \in 1 .. n - 1 : r[i] = IF i < p THEN s[i] ELSE s[i + 1]
    BY <1>2, RemovalShifts
  <2> DEFINE q(i) == IF i < p THEN i ELSE i + 1
  <2>2. n \in Nat /\ DOMAIN s = 1 .. n /\ DOMAIN r = 1 .. n - 1
    BY <2>1
  <2> HIDE DEF r, n
  <2>3. \A i \in 1 .. n - 1 : q(i) \in 1 .. n /\ r[i] = s[q(i)]
    BY <2>1, <2>2
  <2>4. \A i, j \in 1 .. n - 1 : i < j => q(i) < q(j)
    BY <2>1, <2>2
  <2> HIDE DEF q
  <2>5. \A i, j \in 1 .. n - 1 : i < j => r[j] \in used[r[i]]
    BY <2>2, <2>3, <2>4 DEF InUseOrder
  <2> QED BY <2>2, <2>5 DEF InUseOrder, r
<1> QED BY <1>1, <1>2

\* More use does no harm to the order.
LEMMA MoreUseKeepsOrder ==
  ASSUME NEW s \in Seq(Key), NEW used, NEW more, InUseOrder(s, used),
         \A x \in ToSet(s) : used[x] \subseteq more[x]
  PROVE  InUseOrder(s, more)
<1>1. \A i \in DOMAIN s : s[i] \in ToSet(s)
  BY DEF ToSet
<1> QED BY <1>1 DEF InUseOrder

\* After its use a key is rightly the last of the order.
LEMMA UseKeepsOrder ==
  ASSUME HInv, NEW k \in Key, Used(k)
  PROVE  /\ since' \in [Key -> SUBSET Key]
         /\ \A j \in Key : IsFiniteSet(since'[j])
         /\ \A j \in Key \ {k} : since'[j] = since[j] \cup {k}
         /\ InUseOrder(MoveToEnd(lru, k), since')
<1>1. since' = [j \in Key |-> IF j = k THEN {} ELSE since[j] \cup {k}]
  BY DEF Used
<1>2. since' \in [Key -> SUBSET Key]
  BY <1>1 DEF HInv
<1>3. \A j \in Key : IsFiniteSet(since'[j])
  BY <1>1, FS_EmptySet, FS_AddElement DEF HInv
<1> DEFINE w == Without(lru, k)
           m == MoveToEnd(lru, k)
<1>4. /\ w \in Seq(Key) /\ ToSet(w) = ToSet(lru) \ {k}
      /\ InUseOrder(w, since)
  BY WithoutIsRemoval, WithoutKeepsOrder DEF HInv, IInv, TypeOK, StoreInv
<1>5. \A x \in ToSet(w) : x \in Key \ {k}
  BY <1>4 DEF ToSet
<1>6. InUseOrder(w, since')
  <2>1. \A x \in ToSet(w) : since[x] \subseteq since'[x]
    BY <1>1, <1>5
  <2> QED BY <1>4, <2>1, MoreUseKeepsOrder
<1> HIDE DEF w
<1>7. m \in Seq(Key) /\ Len(m) = Len(w) + 1 /\ m[Len(w) + 1] = k
      /\ \A i \in 1 .. Len(w) : m[i] = w[i]
  BY <1>4 DEF MoveToEnd, w
<1> HIDE DEF m
<1>8. ASSUME NEW i \in DOMAIN m, NEW j \in DOMAIN m, i < j PROVE m[j] \in since'[m[i]]
  <2>1. i \in 1 .. Len(w) /\ i \in DOMAIN w /\ m[i] = w[i]
    BY <1>4, <1>7, <1>8
  <2>2. CASE j = Len(w) + 1
    <3>1. m[i] \in Key \ {k}
      BY <1>5, <2>1 DEF ToSet
    <3> QED BY <1>1, <1>7, <2>2, <3>1
  <2>3. CASE j # Len(w) + 1
    <3>1. j \in DOMAIN w /\ m[j] = w[j]
      BY <1>4, <1>7, <2>3
    <3> QED BY <1>6, <1>8, <2>1, <3>1 DEF InUseOrder
  <2> QED BY <2>2, <2>3
<1> QED BY <1>1, <1>2, <1>3, <1>8 DEF InUseOrder, m

\* A key that has Capacity others after it in the order has been idle while
\* that many others were used.
LEMMA FirstIsIdle ==
  ASSUME NEW s \in Seq(Key), IsInjective(s), Len(s) > Capacity, NEW used,
         InUseOrder(s, used), IsFiniteSet(used[s[1]])
  PROVE  Cardinality(used[s[1]]) >= Capacity
<1> DEFINE D == 2 .. Capacity + 1
           f == [i \in D |-> s[i]]
<1>1. Capacity \in Nat \ {0} /\ Len(s) \in Nat /\ DOMAIN s = 1 .. Len(s)
  BY MaxEntriesAssumption DEF Capacity
<1>2. \A i \in D : i \in DOMAIN s /\ 1 \in DOMAIN s /\ 1 < i
  BY <1>1
<1>3. f \in [D -> used[s[1]]]
  BY <1>2 DEF InUseOrder
<1>4. f \in Injection(D, used[s[1]])
  BY <1>2, <1>3 DEF Injection, IsInjective
<1>5. Cardinality(D) = Capacity
  <2>1. Capacity + 1 \in Int /\ ~ (2 > Capacity + 1) /\ (Capacity + 1) - 2 + 1 = Capacity
    BY <1>1
  <2>2. Cardinality(D) = IF 2 > Capacity + 1 THEN 0 ELSE (Capacity + 1) - 2 + 1
    BY <2>1, FS_Interval
  <2> QED BY <2>1, <2>2
<1>6. Cardinality(D) <= Cardinality(used[s[1]])
  BY <1>4, FS_Injection
<1>7. Cardinality(used[s[1]]) \in Nat
  BY FS_CardinalityType
<1> QED BY <1>1, <1>5, <1>6, <1>7

-----------------------------------------------------------------------------
(* The invariant.                                                          *)

\* The history variables only watch the cache.
LEMMA HistoryOnlyWatches == [HNext]_<<vars, history>> => [Next]_vars
BY DEF HNext, Next, vars

\* An empty cache has used nothing.
LEMMA HInitEstablishesHInv == HInit => HInv
<1> SUFFICES ASSUME HInit PROVE HInv
  OBVIOUS
<1>1. IInv
  BY InitEstablishesIInv DEF HInit
<1> QED BY <1>1, FS_EmptySet DEF HInit, HInv, Init, InUseOrder, WorkingSetStays

\* A set that gains a member gets no smaller.
LEMMA MoreIsNotLess ==
  ASSUME NEW S, IsFiniteSet(S), NEW x
  PROVE  Cardinality(S \cup {x}) >= Cardinality(S)
BY FS_AddElement, FS_CardinalityType

\* Use and eviction keep the promise.
LEMMA StoringKeepsPromise ==
  ASSUME HInv, NEW k \in Key, NEW v \in Version, StoreEntry(k, v), Used(k),
         kept' = kept \cup {k}
  PROVE  InUseOrder(lru', since') /\ WorkingSetStays'
<1> DEFINE order == MoveToEnd(lru, k)
<1>1. /\ \A j \in Key : IsFiniteSet(since'[j])
      /\ \A j \in Key \ {k} : since'[j] = since[j] \cup {k}
      /\ InUseOrder(order, since')
  BY UseKeepsOrder
<1>2. order \in Seq(Key) /\ IsInjective(order)
  BY MoveToEndKeepsKeys DEF HInv, IInv, TypeOK, StoreInv
<1>3. /\ Overflow(k) \subseteq Key \ {k}
      /\ \A j \in Key : Cached(j)' <=> (j = k \/ Cached(j)) /\ j \notin Overflow(k)
  BY StoreEntryKeepsStore DEF HInv, IInv
<1>4. /\ Overflow(k) = IF Len(order) > Capacity THEN {Head(order)} ELSE {}
      /\ lru' = IF Overflow(k) = {} THEN order ELSE Tail(order)
  BY DEF StoreEntry, Overflow
<1>5. Capacity \in Nat \ {0}
  BY MaxEntriesAssumption DEF Capacity
<1> HIDE DEF order
<1>6. InUseOrder(lru', since')
  <2>1. CASE Len(order) > Capacity
    <3>1. lru' = Tail(order) /\ Len(order) > 0
      BY <1>2, <1>4, <1>5, <2>1
    <3>2. /\ \A i \in DOMAIN lru' : i + 1 \in DOMAIN order /\ lru'[i] = order[i + 1]
          /\ \A i \in DOMAIN lru' : i \in Int
      BY <1>2, <3>1
    <3> QED BY <1>1, <3>2 DEF InUseOrder
  <2>2. CASE ~ (Len(order) > Capacity)
    BY <1>1, <1>4, <2>2
  <2> QED BY <2>1, <2>2
<1>7. ASSUME NEW j \in kept', ~ Cached(j)' PROVE Cardinality(since'[j]) >= Capacity
  <2>1. j \in Key
    BY <1>7 DEF HInv
  <2>2. CASE j \in Overflow(k)
    <3>1. Len(order) > Capacity /\ j = order[1]
      BY <1>2, <1>4, <1>5, <2>2
    <3> QED BY <1>1, <1>2, <2>1, <3>1, FirstIsIdle
  <2>3. CASE j \notin Overflow(k)
    <3>1. j # k /\ ~ Cached(j) /\ j \in kept
      BY <1>3, <1>7, <2>1, <2>3
    <3>2. Cardinality(since[j]) >= Capacity /\ IsFiniteSet(since[j])
      BY <2>1, <3>1 DEF HInv, WorkingSetStays
    <3>3. since'[j] = since[j] \cup {k}
      BY <1>1, <2>1, <3>1
    <3>4. Cardinality(since'[j]) >= Cardinality(since[j])
      BY <3>2, <3>3, MoreIsNotLess
    <3>5. Cardinality(since'[j]) \in Nat /\ Cardinality(since[j]) \in Nat
      BY <1>1, <2>1, <3>2, FS_CardinalityType
    <3> QED BY <1>5, <3>2, <3>4, <3>5
  <2> QED BY <2>2, <2>3
<1>8. Capacity' = Capacity
  BY DEF Capacity
<1> QED BY <1>6, <1>7, <1>8 DEF WorkingSetStays

\* One case per group of actions.
LEMMA HNextPreservesHInv == HInv /\ [HNext]_<<vars, history>> => HInv'
<1> SUFFICES ASSUME HInv, [HNext]_<<vars, history>> PROVE HInv'
  OBVIOUS
<1>1. IInv'
  BY HistoryOnlyWatches, NextPreservesIInv DEF HInv
<1>2. Capacity \in Nat \ {0} /\ Capacity' = Capacity
  BY MaxEntriesAssumption DEF Capacity
<1>3. ASSUME NEW k \in Key, Used(k), lru' = MoveToEnd(lru, k), Cached(k),
             UNCHANGED <<store, kept>>
      PROVE  HInv'
  <2>1. /\ since' \in [Key -> SUBSET Key]
        /\ \A j \in Key : IsFiniteSet(since'[j])
        /\ \A j \in Key \ {k} : since'[j] = since[j] \cup {k}
        /\ InUseOrder(lru', since')
    BY <1>3, UseKeepsOrder
  <2>2. ASSUME NEW j \in kept', ~ Cached(j)' PROVE Cardinality(since'[j]) >= Capacity
    <3>1. j \in Key \ {k} /\ j \in kept /\ ~ Cached(j)
      BY <1>3, <2>2 DEF HInv, Cached
    <3>2. Cardinality(since[j]) >= Capacity /\ IsFiniteSet(since[j])
      BY <3>1 DEF HInv, WorkingSetStays
    <3>3. Cardinality(since'[j]) >= Cardinality(since[j])
      BY <2>1, <3>1, <3>2, MoreIsNotLess
    <3>4. Cardinality(since'[j]) \in Nat /\ Cardinality(since[j]) \in Nat
      BY <2>1, <3>1, <3>2, FS_CardinalityType
    <3> QED BY <1>2, <3>2, <3>3, <3>4
  <2> QED BY <1>1, <1>2, <1>3, <2>1, <2>2 DEF HInv, WorkingSetStays
<1>4. ASSUME NEW t \in Task, Complete(t), Used(task[t].key), kept' = kept \cup {task[t].key}
      PROVE  HInv'
  <2> DEFINE k == task[t].key
             v == task[t].read
  <2>1. k \in Key /\ v \in Version /\ StoreEntry(k, v)
    BY <1>4, NoneAssumption, MaxVersionAssumption
    DEF Complete, HInv, IInv, TypeOK, Idle, Version
  <2> HIDE DEF k, v
  <2>2. Used(k) /\ kept' = kept \cup {k}
    BY <1>4 DEF k
  <2>3. since' \in [Key -> SUBSET Key] /\ \A j \in Key : IsFiniteSet(since'[j])
    BY <2>1, <2>2, UseKeepsOrder
  <2>4. InUseOrder(lru', since') /\ WorkingSetStays'
    BY <2>1, <2>2, StoringKeepsPromise
  <2> QED BY <1>1, <2>1, <2>2, <2>3, <2>4 DEF HInv
<1>5. ASSUME NEW k \in Key, Invalidate(k), kept' = kept \ {k}, UNCHANGED since PROVE HInv'
  <2>1. lru' = Without(lru, k) /\ \A j \in Key \ {k} : Cached(j)' <=> Cached(j)
    BY <1>5 DEF Invalidate, Cached, HInv, IInv, TypeOK
  <2>2. InUseOrder(lru', since')
    BY <1>5, <2>1, WithoutKeepsOrder DEF HInv, IInv, TypeOK
  <2>3. WorkingSetStays'
    BY <1>2, <1>5, <2>1 DEF WorkingSetStays, HInv
  <2> QED BY <1>1, <1>5, <2>2, <2>3 DEF HInv
<1>6. ASSUME InvalidateAll, kept' = {}, UNCHANGED since PROVE HInv'
  BY <1>1, <1>6 DEF InvalidateAll, HInv, InUseOrder, WorkingSetStays
<1>7. ASSUME UNCHANGED <<lru, store, history>> PROVE HInv'
  BY <1>1, <1>2, <1>7 DEF HInv, history, WorkingSetStays, Cached
<1>8. ASSUME \/ \E t \in Task : Answer(t) \/ Fail(t)
             \/ \E t \in Task, k \in Key : ColdMiss(t, k)
             \/ \E k \in Key : Expire(k)
             \/ SourceChanges
      PROVE  UNCHANGED <<lru, store>>
  BY <1>8 DEF Answer, Fail, ColdMiss, Expire, SourceChanges
<1>9. ASSUME NEW k \in Key,
             ServeFresh(k) \/ ServeMarked(k) \/ \E t \in Task : ServeStale(t, k)
      PROVE  lru' = MoveToEnd(lru, k) /\ Cached(k) /\ UNCHANGED store
  BY <1>9 DEF ServeFresh, ServeMarked, ServeStale
<1>10. CASE UNCHANGED <<vars, history>>
  BY <1>7, <1>10 DEF vars
<1>11. CASE HNext
  <2>1. CASE \E k \in Key : /\ \/ ServeFresh(k)
                               \/ ServeMarked(k)
                               \/ \E t \in Task : ServeStale(t, k)
                            /\ Used(k)
                            /\ UNCHANGED kept
    BY <2>1, <1>3, <1>9
  <2>2. CASE /\ \/ \E t \in Task : Answer(t) \/ Fail(t)
                \/ \E t \in Task, k \in Key : ColdMiss(t, k)
                \/ \E k \in Key : Expire(k)
                \/ SourceChanges
             /\ UNCHANGED history
    BY <2>2, <1>7, <1>8
  <2> QED BY <1>4, <1>5, <1>6, <1>11, <2>1, <2>2 DEF HNext
<1> QED BY <1>10, <1>11

\* A stored key is not evicted before Capacity other keys have been used since
\* its own last use (cache.py:28-33, 118-125): what the warm loop keeps warm
\* stays, whatever callers walk over, as long as it fits.
THEOREM WorkingSetIsSafe == HSpec => []WorkingSetStays
<1>1. HInv => WorkingSetStays
  BY DEF HInv
<1> QED BY <1>1, HInitEstablishesHInv, HNextPreservesHInv, PTL DEF HSpec

=============================================================================
