--------------------------- MODULE TTLCacheProofs ---------------------------
(***************************************************************************)
(* TLAPS proofs about TTLCache, for every set of keys, every number of     *)
(* suspended coroutines and every max_entries.                             *)
(***************************************************************************)
EXTENDS TTLCache, SequenceTheorems, FiniteSetTheorems, TLAPS

(***************************************************************************)
(* The order of the OrderedDict as a sequence without repetitions.         *)
(***************************************************************************)

\* Removing a key that is there closes the gap at its position.
LEMMA RemovalShifts ==
  ASSUME NEW S, NEW s \in Seq(S), NEW k \in ToSet(s)
  PROVE  \E p \in 1 .. Len(s) :
           /\ s[p] = k
           /\ Without(s, k) \in Seq(S) /\ Len(Without(s, k)) = Len(s) - 1
           /\ \A i \in 1 .. Len(s) - 1 :
                Without(s, k)[i] = IF i < p THEN s[i] ELSE s[i + 1]
<1> DEFINE p == PositionOf(s, k)
           a == SubSeq(s, 1, p - 1)
           b == SubSeq(s, p + 1, Len(s))
           r == a \o b
<1>1. p \in 1 .. Len(s) /\ s[p] = k
  BY DEF PositionOf, ToSet
<1>2. Without(s, k) = r
  BY DEF Without, RemoveAt
<1> HIDE DEF p
<1>3. /\ a \in Seq(S) /\ Len(a) = p - 1
      /\ \A i \in 1 .. p - 1 : a[i] = s[i]
      /\ b \in Seq(S) /\ Len(b) = Len(s) - p
      /\ \A i \in 1 .. Len(s) - p : b[i] = s[p + i]
  BY <1>1
<1> HIDE DEF a, b
<1>4. /\ r \in Seq(S)
      /\ Len(r) = Len(s) - 1
      /\ \A i \in 1 .. Len(s) - 1 : r[i] = IF i < p THEN s[i] ELSE s[i + 1]
  <2>1. /\ r \in Seq(S) /\ Len(r) = Len(s) - 1
        /\ \A i \in 1 .. Len(r) : r[i] = IF i <= Len(a) THEN a[i] ELSE b[i - Len(a)]
    BY <1>1, <1>3
  <2>2. ASSUME NEW i \in 1 .. Len(s) - 1
        PROVE  r[i] = IF i < p THEN s[i] ELSE s[i + 1]
    <3>1. CASE i < p
      BY <3>1, <2>1, <1>1, <1>3
    <3>2. CASE i >= p
      <4>1. i - Len(a) \in 1 .. Len(s) - p /\ p + (i - Len(a)) = i + 1
        BY <3>2, <1>1, <1>3
      <4>2. b[i - Len(a)] = s[p + (i - Len(a))]
        BY <4>1, <1>3
      <4>3. r[i] = b[i - Len(a)]
        BY <3>2, <2>1, <1>3, <1>1
      <4>4. QED BY <4>1, <4>2, <4>3, <3>2, <1>1
    <3>3. i < p \/ i >= p
      BY <1>1
    <3>4. QED BY <3>1, <3>2, <3>3
  <2>3. QED BY <2>1, <2>2
<1>5. QED BY <1>1, <1>2, <1>4

\* Removing a key (pop, and the first half of move_to_end) keeps the others,
\* each once, and shortens the order by one exactly when the key was in it.
LEMMA WithoutIsRemoval ==
  ASSUME NEW S, NEW s \in Seq(S), IsInjective(s), NEW k
  PROVE  /\ Without(s, k) \in Seq(S)
         /\ IsInjective(Without(s, k))
         /\ ToSet(Without(s, k)) = ToSet(s) \ {k}
         /\ Len(Without(s, k)) = IF k \in ToSet(s) THEN Len(s) - 1 ELSE Len(s)
<1>1. CASE k \notin ToSet(s)
  BY <1>1 DEF Without
<1>2. CASE k \in ToSet(s)
  <2> DEFINE r == Without(s, k)
  <2>1. PICK p \in 1 .. Len(s) :
          /\ s[p] = k /\ r \in Seq(S) /\ Len(r) = Len(s) - 1
          /\ \A i \in 1 .. Len(s) - 1 : r[i] = IF i < p THEN s[i] ELSE s[i + 1]
    BY <1>2, RemovalShifts
  <2> HIDE DEF r
  <2> DEFINE q(i) == IF i < p THEN i ELSE i + 1
  <2>2. /\ DOMAIN r = 1 .. Len(s) - 1 /\ DOMAIN s = 1 .. Len(s)
        /\ \A i \in 1 .. Len(s) - 1 : q(i) \in 1 .. Len(s) /\ r[i] = s[q(i)]
    BY <2>1
  <2>3. IsInjective(r)
    <3> SUFFICES ASSUME NEW i \in 1 .. Len(s) - 1, NEW j \in 1 .. Len(s) - 1,
                        r[i] = r[j]
                 PROVE  i = j
      BY <2>2 DEF IsInjective
    <3>1. q(i) = q(j)
      BY <2>2 DEF IsInjective
    <3>2. QED BY <3>1, <2>1
  <2>4. ToSet(r) = ToSet(s) \ {k}
    <3>1. ASSUME NEW x \in ToSet(r) PROVE x \in ToSet(s) \ {k}
      <4>1. PICK i \in 1 .. Len(s) - 1 : r[i] = x
        BY <2>2 DEF ToSet
      <4>2. q(i) \in 1 .. Len(s) /\ x = s[q(i)]
        BY <2>2, <4>1
      <4>3. q(i) # p
        BY <2>1, <4>1
      <4>4. s[q(i)] # s[p]
        BY <2>2, <4>2, <4>3 DEF IsInjective
      <4> QED BY <2>1, <2>2, <4>2, <4>4 DEF ToSet
    <3>2. ASSUME NEW x \in ToSet(s) \ {k} PROVE x \in ToSet(r)
      <4>1. PICK i \in 1 .. Len(s) : s[i] = x /\ i # p
        BY <2>1 DEF ToSet
      <4>2. CASE i < p
        BY <4>1, <4>2, <2>1 DEF ToSet
      <4>3. CASE i > p
        <5>1. i - 1 \in 1 .. Len(s) - 1 /\ r[i - 1] = x
          BY <4>1, <4>3, <2>1
        <5>2. QED BY <5>1, <2>1 DEF ToSet
      <4>4. QED BY <4>1, <4>2, <4>3, <2>1
    <3>3. QED BY <3>1, <3>2
  <2>5. QED BY <1>2, <2>1, <2>3, <2>4 DEF r
<1>3. QED BY <1>1, <1>2

\* move_to_end: the same keys and k, each once, k last.
LEMMA MoveToEndKeepsKeys ==
  ASSUME NEW S, NEW s \in Seq(S), IsInjective(s), NEW k \in S
  PROVE  /\ MoveToEnd(s, k) \in Seq(S)
         /\ IsInjective(MoveToEnd(s, k))
         /\ ToSet(MoveToEnd(s, k)) = ToSet(s) \cup {k}
         /\ Len(MoveToEnd(s, k)) = IF k \in ToSet(s) THEN Len(s) ELSE Len(s) + 1
         /\ MoveToEnd(s, k)[Len(MoveToEnd(s, k))] = k
<1> DEFINE w == Without(s, k)
           m == MoveToEnd(s, k)
<1>1. /\ w \in Seq(S) /\ IsInjective(w) /\ ToSet(w) = ToSet(s) \ {k}
      /\ Len(w) = IF k \in ToSet(s) THEN Len(s) - 1 ELSE Len(s)
  BY WithoutIsRemoval
<1> HIDE DEF w
<1>2. /\ m \in Seq(S) /\ Len(m) = Len(w) + 1 /\ m[Len(w) + 1] = k
      /\ \A i \in 1 .. Len(w) : m[i] = w[i]
  BY <1>1 DEF MoveToEnd, w
<1> HIDE DEF m
<1>3. \A i \in 1 .. Len(w) : w[i] # k
  <2>1. DOMAIN w = 1 .. Len(w) /\ k \notin ToSet(w)
    BY <1>1
  <2>2. QED BY <2>1 DEF ToSet
<1>4. IsInjective(m)
  BY <1>1, <1>2, <1>3 DEF IsInjective
<1>5. ToSet(m) = ToSet(w) \cup {k}
  <2>1. DOMAIN w = 1 .. Len(w) /\ DOMAIN m = 1 .. Len(w) + 1 /\ Len(w) \in Nat
    BY <1>1, <1>2
  <2>2. 1 .. Len(w) + 1 = (1 .. Len(w)) \cup {Len(w) + 1}
    BY <2>1
  <2>3. QED BY <1>2, <2>1, <2>2 DEF ToSet
<1>6. QED BY <1>1, <1>2, <1>4, <1>5 DEF m

\* popitem(last=False): the rest of the order, without its head.
LEMMA TailDropsHead ==
  ASSUME NEW S, NEW s \in Seq(S), IsInjective(s), s # <<>>
  PROVE  /\ Tail(s) \in Seq(S)
         /\ IsInjective(Tail(s))
         /\ ToSet(Tail(s)) = ToSet(s) \ {Head(s)}
         /\ Len(Tail(s)) = Len(s) - 1
         /\ Head(s) = s[1] /\ Head(s) \in ToSet(s)
<1>1. /\ Tail(s) \in Seq(S) /\ Len(Tail(s)) = Len(s) - 1 /\ Len(s) >= 1
      /\ \A i \in 1 .. Len(s) - 1 : Tail(s)[i] = s[i + 1]
      /\ Head(s) = s[1]
  OBVIOUS
<1>2. IsInjective(Tail(s))
  BY <1>1 DEF IsInjective
<1>3. ToSet(Tail(s)) = ToSet(s) \ {s[1]}
  <2>1. ASSUME NEW x \in ToSet(Tail(s)) PROVE x \in ToSet(s) \ {s[1]}
    BY <1>1 DEF ToSet, IsInjective
  <2>2. ASSUME NEW x \in ToSet(s) \ {s[1]} PROVE x \in ToSet(Tail(s))
    <3>1. PICK i \in 1 .. Len(s) : s[i] = x /\ i # 1
      BY DEF ToSet
    <3>2. i - 1 \in 1 .. Len(s) - 1 /\ (i - 1) + 1 = i
      BY <3>1
    <3>3. Tail(s)[i - 1] = x /\ i - 1 \in DOMAIN Tail(s)
      BY <3>1, <3>2, <1>1
    <3>4. QED BY <3>3 DEF ToSet
  <2>3. QED BY <2>1, <2>2
<1>4. s[1] \in ToSet(s)
  BY <1>1 DEF ToSet
<1>5. QED BY <1>1, <1>2, <1>3, <1>4

-----------------------------------------------------------------------------
(***************************************************************************)
(* The inductive invariant.                                                *)
(***************************************************************************)

\* A refresh can only lose its mark while it runs.
OrphansAreRefreshes == \A t \in orphaned : task[t].kind = "refresh"

IInv ==
  /\ TypeOK
  /\ StoreInv
  /\ MarkHasRefresh
  /\ OneRefreshPerKey
  /\ OrphansAreRefreshes

\* What the store looks like after _store_entry, given what it was before.
LEMMA StoreEntryKeepsStore ==
  ASSUME TypeOK, StoreInv, NEW k \in Key, NEW v \in Version, StoreEntry(k, v)
  PROVE  /\ lru' \in Seq(Key)
         /\ store' \in [Key -> Version \cup {None}]
         /\ fresh' \subseteq Key
         /\ StoreInv'
         /\ Overflow(k) \subseteq Key \ {k}
         /\ \A j \in Key : Cached(j)' <=> (j = k \/ Cached(j)) /\ j \notin Overflow(k)
<1> DEFINE order == MoveToEnd(lru, k)
           evicted == Overflow(k)
<1>1. /\ order \in Seq(Key) /\ IsInjective(order)
      /\ ToSet(order) = ToSet(lru) \cup {k}
      /\ Len(order) = IF k \in ToSet(lru) THEN Len(lru) ELSE Len(lru) + 1
      /\ order[Len(order)] = k
  BY MoveToEndKeepsKeys DEF TypeOK, StoreInv
<1>2. Capacity \in Nat \ {0}
  BY MaxEntriesAssumption DEF Capacity
<1>3. Len(lru) \in Nat /\ Len(lru) <= Capacity /\ ToSet(lru) = {j \in Key : Cached(j)}
  BY DEF TypeOK, StoreInv
<1>4. None \notin Version
  BY NoneAssumption, MaxVersionAssumption DEF Version
<1>5. /\ evicted = IF Len(order) > Capacity THEN {Head(order)} ELSE {}
      /\ lru' = IF evicted = {} THEN order ELSE Tail(order)
      /\ store' = [j \in Key |-> IF j \in evicted THEN None
                                 ELSE IF j = k THEN v ELSE store[j]]
      /\ fresh' = (fresh \cup {k}) \ evicted
  BY DEF StoreEntry, Overflow
<1> HIDE DEF order, evicted
<1>6. store' \in [Key -> Version \cup {None}] /\ fresh' \subseteq Key
  BY <1>5 DEF TypeOK
<1>7. \A j \in Key : Cached(j)' <=> (j = k \/ Cached(j)) /\ j \notin evicted
  BY <1>4, <1>5 DEF Cached, TypeOK
<1>8. /\ lru' \in Seq(Key) /\ IsInjective(lru')
      /\ ToSet(lru') = (ToSet(lru) \cup {k}) \ evicted
      /\ Len(lru') <= Capacity
      /\ evicted \subseteq Key \ {k}
  <2>1. CASE Len(order) <= Capacity
    BY <2>1, <1>1, <1>2, <1>3, <1>5
  <2>2. CASE Len(order) > Capacity
    <3>1. evicted = {Head(order)} /\ lru' = Tail(order)
      BY <2>2, <1>5
    <3>2. Len(order) >= 2 /\ Len(order) <= Capacity + 1
      BY <2>2, <1>1, <1>2, <1>3
    <3>3. /\ Tail(order) \in Seq(Key) /\ IsInjective(Tail(order))
          /\ ToSet(Tail(order)) = ToSet(order) \ {Head(order)}
          /\ Len(Tail(order)) = Len(order) - 1
          /\ Head(order) = order[1] /\ Head(order) \in ToSet(order)
      BY <1>1, <3>2, TailDropsHead
    <3>4. Head(order) # k /\ Head(order) \in Key
      BY <1>1, <3>2, <3>3 DEF IsInjective
    <3>5. QED BY <1>1, <1>2, <3>1, <3>2, <3>3, <3>4
  <2>3. QED BY <2>1, <2>2, <1>1, <1>2, <1>3
<1>9. ToSet(lru') = {j \in Key : Cached(j)'}
  BY <1>3, <1>7, <1>8
<1>10. fresh' \subseteq ToSet(lru')
  BY <1>5, <1>8 DEF StoreInv
<1>11. StoreInv'
  BY <1>8, <1>9, <1>10 DEF StoreInv, Capacity
<1>12. QED BY <1>6, <1>7, <1>8, <1>11 DEF evicted

\* At the start nothing is cached, marked or under way.
LEMMA InitEstablishesIInv == Init => IInv
<1> SUFFICES ASSUME Init PROVE IInv
  OBVIOUS
<1>1. TypeOK
  BY MaxVersionAssumption DEF Init, TypeOK, Version
<1>2. StoreInv
  BY MaxEntriesAssumption
  DEF Init, StoreInv, Capacity, Cached, IsInjective, ToSet
<1>3. MarkHasRefresh /\ OneRefreshPerKey /\ OrphansAreRefreshes
  BY DEF Init, MarkHasRefresh, OneRefreshPerKey, OrphansAreRefreshes,
         RefreshesOf, Idle
<1>4. QED BY <1>1, <1>2, <1>3 DEF IInv

\* A served key only moves to the end of the order.
LEMMA MoveToEndKeepsStore ==
  ASSUME TypeOK, StoreInv, NEW k \in Key, Cached(k),
         lru' = MoveToEnd(lru, k), UNCHANGED <<store, fresh>>
  PROVE  lru' \in Seq(Key) /\ StoreInv'
<1>1. k \in ToSet(lru)
  BY DEF StoreInv
<1>2. /\ lru' \in Seq(Key) /\ IsInjective(lru') /\ ToSet(lru') = ToSet(lru)
      /\ Len(lru') = Len(lru)
  BY <1>1, MoveToEndKeepsKeys DEF TypeOK, StoreInv
<1>3. QED BY <1>2 DEF StoreInv, Cached, Capacity

\* Clearing the marks of K while the coroutines `done` end keeps marks and
\* refreshes matched, if the marks of the refreshes that end are among them.
LEMMA ClearMarksKeepsMarks ==
  ASSUME IInv, NEW K \in SUBSET Key, NEW done \in SUBSET Task,
         ClearMarks(K, done),
         task' = [t \in Task |-> IF t \in done THEN Idle ELSE task[t]],
         \A t \in done : task[t].kind = "refresh" => task[t].key \in K,
         \A j \in Key \ K : Cached(j) => Cached(j)'
  PROVE  MarkHasRefresh' /\ OneRefreshPerKey' /\ OrphansAreRefreshes'
<1> USE DEF IInv
<1>1. /\ pending' = pending \ K
      /\ orphaned' = (orphaned \cup RefreshesOf(K)) \ done
      /\ orphaned \subseteq Task /\ pending \subseteq Key
  BY DEF ClearMarks, TypeOK
<1>2. Idle.kind = "idle"
  BY DEF Idle
<1>3. MarkHasRefresh'
  <2> SUFFICES ASSUME NEW j \in pending'
               PROVE  Cached(j)' /\ \E u \in RefreshesOf({j})' : u \notin orphaned'
    BY DEF MarkHasRefresh
  <2>1. j \in pending /\ j \in Key \ K
    BY <1>1
  <2>2. Cached(j)'
    BY <2>1 DEF MarkHasRefresh
  <2>3. PICK u \in RefreshesOf({j}) : u \notin orphaned
    BY <2>1 DEF MarkHasRefresh
  <2>4. u \in Task /\ u \notin done /\ u \notin RefreshesOf(K)
    BY <2>1, <2>3 DEF RefreshesOf
  <2>5. u \in RefreshesOf({j})' /\ u \notin orphaned'
    BY <1>1, <2>3, <2>4 DEF RefreshesOf
  <2>6. QED BY <2>2, <2>5
<1>4. OneRefreshPerKey'
  <2> SUFFICES ASSUME NEW j \in Key, NEW u \in RefreshesOf({j})',
                      NEW w \in RefreshesOf({j})',
                      u \notin orphaned', w \notin orphaned'
               PROVE  u = w /\ j \in pending'
    BY DEF OneRefreshPerKey
  <2>1. u \in Task \ done /\ w \in Task \ done
    BY <1>2 DEF RefreshesOf
  <2>2. u \in RefreshesOf({j}) \ orphaned /\ w \in RefreshesOf({j}) \ orphaned
    BY <1>1, <2>1 DEF RefreshesOf
  <2>3. j \notin K
    BY <1>1, <2>1, <2>2 DEF RefreshesOf
  <2>4. QED BY <1>1, <2>2, <2>3 DEF OneRefreshPerKey
<1>5. OrphansAreRefreshes'
  BY <1>1 DEF OrphansAreRefreshes, RefreshesOf
<1>6. QED BY <1>3, <1>4, <1>5

\* One case per action.
LEMMA NextPreservesIInv == IInv /\ [Next]_vars => IInv'
<1> SUFFICES ASSUME IInv, [Next]_vars PROVE IInv'
  OBVIOUS
<1> USE DEF IInv
<1>idle. Idle.kind = "idle" /\ Idle.read = None
  BY DEF Idle
<1>none. None \notin Key /\ None \notin Version
  BY NoneAssumption, MaxVersionAssumption DEF Version
<1>1. ASSUME NEW k \in Key, ServeFresh(k) \/ ServeMarked(k) PROVE IInv'
  <2>1. /\ Cached(k) /\ lru' = MoveToEnd(lru, k)
        /\ UNCHANGED <<store, fresh, pending, task, source, floor, orphaned>>
    BY <1>1 DEF ServeFresh, ServeMarked
  <2>2. lru' \in Seq(Key) /\ StoreInv'
    BY <2>1, MoveToEndKeepsStore
  <2>3. QED BY <2>1, <2>2 DEF TypeOK, MarkHasRefresh, OneRefreshPerKey,
                OrphansAreRefreshes, RefreshesOf, Cached
<1>2. ASSUME NEW k \in Key, NEW t \in Task, ServeStale(t, k) PROVE IInv'
  <2>1. lru' \in Seq(Key) /\ StoreInv'
    BY <1>2, MoveToEndKeepsStore DEF ServeStale
  <2>2. TypeOK'
    BY <1>2, <2>1 DEF ServeStale, TypeOK
  <2>3. t \notin orphaned /\ task[t].kind = "idle"
    BY <1>2, <1>idle DEF ServeStale, OrphansAreRefreshes
  <2>4. /\ task'[t] = [kind |-> "refresh", key |-> k, read |-> None]
        /\ \A u \in Task \ {t} : task'[u] = task[u]
    BY <1>2 DEF ServeStale, TypeOK
  <2>5. MarkHasRefresh'
    BY <1>2, <2>3, <2>4 DEF ServeStale, MarkHasRefresh, RefreshesOf, Cached
  <2>6. OneRefreshPerKey'
    BY <1>2, <2>3, <2>4 DEF ServeStale, OneRefreshPerKey, RefreshesOf
  <2>7. OrphansAreRefreshes'
    BY <1>2, <2>3, <2>4 DEF ServeStale, OrphansAreRefreshes, TypeOK
  <2>8. QED BY <2>1, <2>2, <2>5, <2>6, <2>7
<1>3. ASSUME NEW k \in Key, NEW t \in Task, ColdMiss(t, k) PROVE IInv'
  <2>1. TypeOK' /\ StoreInv'
    BY <1>3 DEF ColdMiss, TypeOK, StoreInv, Cached, Capacity
  <2>2. /\ task'[t] = [kind |-> "cold", key |-> k, read |-> None]
        /\ \A u \in Task \ {t} : task'[u] = task[u]
        /\ task[t].kind = "idle"
    BY <1>3, <1>idle DEF ColdMiss, TypeOK
  <2>4. \A j \in Key : RefreshesOf({j})' = RefreshesOf({j})
    BY <2>2 DEF RefreshesOf
  <2>5. QED BY <1>3, <2>1, <2>2, <2>4 DEF ColdMiss, MarkHasRefresh,
                OneRefreshPerKey, OrphansAreRefreshes, TypeOK, Cached
<1>4. ASSUME NEW t \in Task, Answer(t) PROVE IInv'
  <2>1. /\ task'[t] = [task[t] EXCEPT !.read = source]
        /\ \A u \in Task \ {t} : task'[u] = task[u]
        /\ task[t] \in [kind : {"cold", "refresh"}, key : Key,
                        read : Version \cup {None}]
    BY <1>4 DEF Answer, TypeOK
  <2>2. \A u \in Task : task'[u].kind = task[u].kind /\ task'[u].key = task[u].key
    BY <2>1
  <2>3. task'[t] \in [kind : {"cold", "refresh"}, key : Key,
                      read : Version \cup {None}]
    BY <2>1 DEF TypeOK
  <2>4. TypeOK' /\ StoreInv'
    BY <1>4, <2>1, <2>3 DEF Answer, TypeOK, StoreInv, Cached, Capacity
  <2>6. UNCHANGED <<store, pending, orphaned>>
    BY <1>4 DEF Answer
  <2>7. MarkHasRefresh' /\ OneRefreshPerKey'
    <3>1. MarkHasRefresh'
      BY <2>2, <2>6 DEF MarkHasRefresh, RefreshesOf, Cached
    <3>2. OneRefreshPerKey'
      BY <2>2, <2>6 DEF OneRefreshPerKey, RefreshesOf
    <3>3. QED BY <3>1, <3>2
  <2>8. OrphansAreRefreshes'
    BY <2>2, <2>6 DEF OrphansAreRefreshes, TypeOK
  <2>9. QED BY <2>4, <2>7, <2>8
<1>5. ASSUME NEW t \in Task, Complete(t) PROVE IInv'
  <2> DEFINE k == task[t].key
             refreshed == IF task[t].kind = "refresh" THEN {k} ELSE {}
             cleared == Overflow(k) \cup refreshed
  <2>1. k \in Key /\ task[t].read \in Version /\ StoreEntry(k, task[t].read)
    BY <1>5 DEF Complete, TypeOK
  <2>2. /\ lru' \in Seq(Key) /\ store' \in [Key -> Version \cup {None}]
        /\ fresh' \subseteq Key /\ StoreInv' /\ Overflow(k) \subseteq Key \ {k}
        /\ \A j \in Key : Cached(j)' <=> (j = k \/ Cached(j)) /\ j \notin Overflow(k)
    BY <2>1, StoreEntryKeepsStore
  <2>3. /\ ClearMarks(cleared, {t})
        /\ task' = [u \in Task |-> IF u \in {t} THEN Idle ELSE task[u]]
        /\ UNCHANGED <<source, floor>>
    BY <1>5 DEF Complete, TypeOK
  <2>4. /\ cleared \in SUBSET Key
        /\ task[t].kind = "refresh" => k \in cleared
        /\ Overflow(k) \subseteq cleared
    BY <2>1, <2>2
  <2> HIDE DEF cleared
  <2>5. TypeOK'
    BY <2>2, <2>3 DEF TypeOK, ClearMarks, RefreshesOf
  <2>6. MarkHasRefresh' /\ OneRefreshPerKey' /\ OrphansAreRefreshes'
    BY <2>2, <2>3, <2>4, ClearMarksKeepsMarks
  <2>7. QED BY <2>2, <2>5, <2>6
<1>6. ASSUME NEW t \in Task, Fail(t) PROVE IInv'
  <2> DEFINE refreshed == IF task[t].kind = "refresh" THEN {task[t].key} ELSE {}
  <2>1. task[t].key \in Key
    BY <1>6 DEF Fail, TypeOK
  <2>2. /\ ClearMarks(refreshed, {t})
        /\ task' = [u \in Task |-> IF u \in {t} THEN Idle ELSE task[u]]
        /\ UNCHANGED <<lru, store, fresh, source, floor>>
    BY <1>6 DEF Fail, TypeOK
  <2>3. refreshed \in SUBSET Key /\ (task[t].kind = "refresh" => task[t].key \in refreshed)
    BY <2>1
  <2> HIDE DEF refreshed
  <2>4. TypeOK' /\ StoreInv'
    BY <2>2 DEF TypeOK, ClearMarks, RefreshesOf, StoreInv, Cached, Capacity
  <2>5. MarkHasRefresh' /\ OneRefreshPerKey' /\ OrphansAreRefreshes'
    BY <2>2, <2>3, ClearMarksKeepsMarks DEF Cached
  <2>6. QED BY <2>4, <2>5
<1>7. ASSUME NEW k \in Key, Invalidate(k) PROVE IInv'
  <2>1. /\ lru' \in Seq(Key) /\ IsInjective(lru')
        /\ ToSet(lru') = ToSet(lru) \ {k} /\ Len(lru') <= Len(lru)
        /\ Len(lru') \in Nat
    <3>1. lru' = Without(lru, k) /\ lru \in Seq(Key) /\ IsInjective(lru)
      BY <1>7 DEF Invalidate, TypeOK, StoreInv
    <3>2. /\ Without(lru, k) \in Seq(Key) /\ IsInjective(Without(lru, k))
          /\ ToSet(Without(lru, k)) = ToSet(lru) \ {k}
          /\ Len(Without(lru, k)) = IF k \in ToSet(lru) THEN Len(lru) - 1 ELSE Len(lru)
      BY <3>1, WithoutIsRemoval
    <3>3. Len(lru') \in Nat /\ Len(lru) \in Nat
      BY <3>1, <3>2
    <3>4. QED BY <3>1, <3>2, <3>3
  <2>2. store' = [store EXCEPT ![k] = None] /\ fresh' = fresh \ {k}
    BY <1>7 DEF Invalidate
  <2>3. ToSet(lru') = {j \in Key : Cached(j)'}
    BY <2>1, <2>2 DEF StoreInv, Cached, TypeOK
  <2>4. StoreInv'
    <3>1. Capacity \in Nat /\ Len(lru) \in Nat /\ Len(lru) <= Capacity
      BY MaxEntriesAssumption DEF Capacity, TypeOK, StoreInv
    <3>2. Len(lru') <= Capacity
      BY <2>1, <3>1
    <3>3. QED BY <2>1, <2>2, <2>3, <3>2 DEF StoreInv, Capacity
  <2>5. TypeOK'
    BY <1>7, <2>1 DEF Invalidate, TypeOK, ClearMarks, RefreshesOf
  <2>6. task' = [u \in Task |-> IF u \in {} THEN Idle ELSE task[u]]
    BY <1>7 DEF Invalidate, TypeOK
  <2>7. \A j \in Key \ {k} : Cached(j) => Cached(j)'
    BY <2>2 DEF Cached, TypeOK
  <2>8. MarkHasRefresh' /\ OneRefreshPerKey' /\ OrphansAreRefreshes'
    BY <1>7, <2>6, <2>7, ClearMarksKeepsMarks DEF Invalidate
  <2>9. QED BY <2>4, <2>5, <2>8
<1>8. ASSUME InvalidateAll PROVE IInv'
  <2>1. TypeOK'
    BY <1>8 DEF InvalidateAll, TypeOK, ClearMarks, RefreshesOf
  <2>2. StoreInv'
    BY <1>8, MaxEntriesAssumption
    DEF InvalidateAll, StoreInv, Capacity, Cached, IsInjective, ToSet
  <2>3. task' = [u \in Task |-> IF u \in {} THEN Idle ELSE task[u]]
    BY <1>8 DEF InvalidateAll, TypeOK
  <2>4. MarkHasRefresh' /\ OneRefreshPerKey' /\ OrphansAreRefreshes'
    BY <1>8, <2>3, ClearMarksKeepsMarks DEF InvalidateAll
  <2>5. QED BY <2>1, <2>2, <2>4
<1>9. ASSUME NEW k \in Key, Expire(k) PROVE IInv'
  BY <1>9 DEF Expire, TypeOK, StoreInv, MarkHasRefresh, OneRefreshPerKey,
              OrphansAreRefreshes, RefreshesOf, Cached, Capacity
<1>10. ASSUME SourceChanges PROVE IInv'
  BY <1>10, MaxVersionAssumption
  DEF SourceChanges, TypeOK, Version, StoreInv, MarkHasRefresh, OneRefreshPerKey,
      OrphansAreRefreshes, RefreshesOf, Cached, Capacity
<1>11. CASE UNCHANGED vars
  BY <1>11 DEF vars, TypeOK, StoreInv, MarkHasRefresh, OneRefreshPerKey,
               OrphansAreRefreshes, RefreshesOf, Cached, Capacity
<1>12. QED
  BY <1>1, <1>2, <1>3, <1>4, <1>5, <1>6, <1>7, <1>8, <1>9, <1>10, <1>11 DEF Next

\* Values have their types: what is stored is a version the backend had, and a
\* suspended coroutine has a key.
THEOREM TypeCorrect == Spec => []TypeOK
<1>1. IInv => TypeOK
  BY DEF IInv
<1>2. QED BY <1>1, InitEstablishesIInv, NextPreservesIInv, PTL DEF Spec

\* The cache never holds more than max(1, max_entries) entries and its order
\* and its entries agree, however fetches, evictions and invalidations
\* interleave (cache.py:75-81, 118-125).
THEOREM StoreIsBounded == Spec => []StoreInv
<1>1. IInv => StoreInv
  BY DEF IInv
<1>2. QED BY <1>1, InitEstablishesIInv, NextPreservesIInv, PTL DEF Spec

\* No mark outlives its refresh (cache.py:104-116): a stale entry can always
\* be refreshed again.
THEOREM NoLeakedMark == Spec => []MarkHasRefresh
<1>1. IInv => MarkHasRefresh
  BY DEF IInv
<1>2. QED BY <1>1, InitEstablishesIInv, NextPreservesIInv, PTL DEF Spec

\* Unless its mark was taken away by an invalidation or an eviction, a refresh
\* is the only one of its key (cache.py:93-95).
THEOREM SingleRefresh == Spec => []OneRefreshPerKey
<1>1. IInv => OneRefreshPerKey
  BY DEF IInv
<1>2. QED BY <1>1, InitEstablishesIInv, NextPreservesIInv, PTL DEF Spec

-----------------------------------------------------------------------------
(* Refinement.                                                             *)

\* A sequence without repetitions is as long as it has elements.
LEMMA OrderCountsKeys ==
  ASSUME NEW S, NEW s \in Seq(S), IsInjective(s)
  PROVE  Cardinality(ToSet(s)) = Len(s)
<1> DEFINE D == 1 .. Len(s)
           f == [i \in D |-> s[i]]
<1>1. Len(s) \in Nat /\ DOMAIN s = D
  OBVIOUS
<1>2. f \in Bijection(D, ToSet(s))
  <2>1. f \in [D -> ToSet(s)]
    BY <1>1 DEF ToSet
  <2>2. \A i, j \in D : f[i] = f[j] => i = j
    BY <1>1 DEF IsInjective
  <2>3. \A x \in ToSet(s) : \E i \in D : f[i] = x
    BY <1>1 DEF ToSet
  <2> QED BY <2>1, <2>2, <2>3 DEF Bijection, Injection, Surjection
<1>3. ExistsBijection(D, ToSet(s))
  BY <1>2 DEF ExistsBijection
<1> QED BY <1>1, <1>3, FS_CountingElements

\* The key that popitem drops is one that SWRCache lets go.
LEMMA OverflowIsVictim ==
  ASSUME TypeOK, StoreInv, NEW k \in Key, Overflow(k) \subseteq Key \ {k}
  PROVE  Overflow(k) \in SWR!Victims(k)
<1> DEFINE H == {j \in Key : Cached(j)}
           order == MoveToEnd(lru, k)
<1>1. /\ order \in Seq(Key) /\ IsInjective(order)
      /\ ToSet(order) = H \cup {k}
  BY MoveToEndKeepsKeys DEF TypeOK, StoreInv
<1>2. Cardinality(H \cup {k}) = Len(order)
  <2> HIDE DEF order, H
  <2>1. Cardinality(ToSet(order)) = Len(order)
    BY <1>1, OrderCountsKeys
  <2> QED BY <1>1, <2>1
<1>3. SWR!Victims(k) = IF Len(order) > Capacity THEN {{j} : j \in H \ {k}} ELSE {{}}
  <2>1. H \cap [j \in Key |-> Key][k] = H
    OBVIOUS
  <2>2. SWR!Cardinality(H \cup {k}) = Cardinality(H \cup {k})
    BY DEF SWR!Cardinality, Cardinality
  <2> HIDE DEF order, H
  <2>3. SWR!Victims(k)
          = IF SWR!Cardinality((H \cap [j \in Key |-> Key][k]) \cup {k}) > Capacity
            THEN {{j} : j \in (H \cap [j \in Key |-> Key][k]) \ {k}} ELSE {{}}
    BY DEF SWR!Victims, H
  <2> QED BY <1>2, <2>1, <2>2, <2>3
<1>4. CASE Len(order) > Capacity
  <2>1. Overflow(k) = {Head(order)}
    BY <1>4 DEF Overflow
  <2>2. Capacity \in Nat \ {0} /\ Len(order) \in Nat
    BY <1>1, MaxEntriesAssumption DEF Capacity
  <2>3. Head(order) \in ToSet(order)
    BY <1>1, <1>4, <2>2 DEF ToSet
  <2> QED BY <1>1, <1>3, <1>4, <2>1, <2>3
<1>5. CASE ~ (Len(order) > Capacity)
  BY <1>3, <1>5 DEF Overflow
<1> QED BY <1>4, <1>5

\* One case per action; answers and changes of the data are not visible.
LEMMA StepsRefineSWR == IInv /\ [Next]_vars => [SWR!Next]_SWR!vars
<1> SUFFICES ASSUME IInv, [Next]_vars PROVE [SWR!Next]_SWR!vars
  OBVIOUS
<1> DEFINE H == {k \in Key : Cached(k)}
           F == [t \in Task |-> [kind |-> task[t].kind, key |-> task[t].key]]
<1>t. TypeOK /\ StoreInv
  BY DEF IInv
<1>i. \A t \in Task : F[t] = SWR!Idle <=> task[t] = Idle
  BY <1>t DEF SWR!Idle, Idle, TypeOK
<1>0. ASSUME UNCHANGED <<store, fresh, pending, task>> PROVE UNCHANGED SWR!vars
  BY <1>0 DEF SWR!vars, Cached
<1>1. ASSUME NEW k \in Key, ServeFresh(k) \/ ServeMarked(k) PROVE UNCHANGED SWR!vars
  BY <1>0, <1>1 DEF ServeFresh, ServeMarked
<1>2. ASSUME NEW k \in Key, NEW t \in Task, ServeStale(t, k) PROVE SWR!Next
  <2>1. F' = [F EXCEPT ![t] = SWR!Fetching("refresh", k)]
    BY <1>t, <1>2 DEF ServeStale, TypeOK, SWR!Fetching
  <2>2. k \in H \ (fresh \cup pending) /\ F[t] = SWR!Idle /\ H' = H /\ fresh' = fresh
        /\ pending' = pending \cup {k}
    BY <1>i, <1>2 DEF ServeStale, Cached
  <2>3. SWR!ServeStale(t, k)
    BY <2>1, <2>2 DEF SWR!ServeStale
  <2> QED BY <2>3 DEF SWR!Next
<1>3. ASSUME NEW k \in Key, NEW t \in Task, ColdMiss(t, k) PROVE SWR!Next
  <2>1. F' = [F EXCEPT ![t] = SWR!Fetching("cold", k)]
    BY <1>t, <1>3 DEF ColdMiss, TypeOK, SWR!Fetching
  <2>2. k \in Key \ H /\ F[t] = SWR!Idle /\ H' = H /\ fresh' = fresh /\ pending' = pending
    BY <1>i, <1>3 DEF ColdMiss, Cached
  <2>3. SWR!ColdMiss(t, k)
    BY <2>1, <2>2 DEF SWR!ColdMiss
  <2> QED BY <2>3 DEF SWR!Next
<1>4. ASSUME NEW t \in Task, Answer(t) PROVE UNCHANGED SWR!vars
  <2>1. F' = F
    BY <1>t, <1>4 DEF Answer, TypeOK
  <2> QED BY <1>4, <2>1 DEF Answer, SWR!vars, Cached
<1>5. ASSUME NEW t \in Task, Complete(t) PROVE SWR!Next
  <2> DEFINE k == task[t].key
             v == task[t].read
             out == Overflow(k)
             done == IF task[t].kind = "refresh" THEN {k} ELSE {}
  <2>1. task[t] # Idle /\ k \in Key /\ v \in Version
    BY <1>t, <1>5 DEF Complete, TypeOK
  <2>2. StoreEntry(k, v) /\ pending' = pending \ (out \cup done)
        /\ task' = [task EXCEPT ![t] = Idle]
    BY <1>5 DEF Complete, ClearMarks
  <2>3. /\ out \subseteq Key \ {k}
        /\ \A j \in Key : Cached(j)' <=> (j = k \/ Cached(j)) /\ j \notin out
    BY <1>t, <2>1, <2>2, StoreEntryKeepsStore
  <2>4. fresh' = (fresh \cup {k}) \ out
    BY <2>2 DEF StoreEntry
  <2>5. out \in SWR!Victims(k)
    BY <1>t, <2>1, <2>3, OverflowIsVictim
  <2>6. F[t] # SWR!Idle /\ F[t].key = k /\ F[t].kind = task[t].kind
    BY <1>i, <2>1
  <2>7. F' = [F EXCEPT ![t] = SWR!Idle]
    BY <1>t, <2>2 DEF TypeOK, SWR!Idle, Idle
  <2>8. SWR!Marked(t) = done
    BY <2>6 DEF SWR!Marked
  <2> HIDE DEF k, v, out, done, F
  <2>9. H' = (H \cup {k}) \ out
    BY <2>1, <2>3
  <2>10. SWR!Complete(t)
    BY <2>2, <2>4, <2>5, <2>6, <2>7, <2>8, <2>9 DEF SWR!Complete, F
  <2> QED BY <2>10 DEF SWR!Next
<1>6. ASSUME NEW t \in Task, Fail(t) PROVE SWR!Next
  <2>1. F' = [F EXCEPT ![t] = SWR!Idle]
    BY <1>t, <1>6 DEF Fail, TypeOK, SWR!Idle, Idle
  <2>2. F[t] # SWR!Idle /\ SWR!Marked(t) = IF task[t].kind = "refresh" THEN {task[t].key} ELSE {}
    BY <1>i, <1>6 DEF Fail, SWR!Marked
  <2>3. H' = H /\ fresh' = fresh /\ pending' = pending \ SWR!Marked(t)
    BY <1>6, <2>2 DEF Fail, ClearMarks, Cached
  <2>4. SWR!Fail(t)
    BY <2>1, <2>2, <2>3 DEF SWR!Fail
  <2> QED BY <2>4 DEF SWR!Next
<1>7. ASSUME NEW k \in Key, Invalidate(k) PROVE SWR!Next
  <2>1. H' = H \ {k}
    BY <1>t, <1>7 DEF Invalidate, Cached, TypeOK
  <2>2. fresh' = fresh \ {k} /\ pending' = pending \ {k} /\ F' = F
    BY <1>7 DEF Invalidate, ClearMarks
  <2>3. SWR!Invalidate(k)
    BY <2>1, <2>2 DEF SWR!Invalidate
  <2> QED BY <2>3 DEF SWR!Next
<1>8. ASSUME InvalidateAll PROVE SWR!Next
  <2>1. H' = {}
    BY <1>8 DEF InvalidateAll, Cached
  <2>2. fresh' = {} /\ pending' = {} /\ F' = F
    BY <1>t, <1>8 DEF InvalidateAll, ClearMarks, TypeOK
  <2>3. SWR!InvalidateAll
    BY <2>1, <2>2 DEF SWR!InvalidateAll
  <2> QED BY <2>3 DEF SWR!Next
<1>9. ASSUME NEW k \in Key, Expire(k) PROVE SWR!Next
  <2>1. k \in fresh /\ fresh' = fresh \ {k} /\ H' = H /\ pending' = pending /\ F' = F
    BY <1>9 DEF Expire, Cached
  <2>2. SWR!Expire(k)
    BY <2>1 DEF SWR!Expire
  <2> QED BY <2>2 DEF SWR!Next
<1>10. ASSUME SourceChanges PROVE UNCHANGED SWR!vars
  BY <1>0, <1>10 DEF SourceChanges
<1>11. CASE UNCHANGED vars
  BY <1>0, <1>11 DEF vars
<1> QED
  BY <1>1, <1>2, <1>3, <1>4, <1>5, <1>6, <1>7, <1>8, <1>9, <1>10, <1>11 DEF Next

\* TTLCache is an SWRCache: whatever the interleaving of callers, refreshes and
\* invalidations, a value leaves only for another key of a full cache, and a
\* failed fetch changes nothing that is held.
THEOREM CacheImplementsSWR == Spec => ImplementsSWR
<1>1. Init => SWR!Init
  <2> SUFFICES ASSUME Init PROVE SWR!Init
    OBVIOUS
  <2>1. {k \in Key : Cached(k)} = {}
    BY DEF Init, Cached
  <2>2. [t \in Task |-> [kind |-> task[t].kind, key |-> task[t].key]]
          = [t \in Task |-> SWR!Idle]
    BY DEF Init, Idle, SWR!Idle
  <2> QED BY <2>1, <2>2 DEF Init, SWR!Init
<1> QED
  BY <1>1, InitEstablishesIInv, NextPreservesIInv, StepsRefineSWR, PTL
  DEF Spec, ImplementsSWR, SWR!Spec

=============================================================================
