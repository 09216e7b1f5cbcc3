-------------------------- MODULE CostServiceProofs --------------------------
(***************************************************************************)
(* Proofs about CostService, for any fleet, any endpoints, any number of   *)
(* requests, warm-ups and refreshes and any capacity of the caches.        *)
(***************************************************************************)
EXTENDS CostService, TLAPS

\* The inductive invariant.
IInv == TypeOK /\ LastUpdatedInv

CacheType == Cache!TypeOK

WalkType ==
  walk \in [Walker -> [pc : {"idle", "next", "fetch"}, todo : SUBSET Key, rest : Seq(SUBSET Kind)]]

ServiceType ==
  /\ present \subseteq Project
  /\ lastUpdated \in BOOLEAN
  /\ clientless \subseteq Slot

\* The parts of the type invariant.
LEMMA TypeParts == TypeOK <=> CacheType /\ WalkType /\ ServiceType
BY DEF TypeOK, CacheType, WalkType, ServiceType

-----------------------------------------------------------------------------
(* What each operation of the caches does to the held keys and the types.  *)

\* A stale hit holds what it held.
LEMMA ServeStaleStep ==
  ASSUME CacheType, NEW t \in Walker \cup Slot, NEW k \in Key, Cache!ServeStale(t, k)
  PROVE  CacheType' /\ held' = held
BY DEF CacheType, Cache!TypeOK, Cache!ServeStale, Cache!Fetching, Cache!Idle

\* Nor does a cold miss change it.
LEMMA ColdMissStep ==
  ASSUME CacheType, NEW t \in Walker \cup Slot, NEW k \in Key, Cache!ColdMiss(t, k)
  PROVE  CacheType' /\ held' = held
BY DEF CacheType, Cache!TypeOK, Cache!ColdMiss, Cache!Fetching, Cache!Idle

\* A fetch that succeeds leaves its key held: the entry it may cost is another.
LEMMA CompleteStep ==
  ASSUME CacheType, NEW t \in Walker \cup Slot, Cache!Complete(t)
  PROVE  CacheType' /\ fetch[t].key \in Key /\ held' # {}
<1>1. fetch[t] \in [kind : {"cold", "refresh"}, key : Key] /\ fetch[t].key \in Key
  BY DEF CacheType, Cache!TypeOK, Cache!Complete, Cache!Idle
<1> DEFINE k == fetch[t].key
<1>2. PICK out \in Cache!Victims(k) :
        /\ held' = (held \cup {k}) \ out
        /\ fresh' = (fresh \cup {k}) \ out
        /\ pending' = pending \ (out \cup Cache!Marked(t))
  BY DEF Cache!Complete
<1>3. k \notin out
  BY <1>2 DEF Cache!Victims
<1>4. fetch' = [fetch EXCEPT ![t] = Cache!Idle]
  BY DEF Cache!Complete
<1>5. fetch' \in [Walker \cup Slot -> {Cache!Idle} \cup [kind : {"cold", "refresh"}, key : Key]]
  BY <1>4 DEF CacheType, Cache!TypeOK
<1> HIDE DEF k
<1>6. CacheType'
  BY <1>1, <1>2, <1>5 DEF CacheType, Cache!TypeOK, k, Cache!Idle
<1> QED BY <1>1, <1>2, <1>3, <1>6 DEF k

\* A fetch that fails changes nothing that is held.
LEMMA FailStep ==
  ASSUME CacheType, NEW t \in Walker \cup Slot, Cache!Fail(t)
  PROVE  CacheType' /\ held' = held /\ fetch[t].key \in Key
BY DEF CacheType, Cache!TypeOK, Cache!Fail, Cache!Idle

\* A cleared cache holds nothing.
LEMMA ClearStep ==
  ASSUME CacheType, Clear
  PROVE  CacheType' /\ held' = {} /\ lastUpdated' = FALSE
BY DEF CacheType, Cache!TypeOK, Clear, Cache!InvalidateAll, Cache!Idle

\* A row answered keeps the type of the walks.
LEMMA AnsweredStep ==
  ASSUME WalkType, NEW w \in Walker, NEW k, Answered(w, k)
  PROVE  WalkType'
BY DEF WalkType, Answered

-----------------------------------------------------------------------------
(* The inductive invariant.                                                *)

\* At the start nothing is cached and no time is shown.
LEMMA InitEstablishesIInv == Init => IInv
<1> SUFFICES ASSUME Init PROVE IInv
  OBVIOUS
<1>1. CacheType
  BY DEF Init, Cache!Init, CacheType, Cache!TypeOK
<1>2. WalkType
  BY DEF Init, WalkType, Resting
<1>3. ServiceType /\ LastUpdatedInv
  BY DEF Init, ServiceType, LastUpdatedInv, Cache!Init
<1> QED BY <1>1, <1>2, <1>3, TypeParts DEF IInv

\* One case per action.
LEMMA NextPreservesIInv == IInv /\ [Next]_vars => IInv'
<1> SUFFICES ASSUME IInv, [Next]_vars PROVE IInv'
  OBVIOUS
<1>t. CacheType /\ WalkType /\ ServiceType /\ LastUpdatedInv
  BY TypeParts DEF IInv
<1>q. ASSUME CacheType', WalkType', ServiceType', LastUpdatedInv' PROVE IInv'
  BY <1>q, TypeParts DEF IInv, CacheType, WalkType, ServiceType, TypeOK
<1>u. ASSUME UNCHANGED caches PROVE CacheType' /\ held' = held
  BY <1>t, <1>u DEF caches, CacheType, Cache!TypeOK
<1>1. ASSUME NEW w \in Walker, NEW queries \in Seq(SUBSET Kind), Start(w, queries) PROVE IInv'
  <2>1. WalkType'
    BY <1>t, <1>1 DEF Start, WalkType
  <2>2. CacheType' /\ held' = held /\ ServiceType'
    BY <1>t, <1>1, <1>u DEF Start, ServiceType
  <2>3. LastUpdatedInv'
    BY <1>t, <1>1, <2>2 DEF Start, LastUpdatedInv
  <2> QED BY <1>q, <2>1, <2>2, <2>3
<1>2. ASSUME NEW w \in Walker, Ask(w) PROVE IInv'
  <2>1. PICK S \in SUBSET Project :
          walk' = [walk EXCEPT ![w].todo = S \X Head(walk[w].rest), ![w].rest = Tail(@)]
    BY <1>t, <1>2 DEF Ask, ServiceType
  <2>2. walk[w].rest \in Seq(SUBSET Kind) /\ walk[w].rest # <<>>
    BY <1>t, <1>2 DEF WalkType, Ask
  <2>3. Head(walk[w].rest) \in SUBSET Kind /\ Tail(walk[w].rest) \in Seq(SUBSET Kind)
    BY <2>2
  <2>4. S \X Head(walk[w].rest) \in SUBSET Key
    BY <2>3 DEF Key
  <2>5. WalkType'
    BY <1>t, <2>1, <2>3, <2>4 DEF WalkType
  <2>6. CacheType' /\ held' = held /\ ServiceType'
    BY <1>t, <1>2, <1>u DEF Ask, ServiceType
  <2>7. LastUpdatedInv'
    BY <1>t, <1>2, <2>6 DEF Ask, LastUpdatedInv
  <2> QED BY <1>q, <2>5, <2>6, <2>7
<1>3. ASSUME NEW w \in Walker, NEW k \in Key, Serve(w, k) PROVE IInv'
  <2>1. WalkType'
    BY <1>t, <1>3, AnsweredStep DEF Serve
  <2>2. CacheType' /\ held' = held /\ clientless' \subseteq Slot
    <3>1. CASE Cache!Hit(k) /\ UNCHANGED <<caches, clientless>>
      BY <1>t, <1>u, <3>1 DEF ServiceType
    <3>2. ASSUME NEW t \in Slot, Cache!ServeStale(t, k),
                 clientless' = IF HasClient(k) THEN clientless ELSE clientless \cup {t}
          PROVE  CacheType' /\ held' = held /\ clientless' \subseteq Slot
      BY <1>t, <3>2, ServeStaleStep DEF ServiceType
    <3> QED BY <1>3, <3>1, <3>2 DEF Serve
  <2>3. ServiceType' /\ LastUpdatedInv'
    BY <1>t, <1>3, <2>2 DEF Serve, ServiceType, LastUpdatedInv
  <2> QED BY <1>q, <2>1, <2>2, <2>3
<1>4. ASSUME NEW w \in Walker, NEW k \in Key, Wait(w, k) PROVE IInv'
  <2>1. WalkType'
    BY <1>t, <1>4 DEF Wait, WalkType
  <2>2. CacheType' /\ held' = held
    BY <1>t, <1>4, ColdMissStep DEF Wait
  <2>3. ServiceType' /\ LastUpdatedInv'
    BY <1>t, <1>4, <2>2 DEF Wait, ServiceType, LastUpdatedInv
  <2> QED BY <1>q, <2>1, <2>2, <2>3
<1>5. ASSUME NEW w \in Walker, NEW k \in Key, Gone(w, k) PROVE IInv'
  <2>1. WalkType'
    BY <1>t, <1>5, AnsweredStep DEF Gone
  <2>2. CacheType' /\ held' = held
    BY <1>5, <1>u DEF Gone
  <2>3. ServiceType' /\ LastUpdatedInv'
    BY <1>t, <1>5, <2>2 DEF Gone, ServiceType, LastUpdatedInv
  <2> QED BY <1>q, <2>1, <2>2, <2>3
<1>6. ASSUME NEW w \in Walker, Respond(w) PROVE IInv'
  <2>1. WalkType'
    BY <1>t, <1>6 DEF Respond, WalkType, Resting
  <2>2. CacheType' /\ held' = held
    BY <1>6, <1>u DEF Respond
  <2>3. ServiceType' /\ LastUpdatedInv'
    BY <1>t, <1>6, <2>2 DEF Respond, ServiceType, LastUpdatedInv
  <2> QED BY <1>q, <2>1, <2>2, <2>3
<1>7. ASSUME NEW t \in Walker \cup Slot, Deliver(t) PROVE IInv'
  <2>1. CacheType' /\ fetch[t].key \in Key /\ held' # {}
    BY <1>t, <1>7, CompleteStep DEF Deliver
  <2>2. WalkType'
    BY <1>t, <1>7, AnsweredStep DEF Deliver, Resume, WalkType
  <2>3. ServiceType' /\ LastUpdatedInv'
    BY <1>t, <1>7, <2>1 DEF Deliver, ServiceType, LastUpdatedInv
  <2> QED BY <1>q, <2>1, <2>2, <2>3
<1>8. ASSUME NEW t \in Walker \cup Slot, FetchFails(t) PROVE IInv'
  <2>1. CacheType' /\ held' = held
    BY <1>t, <1>8, FailStep DEF FetchFails
  <2>2. WalkType'
    BY <1>t, <1>8, AnsweredStep DEF FetchFails, Resume, WalkType
  <2>3. ServiceType' /\ LastUpdatedInv'
    BY <1>t, <1>8, <2>1 DEF FetchFails, ServiceType, LastUpdatedInv
  <2> QED BY <1>q, <2>1, <2>2, <2>3
<1>9. ASSUME RefreshProjects PROVE IInv'
  <2>1. present' \subseteq Project /\ Clear /\ clientless' \subseteq clientless /\ walk' = walk
    BY <1>9 DEF RefreshProjects
  <2>2. CacheType' /\ held' = {} /\ lastUpdated' = FALSE
    BY <1>t, <2>1, ClearStep
  <2>3. WalkType' /\ ServiceType' /\ LastUpdatedInv'
    BY <1>t, <2>1, <2>2 DEF WalkType, ServiceType, LastUpdatedInv
  <2> QED BY <1>q, <2>2, <2>3
<1>10. ASSUME RefreshCache PROVE IInv'
  <2>1. CacheType' /\ held' = {} /\ lastUpdated' = FALSE
    BY <1>t, <1>10, ClearStep DEF RefreshCache
  <2>2. WalkType' /\ ServiceType' /\ LastUpdatedInv'
    BY <1>t, <1>10, <2>1 DEF RefreshCache, WalkType, ServiceType, LastUpdatedInv
  <2> QED BY <1>q, <2>1, <2>2
<1>11. ASSUME NEW k \in Key, Expire(k) PROVE IInv'
  <2>1. CacheType' /\ held' = held
    BY <1>t, <1>11 DEF Expire, Cache!Expire, CacheType, Cache!TypeOK, Cache!Idle
  <2>2. WalkType' /\ ServiceType' /\ LastUpdatedInv'
    BY <1>t, <1>11, <2>1 DEF Expire, WalkType, ServiceType, LastUpdatedInv
  <2> QED BY <1>q, <2>1, <2>2
<1>12. CASE UNCHANGED vars
  <2>1. CacheType' /\ held' = held
    BY <1>12, <1>u DEF vars
  <2>2. WalkType' /\ ServiceType' /\ LastUpdatedInv'
    BY <1>t, <1>12, <2>1 DEF vars, WalkType, ServiceType, LastUpdatedInv
  <2> QED BY <1>q, <2>1, <2>2
<1>13. ASSUME NEW r \in Request, Begin(r) PROVE IInv'
  BY <1>1, <1>13, QueriesAssumption DEF Begin, Walker
<1>14. ASSUME NEW w \in Warmer, StartWarmUp(w) PROVE IInv'
  BY <1>1, <1>14, QueriesAssumption DEF StartWarmUp, Walker
<1>15. ASSUME NEW w \in Walker, Step(w) PROVE IInv'
  BY <1>2, <1>3, <1>4, <1>5, <1>6, <1>15 DEF Step
<1>16. CASE Routine
  BY <1>7, <1>8, <1>9, <1>11, <1>12, <1>13, <1>14, <1>15, <1>16 DEF Routine, RegistryFails
<1> QED BY <1>10, <1>12, <1>16 DEF Next

\* The service and its caches keep their types, whatever the registry names and
\* however fetches end (service.py:67-196).
THEOREM TypeCorrect == Spec => []TypeOK
<1>1. IInv => TypeOK
  BY DEF IInv
<1> QED BY <1>1, InitEstablishesIInv, NextPreservesIInv, PTL DEF Spec

\* The dashboard shows a time of refresh exactly while some cache holds data
\* (service.py:97-105), also when entries are evicted for others, fetches fail
\* and late answers come in after a clear.
THEOREM TimeMatchesCaches == Spec => []LastUpdatedInv
<1>1. IInv => LastUpdatedInv
  BY DEF IInv
<1> QED BY <1>1, InitEstablishesIInv, NextPreservesIInv, PTL DEF Spec

=============================================================================
