--------------------------- MODULE DashboardProofs ---------------------------
(***************************************************************************)
(* Proofs about Dashboard, for any number of scopes, backends, refreshes   *)
(* and manual reconciliations under way at once.                           *)
(*                                                                         *)
(* ShowsSelection says something only once nothing is under way.  What     *)
(* makes it inductive is a fact about the refresh that was started last:   *)
(* unless a later one has ended, it asks for what is selected.             *)
(***************************************************************************)
EXTENDS Dashboard, TLAPS

\* The refresh that was started last, unless overtaken, asks for the selection.
NewestIsSelected ==
  LET newest == open[Len(open)]
  IN  open # <<>> /\ ~ newest.late => newest.scope = scope /\ newest.backend = backend

IInv ==
  /\ TypeOK
  /\ NewestIsSelected
  /\ ShowsSelection
  /\ StatusIsTruthful

\* Removing one element of a sequence keeps the others in their order.
LEMMA RemoveAtIsRemoval ==
  ASSUME NEW S, NEW s \in Seq(S), NEW i \in 1 .. Len(s)
  PROVE  /\ RemoveAt(s, i) \in Seq(S)
         /\ Len(RemoveAt(s, i)) = Len(s) - 1
         /\ \A j \in 1 .. Len(s) - 1 : RemoveAt(s, i)[j] = IF j < i THEN s[j] ELSE s[j + 1]
<1> DEFINE a == SubSeq(s, 1, i - 1)
           b == SubSeq(s, i + 1, Len(s))
<1>1. /\ a \in Seq(S) /\ Len(a) = i - 1
      /\ \A j \in 1 .. i - 1 : a[j] = s[j]
      /\ b \in Seq(S) /\ Len(b) = Len(s) - i
      /\ \A j \in 1 .. Len(s) - i : b[j] = s[i + j]
  OBVIOUS
<1>2. RemoveAt(s, i) = a \o b
  BY DEF RemoveAt
<1> HIDE DEF a, b
<1> DEFINE r == a \o b
<1>3. /\ r \in Seq(S) /\ Len(r) = Len(s) - 1
      /\ \A j \in 1 .. Len(r) : r[j] = IF j <= Len(a) THEN a[j] ELSE b[j - Len(a)]
  <2>1. a \in Seq(S) /\ b \in Seq(S) /\ Len(a) + Len(b) = Len(s) - 1
    BY <1>1
  <2> QED BY <2>1
<1>4. /\ Len(a) = i - 1 /\ Len(r) = Len(s) - 1
      /\ i \in Int /\ Len(s) \in Nat
  BY <1>1, <1>3
<1>5. ASSUME NEW j \in 1 .. Len(s) - 1
      PROVE  r[j] = IF j < i THEN s[j] ELSE s[j + 1]
  <2> HIDE DEF r
  <2>1. j \in 1 .. Len(r) /\ j \in Int
    BY <1>4
  <2>2. r[j] = IF j <= Len(a) THEN a[j] ELSE b[j - Len(a)]
    BY <1>3, <2>1
  <2>3. CASE j < i
    <3>1. j \in 1 .. i - 1 /\ j <= Len(a)
      BY <1>4, <2>1, <2>3
    <3>2. r[j] = a[j]
      BY <2>2, <3>1
    <3>3. a[j] = s[j]
      BY <1>1, <3>1
    <3> QED BY <2>3, <3>2, <3>3
  <2>4. CASE ~ (j < i)
    <3>1. /\ ~ (j <= Len(a))
          /\ j - Len(a) \in 1 .. Len(s) - i /\ i + (j - Len(a)) = j + 1
      BY <1>4, <2>1, <2>4
    <3>2. r[j] = b[j - Len(a)]
      BY <2>2, <3>1
    <3>3. b[j - Len(a)] = s[i + (j - Len(a))]
      BY <1>1, <3>1
    <3> QED BY <2>4, <3>1, <3>2, <3>3
  <2> QED BY <2>3, <2>4
<1> QED BY <1>2, <1>3, <1>5 DEF r

\* What the queue is after refresh i has ended: the others, in their order, and
\* those before i late.
LEMMA EndedQueue ==
  ASSUME TypeOK, NEW i \in DOMAIN open, Ended(i)
  PROVE  /\ open' \in Seq(Refresh)
         /\ Len(open) >= 1 /\ open # <<>>
         /\ Len(open') = Len(open) - 1
         /\ open' # <<>> /\ i = Len(open) => open'[Len(open')].late
         /\ i # Len(open) => open' # <<>> /\ open'[Len(open')] = open[Len(open)]
         /\ boot' \in {"projects", "refresh", "last", "done", "failed"}
<1> DEFINE marked == [j \in DOMAIN open |->
                        IF j < i THEN [open[j] EXCEPT !.late = TRUE] ELSE open[j]]
<1>1. /\ open \in Seq(Refresh) /\ DOMAIN open = 1 .. Len(open)
      /\ Len(open) \in Nat /\ i \in 1 .. Len(open)
  <2>1. open \in Seq(Refresh)
    BY DEF TypeOK
  <2> HIDE DEF marked
  <2> QED BY <2>1
<1>2. ASSUME NEW j \in 1 .. Len(open)
      PROVE  /\ marked[j] \in Refresh
             /\ j < i => marked[j].late
             /\ j >= i => marked[j] = open[j]
  <2>1. open[j] \in Refresh
    BY <1>1
  <2>2. /\ [open[j] EXCEPT !.late = TRUE] \in Refresh
        /\ [open[j] EXCEPT !.late = TRUE].late
    BY <2>1 DEF Refresh
  <2> QED BY <1>1, <2>1, <2>2
<1>3. marked \in Seq(Refresh) /\ Len(marked) = Len(open)
  <2>1. marked \in [1 .. Len(open) -> Refresh]
    BY <1>1, <1>2
  <2> HIDE DEF marked
  <2>2. marked \in Seq(Refresh)
    BY <1>1, <2>1
  <2> QED BY <1>1, <2>1, <2>2
<1>4. open' = RemoveAt(marked, i)
  BY DEF Ended
<1> HIDE DEF marked
<1>5. /\ open' \in Seq(Refresh)
      /\ Len(open') = Len(open) - 1
      /\ \A j \in 1 .. Len(open) - 1 : open'[j] = IF j < i THEN marked[j] ELSE marked[j + 1]
  BY <1>1, <1>3, <1>4, RemoveAtIsRemoval
<1>6. Len(open) >= 1 /\ open # <<>> /\ (open' # <<>> <=> Len(open) - 1 >= 1)
  BY <1>1, <1>5
<1>7. ASSUME open' # <<>>, i = Len(open) PROVE open'[Len(open')].late
  BY <1>1, <1>2, <1>5, <1>6, <1>7
<1>8. ASSUME i # Len(open) PROVE open' # <<>> /\ open'[Len(open')] = open[Len(open)]
  BY <1>1, <1>2, <1>5, <1>6, <1>8
<1>9. boot' \in {"projects", "refresh", "last", "done", "failed"}
  BY DEF TypeOK, Ended
<1> QED BY <1>5, <1>6, <1>7, <1>8, <1>9

-----------------------------------------------------------------------------
(* The inductive invariant: the initial states and each kind of step.      *)

\* At the start nothing is under way and nothing is shown.
LEMMA InitIInv == Init => IInv
<1> SUFFICES ASSUME Init PROVE IInv
  OBVIOUS
<1>1. TypeOK
  <2>1. scope \in Scope /\ backend \in {All} \cup Backend /\ backends \subseteq Backend
    BY ScopeAssumption DEF Init
  <2>2. open \in Seq(Refresh)
    <3>1. open = <<>>
      BY DEF Init
    <3> QED BY <3>1
  <2>3. shown \in Shown \cup {None}
    BY DEF Init
  <2>4. manual \in [Click -> Manual]
    BY DEF Init, Manual
  <2> QED BY <2>1, <2>2, <2>3, <2>4 DEF Init, TypeOK
<1>2. NewestIsSelected /\ ShowsSelection /\ StatusIsTruthful
  BY DEF Init, NewestIsSelected, ShowsSelection, StatusIsTruthful
<1> QED BY <1>1, <1>2 DEF IInv

\* A refresh starts with the values that the selectors have from now on.
LEMMA StartKeepsIInv ==
  ASSUME IInv, NEW s \in Scope, NEW b \in {All} \cup Backend, NEW booting \in BOOLEAN,
         Start(s, b, booting), scope' = s, backend' = b,
         UNCHANGED <<backends, manual, table>>,
         boot' \in {"projects", "refresh", "last", "done", "failed"}
  PROVE  IInv'
<1> DEFINE new == [scope |-> s, backend |-> b, boot |-> booting, late |-> FALSE]
<1>1. new \in Refresh /\ new.scope = s /\ new.backend = b
  BY DEF Refresh
<1>2. open \in Seq(Refresh)
  BY DEF IInv, TypeOK
<1>3. open' = Append(open, new) /\ status' = "loading" /\ UNCHANGED <<shown, last>>
  BY DEF Start
<1> HIDE DEF new
<1>4. /\ open' \in Seq(Refresh) /\ open' # <<>>
      /\ open'[Len(open')] = new
  BY <1>1, <1>2, <1>3
<1>5. TypeOK'
  BY <1>3, <1>4 DEF IInv, TypeOK
<1>6. NewestIsSelected'
  BY <1>1, <1>4 DEF NewestIsSelected
<1>7. ShowsSelection' /\ StatusIsTruthful'
  BY <1>3, <1>4 DEF IInv, ShowsSelection, StatusIsTruthful
<1> QED BY <1>5, <1>6, <1>7 DEF IInv

\* A refresh that ends in time was started last, if none is under way any more.
LEMMA RefreshDoneKeepsIInv ==
  ASSUME IInv, NEW i, RefreshDone(i)
  PROVE  IInv'
<1>1. /\ i \in DOMAIN open /\ Ended(i)
      /\ shown' = Render(open[i])
      /\ last' = IF open[i].late THEN "shown late" ELSE "shown"
      /\ status' = "updated"
      /\ UNCHANGED <<manual, table>>
  BY DEF RefreshDone
<1>2. /\ open' \in Seq(Refresh)
      /\ Len(open) >= 1 /\ open # <<>>
      /\ Len(open') = Len(open) - 1
      /\ open' # <<>> /\ i = Len(open) => open'[Len(open')].late
      /\ i # Len(open) => open' # <<>> /\ open'[Len(open')] = open[Len(open)]
      /\ boot' \in {"projects", "refresh", "last", "done", "failed"}
  BY <1>1, EndedQueue DEF IInv
<1>3. scope' = scope /\ backend' = backend /\ backends' \subseteq Backend
  <2>1. PICK B \in SUBSET Backend : PopulateBackends(B)
    BY DEF RefreshDone
  <2>2. backend \in {All} \cup Backend
    BY DEF IInv, TypeOK
  <2> QED BY <2>1, <2>2 DEF PopulateBackends
<1>4. open[i] \in Refresh
  <2>1. open \in Seq(Refresh) /\ i \in DOMAIN open
    BY <1>1 DEF IInv, TypeOK
  <2>2. DOMAIN open = 1 .. Len(open)
    BY <2>1
  <2> QED BY <2>1, <2>2
<1>5. /\ shown' \in Shown
      /\ shown'.scope = open[i].scope /\ shown'.backend = open[i].backend
  BY <1>1, <1>4 DEF Render, Shown, Refresh
<1>6. TypeOK'
  BY <1>1, <1>2, <1>3, <1>5 DEF IInv, TypeOK
<1>7. NewestIsSelected'
  BY <1>2, <1>3 DEF IInv, NewestIsSelected
<1>8. ShowsSelection'
  BY <1>1, <1>2, <1>3, <1>5 DEF IInv, NewestIsSelected, ShowsSelection
<1>9. StatusIsTruthful'
  BY <1>1, <1>5 DEF StatusIsTruthful
<1> QED BY <1>6, <1>7, <1>8, <1>9 DEF IInv

\* A refresh that fails renders nothing.
LEMMA RefreshFailsKeepsIInv ==
  ASSUME IInv, NEW i, RefreshFails(i)
  PROVE  IInv'
<1>1. /\ i \in DOMAIN open /\ Ended(i)
      /\ last' = "failed" /\ status' = "error"
      /\ UNCHANGED <<scope, backend, backends, shown, manual, table>>
  BY DEF RefreshFails, selectors
<1>2. /\ open' \in Seq(Refresh)
      /\ Len(open) >= 1 /\ open # <<>>
      /\ Len(open') = Len(open) - 1
      /\ open' # <<>> /\ i = Len(open) => open'[Len(open')].late
      /\ i # Len(open) => open' # <<>> /\ open'[Len(open')] = open[Len(open)]
      /\ boot' \in {"projects", "refresh", "last", "done", "failed"}
  BY <1>1, EndedQueue DEF IInv
<1>3. TypeOK'
  BY <1>1, <1>2 DEF IInv, TypeOK
<1>4. NewestIsSelected'
  BY <1>1, <1>2 DEF IInv, NewestIsSelected
<1>5. ShowsSelection' /\ StatusIsTruthful'
  BY <1>1 DEF IInv, ShowsSelection, StatusIsTruthful
<1> QED BY <1>3, <1>4, <1>5 DEF IInv

\* A manual reconciliation begins, goes on or ends, with its line of status.
LEMMA ManualKeepsIInv ==
  ASSUME IInv, NEW c \in Click,
         PressReconcile(c) \/ RowsArrive(c) \/ ReconcileFails(c) \/ MetaEnds(c)
  PROVE  IInv'
<1>1. UNCHANGED <<scope, backend, backends, open, shown, last, boot>>
  BY DEF PressReconcile, RowsArrive, ReconcileFails, MetaEnds, selectors, panels
<1>2. manual \in [Click -> Manual]
  BY DEF IInv, TypeOK
<1>3. TypeOK'
  BY <1>1 DEF IInv, TypeOK, Manual, PressReconcile, RowsArrive, ReconcileFails, MetaEnds
<1>4. NewestIsSelected' /\ ShowsSelection'
  BY <1>1 DEF IInv, NewestIsSelected, ShowsSelection
<1>5. StatusIsTruthful'
  <2>1. CASE PressReconcile(c) \/ RowsArrive(c)
    <3>1. manual'[c] # "off"
      BY <1>2, <2>1 DEF PressReconcile, RowsArrive
    <3>2. status' = "loading" => open' # <<>>
      BY <1>1, <2>1 DEF PressReconcile, RowsArrive, IInv, StatusIsTruthful
    <3> QED BY <3>1, <3>2 DEF StatusIsTruthful
  <2>2. CASE ReconcileFails(c) \/ MetaEnds(c)
    BY <2>2 DEF ReconcileFails, MetaEnds, StatusIsTruthful
  <2> QED BY <2>1, <2>2
<1> QED BY <1>3, <1>4, <1>5 DEF IInv

\* The steps of the start-up that wait for other things than a refresh.
LEMMA BootKeepsIInv ==
  ASSUME IInv, ProjectsFail \/ LastLoaded \/ UNCHANGED vars
  PROVE  IInv'
<1>1. UNCHANGED <<scope, backend, backends, open, shown, last, status, manual>>
  BY DEF ProjectsFail, LastLoaded, vars, selectors, panels
<1>2. /\ boot' \in {"projects", "refresh", "last", "done", "failed"}
      /\ table' \in {"empty", "persisted", "manual"}
  BY DEF ProjectsFail, LastLoaded, vars, IInv, TypeOK
<1>3. TypeOK'
  BY <1>1, <1>2 DEF IInv, TypeOK
<1>4. NewestIsSelected' /\ ShowsSelection' /\ StatusIsTruthful'
  BY <1>1 DEF IInv, NewestIsSelected, ShowsSelection, StatusIsTruthful
<1> QED BY <1>3, <1>4 DEF IInv

-----------------------------------------------------------------------------
(* The theorems.                                                           *)

\* One case per action.
LEMMA NextIInv == IInv /\ [Next]_vars => IInv'
<1> SUFFICES ASSUME IInv, [Next]_vars PROVE IInv'
  OBVIOUS
<1>t. /\ scope \in Scope /\ backend \in {All} \cup Backend /\ backends \subseteq Backend
      /\ boot \in {"projects", "refresh", "last", "done", "failed"}
  BY DEF IInv, TypeOK
<1>1. CASE SelectScope
  <2>1. PICK s \in Scope \ {scope} : scope' = s /\ Start(s, backend, FALSE)
    BY <1>1 DEF SelectScope
  <2> QED BY <1>1, <1>t, <2>1, StartKeepsIInv DEF SelectScope
<1>2. CASE SelectBackend
  <2>1. PICK b \in ({All} \cup backends) \ {backend} : backend' = b /\ Start(scope, b, FALSE)
    BY <1>2 DEF SelectBackend
  <2> QED BY <1>2, <1>t, <2>1, StartKeepsIInv DEF SelectBackend
<1>3. CASE PressRefresh
  BY <1>3, <1>t, StartKeepsIInv DEF PressRefresh, selectors
<1>4. CASE ProjectsLoaded
  BY <1>4, <1>t, StartKeepsIInv DEF ProjectsLoaded, selectors
<1>5. ASSUME NEW i \in 1 .. MaxOpen, RefreshDone(i) \/ RefreshFails(i) PROVE IInv'
  BY <1>5, RefreshDoneKeepsIInv, RefreshFailsKeepsIInv
<1>6. ASSUME NEW c \in Click,
             PressReconcile(c) \/ RowsArrive(c) \/ ReconcileFails(c) \/ MetaEnds(c)
      PROVE  IInv'
  BY <1>6, ManualKeepsIInv
<1>7. CASE ProjectsFail \/ LastLoaded \/ UNCHANGED vars
  BY <1>7, BootKeepsIInv
<1> QED BY <1>1, <1>2, <1>3, <1>4, <1>5, <1>6, <1>7 DEF Next

\* The inductive invariant holds in every behaviour.
LEMMA Invariance == Spec => []IInv
<1>1. Init => IInv
  BY InitIInv
<1>2. IInv /\ [Next]_vars => IInv'
  BY NextIInv
<1> QED BY <1>1, <1>2, PTL DEF Spec

\* The selectors never lose their value (dashboard.js:137-147), and the page's
\* other state keeps its form.
THEOREM TypeCorrect == Spec => []TypeOK
<1>1. IInv => TypeOK
  BY DEF IInv
<1> QED BY <1>1, Invariance, PTL

\* However many refreshes overlap, and in whatever order they end, a page that
\* waits for nothing shows what is selected, unless the refresh that ended last
\* failed or had been overtaken (dashboard.js:396-434).
THEOREM PanelsShowSelection == Spec => []ShowsSelection
<1>1. IInv => ShowsSelection
  BY DEF IInv
<1> QED BY <1>1, Invariance, PTL

\* The status line announces work only while some is under way
\* (dashboard.js:355-434).
THEOREM StatusIsHonest == Spec => []StatusIsTruthful
<1>1. IInv => StatusIsTruthful
  BY DEF IInv
<1> QED BY <1>1, Invariance, PTL

=============================================================================
