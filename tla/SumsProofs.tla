----------------------------- MODULE SumsProofs -----------------------------
(***************************************************************************)
(* Proofs about the sums of costs: what Total computes, then what the      *)
(* cards of a summary (Rollup) and the views of cached rows (CostViews)    *)
(* add up to, for any number of projects, traces, models, sessions and     *)
(* instants.                                                               *)
(*                                                                         *)
(* Total is a fold, a function defined by recursion over the subsets of    *)
(* its domain.  When rows count disjoint parts of a finite set, the sizes  *)
(* of the joined parts satisfy the recursion's equation; and two solutions *)
(* cannot differ, or they would differ first on some set of least size.    *)
(***************************************************************************)
EXTENDS Rollup, CostViews, FiniteSetTheorems, WellFoundedInduction, TLAPS

-----------------------------------------------------------------------------
(* Sums of sizes.                                                          *)

\* The parts of the rows s, joined.
Joined(A, s) == UNION {A[k] : k \in s}

\* The element of s that the fold takes.
Picked(s) == CHOOSE x \in s : TRUE

\* g solves the equation of the recursion.
Solves(g, rows, D) ==
  g = [s \in SUBSET D |-> IF s = {} THEN 0 ELSE rows[Picked(s)] + g[s \ {Picked(s)}]]

\* Total is the value of a solution of the recursion, if there is one.
LEMMA TotalIsFold ==
  ASSUME NEW rows, NEW D, D = DOMAIN rows, \E g : Solves(g, rows, D)
  PROVE  \E g : Solves(g, rows, D) /\ Total(rows) = g[D]
<1> DEFINE iter == CHOOSE g : Solves(g, rows, D)
<1>1. Solves(iter, rows, D)
  OBVIOUS
<1>2. Total(rows) = iter[D]
  BY DEF Total, MapThenSumSet, MapThenFoldSet, Solves, Picked
<1> QED BY <1>1, <1>2

\* A set of natural numbers that is not empty has a least element.
LEMMA LeastNumber ==
  ASSUME NEW N \in SUBSET Nat, N # {}
  PROVE  \E n \in N : \A m \in N : n <= m
<1>1. PICK n \in N : \A m \in N : ~ (<<m, n>> \in OpToRel(<, Nat))
  BY NatLessThanWellFounded, WFMin
<1>2. \A m \in N : ~ (m < n)
  BY <1>1 DEF OpToRel
<1> QED BY <1>2

\* The recursion has one solution at most, on finite sets.
LEMMA FoldIsUnique ==
  ASSUME NEW rows, NEW D, IsFiniteSet(D), NEW f, NEW g,
         Solves(f, rows, D), Solves(g, rows, D)
  PROVE  f[D] = g[D]
<1> DEFINE N == {n \in Nat : \E s \in SUBSET D : Cardinality(s) = n /\ f[s] # g[s]}
<1>1. \A s \in SUBSET D : IsFiniteSet(s) /\ Cardinality(s) \in Nat
  BY FS_Subset, FS_CardinalityType
<1>2. SUFFICES ASSUME f[D] # g[D] PROVE FALSE
  OBVIOUS
<1>3. N # {}
  BY <1>1, <1>2
<1>4. PICK n \in N : \A m \in N : n <= m
  BY <1>3, LeastNumber
<1>5. PICK s \in SUBSET D : Cardinality(s) = n /\ f[s] # g[s]
  BY <1>4
<1> DEFINE r == s \ {Picked(s)}
<1>6. /\ f[s] = IF s = {} THEN 0 ELSE rows[Picked(s)] + f[r]
      /\ g[s] = IF s = {} THEN 0 ELSE rows[Picked(s)] + g[r]
  BY DEF Solves
<1>7. s # {} /\ f[r] # g[r]
  BY <1>5, <1>6
<1>8. Picked(s) \in s
  BY <1>7 DEF Picked
<1>9. Cardinality(r) = n - 1 /\ r \in SUBSET D
  BY <1>1, <1>5, <1>8, FS_RemoveElement
<1>10. Cardinality(r) \in N
  BY <1>1, <1>7, <1>9
<1> HIDE DEF N
<1>11. n \in Int
  BY <1>1, <1>5
<1> QED BY <1>4, <1>9, <1>10, <1>11

\* The size of two sets that share nothing.
LEMMA SizeOfDisjoint ==
  ASSUME NEW S, IsFiniteSet(S), NEW T, IsFiniteSet(T), S \cap T = {}
  PROVE  Cardinality(S \cup T) = Cardinality(S) + Cardinality(T)
<1>1. Cardinality(S \cup T) = Cardinality(S) + Cardinality(T) - Cardinality({})
  BY FS_Union
<1>2. Cardinality({}) = 0 /\ Cardinality(S) \in Nat /\ Cardinality(T) \in Nat
  BY FS_EmptySet, FS_CardinalityType
<1> QED BY <1>1, <1>2

\* Rows that count disjoint parts of a finite set add up to the size of the
\* parts joined: no element is left out or counted twice.
LEMMA TotalOfSizes ==
  ASSUME NEW U, IsFiniteSet(U), NEW D, IsFiniteSet(D), NEW rows, DOMAIN rows = D,
         NEW A, \A k \in D : A[k] \subseteq U /\ rows[k] = Cardinality(A[k]),
         \A j, k \in D : j # k => A[j] \cap A[k] = {}
  PROVE  Total(rows) = Cardinality(Joined(A, D))
<1> DEFINE size == [s \in SUBSET D |-> Cardinality(Joined(A, s))]
<1>1. Solves(size, rows, D)
  <2>1. \A s \in SUBSET D : IsFiniteSet(Joined(A, s))
    <3>1. \A s \in SUBSET D : Joined(A, s) \in SUBSET U
      BY DEF Joined
    <3> QED BY <3>1, FS_Subset
  <2>2. ASSUME NEW s \in SUBSET D
        PROVE  size[s] = IF s = {} THEN 0 ELSE rows[Picked(s)] + size[s \ {Picked(s)}]
    <3>1. CASE s = {}
      <4>1. Joined(A, {}) = {}
        BY DEF Joined
      <4> QED BY <3>1, <4>1, FS_EmptySet
    <3>2. CASE s # {}
      <4> DEFINE x == Picked(s)
                 r == s \ {x}
      <4>1. x \in s /\ x \in D /\ s \ {x} \in SUBSET D
        BY <3>2 DEF Picked
      <4> HIDE DEF x
      <4>2. Joined(A, s) = A[x] \cup Joined(A, r)
        BY <4>1 DEF Joined
      <4>3. A[x] \cap Joined(A, r) = {}
        BY <4>1 DEF Joined
      <4>4. IsFiniteSet(A[x]) /\ IsFiniteSet(Joined(A, r))
        BY <4>1, <2>1, FS_Subset
      <4> HIDE DEF r
      <4>5. Cardinality(Joined(A, s)) = Cardinality(A[x]) + Cardinality(Joined(A, r))
        BY <4>2, <4>3, <4>4, SizeOfDisjoint
      <4> QED BY <3>2, <4>1, <4>5 DEF x, r
    <3> QED BY <3>1, <3>2
  <2> HIDE DEF size
  <2>3. size = [s \in SUBSET D |-> size[s]]
    BY DEF size
  <2> QED BY <2>2, <2>3 DEF Solves
<1>2. PICK g : Solves(g, rows, D) /\ Total(rows) = g[D]
  BY <1>1, TotalIsFold
<1>3. g[D] = size[D]
  BY <1>1, <1>2, FoldIsUnique
<1> QED BY <1>2, <1>3

-----------------------------------------------------------------------------
(* The cards of a summary.                                                 *)

\* The images of a finite set are finitely many.
LEMMA ImagesAreFinite ==
  ASSUME NEW S, IsFiniteSet(S), NEW F, DOMAIN F = S, NEW T, T = {F[x] : x \in S}
  PROVE  IsFiniteSet(T)
<1> DEFINE G == [x \in S |-> F[x]]
<1>1. G \in [S -> T] /\ \A y \in T : \E x \in S : G[x] = y
  OBVIOUS
<1>2. G \in Surjection(S, T)
  BY <1>1 DEF Surjection
<1> QED BY <1>2, FS_Surjection

\* A set that is finite and not empty has a positive size, and conversely.
LEMMA PositiveSize ==
  ASSUME NEW S, IsFiniteSet(S)
  PROVE  Cardinality(S) \in Nat /\ (Cardinality(S) > 0 <=> S # {})
<1> QED BY FS_CardinalityType, FS_EmptySet

\* The cards of any selection add up to its cost, whatever the fleet and the
\* usage are: every unit of cost is on the card of its project's owner.
LEMMA CardsConserve ==
  ASSUME NEW o, NEW b
  PROVE  Total(Cards(o, b)) = Cost(Resolve(o), b)
<1> DEFINE S == Resolve(o)
           own == [s \in S |-> OwnerOf(s)]
           O == {own[s] : s \in S}
           A == [c \in O |-> {x \in {s \in S : own[s] = c} \X Backends :
                                x[2] \in usage[x[1]] /\ b \in {All, x[2]}}]
           D == {c \in O : b = All \/ Cardinality(A[c]) > 0}
           U == {x \in S \X Backends : x[2] \in usage[x[1]] /\ b \in {All, x[2]}}
           rows == Cards(o, b)
<1>1. S \subseteq Slug
  BY NamesApart DEF Resolve, Present
<1>2. IsFiniteSet(S) /\ IsFiniteSet(Backends)
  BY <1>1, FS_Subset, FiniteNames
<1>3. IsFiniteSet(U)
  <2>1. IsFiniteSet(S \X Backends)
    BY <1>2, FS_Product
  <2> QED BY <2>1, FS_Subset
<1>4. IsFiniteSet(D)
  <2>1. IsFiniteSet(O)
    <3> HIDE DEF S
    <3>1. DOMAIN own = S
      OBVIOUS
    <3> HIDE DEF own
    <3> QED BY <1>2, <3>1, ImagesAreFinite
  <2> QED BY <2>1, FS_Subset
<1>5. rows = [c \in D |-> Cardinality(A[c])]
  <2>1. O = {OwnerOf(s) : s \in S}
    OBVIOUS
  <2>2. \A c \in O : A[c] = {x \in {s \in S : OwnerOf(s) = c} \X Backends :
                               x[2] \in usage[x[1]] /\ b \in {All, x[2]}}
    OBVIOUS
  <2>3. \A c \in O : Cost({s \in S : OwnerOf(s) = c}, b) = Cardinality(A[c])
    BY <2>2 DEF Cost
  <2>4. D = {d \in O : b = All \/ Cost({s \in S : OwnerOf(s) = d}, b) > 0}
    BY <2>3
  <2> HIDE DEF A
  <2>5. rows = [c \in D |-> Cost({s \in S : OwnerOf(s) = c}, b)]
    BY <2>1, <2>4 DEF Cards
  <2> QED BY <2>3, <2>5
<1>6. \A k \in D : A[k] \subseteq U
  BY DEF Resolve
<1>7. \A j, k \in D : j # k => A[j] \cap A[k] = {}
  OBVIOUS
<1>8. Joined(A, D) = U
  <2>1. Joined(A, D) \subseteq U
    BY <1>6 DEF Joined
  <2>2. ASSUME NEW x \in U PROVE x \in Joined(A, D)
    <3>1. own[x[1]] \in O /\ x \in A[own[x[1]]]
      OBVIOUS
    <3>2. IsFiniteSet(A[own[x[1]]])
      <4>1. A[own[x[1]]] \subseteq U
        BY <3>1
      <4> QED BY <4>1, <1>3, FS_Subset
    <3>3. own[x[1]] \in D
      BY <3>1, <3>2, PositiveSize
    <3> QED BY <3>1, <3>3 DEF Joined
  <2> QED BY <2>1, <2>2
<1>9. Cost(S, b) = Cardinality(U)
  BY DEF Cost
<1>10. DOMAIN rows = D /\ \A k \in D : rows[k] = Cardinality(A[k])
  BY <1>5
<1> HIDE DEF S, own, O, A, D, U, rows
<1>11. Total(rows) = Cardinality(Joined(A, D))
  BY <1>3, <1>4, <1>6, <1>7, <1>10, TotalOfSizes
<1> QED BY <1>8, <1>9, <1>11 DEF S, rows

\* The map of projects to components has its type.
FleetTyped == fleet \in Fleet

\* No change of the map leaves its type.
LEMMA FleetKeepsItsType == RollupSpec => []FleetTyped
<1>1. RollupInit => FleetTyped
  BY DEF RollupInit, FleetTyped, Fleet
<1>2. FleetTyped /\ [RollupNext]_rollupVars => FleetTyped'
  <2> SUFFICES ASSUME FleetTyped, [RollupNext]_rollupVars PROVE FleetTyped'
    OBVIOUS
  <2>1. CASE RefreshProjects
    BY <2>1 DEF RefreshProjects, FleetTyped, Fleet, Absent, Unknown
  <2>2. CASE LoadPage
    BY <2>2 DEF LoadPage, FleetTyped, Fleet, Absent, Unknown
  <2>3. CASE UsageChanges
    BY <2>3 DEF UsageChanges, FleetTyped, Fleet, Absent, Unknown
  <2>4. CASE UNCHANGED rollupVars
    BY <2>4 DEF rollupVars, FleetTyped, Fleet, Absent, Unknown
  <2> QED BY <2>1, <2>2, <2>3, <2>4 DEF RollupNext
<1> QED BY <1>1, <1>2, PTL DEF RollupSpec

\* The owner of a project is a name of its own kind, never a marker or "all".
LEMMA OwnerIsAName ==
  ASSUME FleetTyped, NEW s \in Present
  PROVE  /\ s \in Slug /\ OwnerOf(s) \in Slug \cup Component
         /\ OwnerOf(s) \notin {All, Unknown, Absent}
         /\ s # All
  BY NamesApart DEF FleetTyped, Present, OwnerOf, Fleet

\* Without a collision the selector of a component resolves to its projects.
LEMMA ComponentResolves ==
  ASSUME FleetTyped, NEW c \in Components, ~ Collides(c)
  PROVE  Resolve(c) = Owned(c)
<1>1. c \notin {All, Unknown}
  BY OwnerIsAName DEF Components
<1>2. CASE c \in Present
  BY <1>1, <1>2 DEF Collides, Resolve
<1>3. CASE c \notin Present
  <2>1. \A s \in Present : fleet[s] = c <=> OwnerOf(s) = c
    BY <1>1, <1>3 DEF OwnerOf
  <2> QED BY <1>1, <1>3, <2>1 DEF Resolve, Owned
<1> QED BY <1>2, <1>3

\* The cards of a summary add up to its headline total, in every reachable
\* state, for every selection of the page and every backend
\* (service.py:300-318).
THEOREM SummaryAddsUp == RollupSpec => []RollupConserves
<1>1. RollupConserves
  BY CardsConserve DEF RollupConserves
<1> QED BY <1>1, PTL

\* Outside collisions of names, the option of a component covers exactly the
\* projects of its card (service.py:144-169).
THEOREM SelectionIsItsCard == RollupSpec => []SelectionMatchesCard
<1>1. FleetTyped => SelectionMatchesCard
  BY ComponentResolves DEF SelectionMatchesCard
<1> QED BY <1>1, FleetKeepsItsType, PTL

\* The selector lists nothing in vain, and leaves out no project of the components
\* on the page of /api/components it was filled from (dashboard.js:105-127),
\* whatever the page's limit, collisions of names aside.
THEOREM SelectorIsComplete == RollupSpec => []SelectorCovers
<1>1. FleetTyped => SelectorCovers
  <2> SUFFICES ASSUME FleetTyped, NEW page \in Pages, options = Options(page), Present # {}
               PROVE  /\ \A o \in options : Resolve(o) # {}
                      /\ \A s \in Present :
                           OwnerOf(s) \in page =>
                             \/ Collides(OwnerOf(s))
                             \/ \E o \in options \ {All} : s \in Resolve(o)
    BY DEF SelectorCovers
  <2> page \subseteq Components
    BY DEF Pages
  <2>1. ASSUME NEW o \in Present PROVE Resolve(o) = {o}
    BY <2>1, OwnerIsAName DEF Resolve
  <2>2. ASSUME NEW o \in Components PROVE Resolve(o) # {}
    <3>1. CASE Collides(o)
      BY <3>1, <2>1 DEF Collides
    <3>2. CASE ~ Collides(o)
      BY <3>2, ComponentResolves DEF Owned, Components
    <3> QED BY <3>1, <3>2
  <2>3. ASSUME NEW o \in options PROVE Resolve(o) # {}
    <3>1. CASE o = All
      BY <3>1 DEF Resolve
    <3>2. CASE o # All
      BY <3>2, <2>1, <2>2 DEF Options, Owned
    <3> QED BY <3>1, <3>2
  <2>4. ASSUME NEW s \in Present, OwnerOf(s) \in page, ~ Collides(OwnerOf(s))
        PROVE  \E o \in options \ {All} : s \in Resolve(o)
    <3>1. OwnerOf(s) \in options \ {All}
      BY <2>4, OwnerIsAName DEF Options
    <3>2. s \in Owned(OwnerOf(s))
      BY DEF Owned
    <3> QED BY <2>4, <3>1, <3>2, ComponentResolves DEF Components
  <2> QED BY <2>3, <2>4
<1> QED BY <1>1, FleetKeepsItsType, PTL

-----------------------------------------------------------------------------
(* Time, spend and entries.                                                *)

\* What can be observed.
Observation == [trace : Trace, model : Model, at : 0 .. MaxNow]

\* What holds of time, spend and entries.
ViewsInv ==
  /\ now \in 0 .. MaxNow
  /\ spend \subseteq Observation /\ IsFiniteSet(spend)
  /\ \A o \in spend : o.at <= now
  /\ entry \in [Cache -> [Project -> (0 .. MaxNow) \cup {None}]]
  /\ \A c \in Cache, p \in Project : entry[c][p] # None => entry[c][p] <= now

\* At the start nothing is spent and nothing cached.
LEMMA ViewsInit == Init => ViewsInv
<1> SUFFICES ASSUME Init PROVE ViewsInv
  OBVIOUS
<1>1. now \in 0 .. MaxNow
  BY BoundAssumption DEF Init
<1>2. IsFiniteSet(spend)
  BY FS_EmptySet DEF Init
<1>3. entry = [c \in Cache |-> [p \in Project |-> None]]
  BY DEF Init
<1> QED BY <1>1, <1>2, <1>3 DEF Init, ViewsInv

\* Spend is recorded now, and no entry is younger than now.
LEMMA ViewsNext == ViewsInv /\ [Next]_vars => ViewsInv'
<1> SUFFICES ASSUME ViewsInv, [Next]_vars PROVE ViewsInv'
  OBVIOUS
<1> USE DEF ViewsInv
<1>1. CASE Tick
  <2>1. \A x \in 0 .. MaxNow : x <= now => x <= now + 1
    BY BoundAssumption
  <2>2. now' \in 0 .. MaxNow
    BY <1>1, BoundAssumption DEF Tick
  <2>3. \A o \in spend' : o.at <= now'
    BY <1>1, <2>1 DEF Tick, Observation
  <2>4. \A d \in Cache, q \in Project : entry'[d][q] # None => entry'[d][q] <= now'
    BY <1>1, <2>1 DEF Tick
  <2> QED BY <1>1, <2>2, <2>3, <2>4 DEF Tick, Observation
<1>2. ASSUME NEW t \in Trace, NEW m \in Model, Spend(t, m) PROVE ViewsInv'
  <2> DEFINE x == [trace |-> t, model |-> m, at |-> now]
  <2>1. x \in Observation /\ x.at <= now
    BY BoundAssumption DEF Observation
  <2>2. spend' = spend \cup {x} /\ UNCHANGED <<now, entry, pager>>
    BY <1>2 DEF Spend
  <2>3. IsFiniteSet(spend')
    BY <2>2, FS_AddElement
  <2> HIDE DEF x
  <2> QED BY <2>1, <2>2, <2>3 DEF Observation
<1>3. ASSUME NEW c \in Cache, NEW p \in Project, Fetch(c, p) PROVE ViewsInv'
  <2>1. entry' = [entry EXCEPT ![c][p] = now] /\ UNCHANGED <<now, spend>>
    BY <1>3 DEF Fetch
  <2>2. entry' \in [Cache -> [Project -> (0 .. MaxNow) \cup {None}]]
    BY <2>1
  <2>3. \A d \in Cache, q \in Project : entry'[d][q] # None => entry'[d][q] <= now'
    BY <2>1
  <2> QED BY <2>1, <2>2, <2>3 DEF Observation
<1>4. CASE NextPage \/ PageAgain \/ UNCHANGED vars
  BY <1>4 DEF NextPage, PageAgain, vars, Observation
<1> QED BY <1>1, <1>2, <1>3, <1>4 DEF Next

\* The types of the views hold in every behaviour.
LEMMA ViewsInvariant == Spec => []ViewsInv
BY ViewsInit, ViewsNext, PTL DEF Spec

\* The first instant of a trace is an instant of one of its observations.
LEMMA StartIsLeast ==
  ASSUME ViewsInv, NEW t, NEW o \in spend, o.trace = t
  PROVE  /\ \E x \in spend : x.trace = t /\ x.at = Start(t)
         /\ \A x \in spend : x.trace = t => Start(t) <= x.at
         /\ Start(t) \in 0 .. now
<1> DEFINE S == {x.at : x \in {y \in spend : y.trace = t}}
<1>1. S \in SUBSET Nat /\ S # {}
  BY DEF ViewsInv, Observation
<1> HIDE DEF S
<1>2. \E n \in S : \A m \in S : n <= m
  BY <1>1, LeastNumber
<1>3. Min(S) \in S /\ \A m \in S : Min(S) <= m
  BY <1>2 DEF Min
<1>4. Start(t) = Min(S)
  BY DEF Start, S
<1>5. Start(t) \in Nat
  BY <1>1, <1>3, <1>4
<1>6. PICK x \in spend : x.trace = t /\ x.at = Start(t)
  BY <1>3, <1>4 DEF S
<1>7. \A y \in spend : y.trace = t => Start(t) <= y.at
  BY <1>3, <1>4 DEF S
<1>8. x.at <= now /\ now \in Nat
  BY <1>6 DEF ViewsInv
<1> QED BY <1>5, <1>6, <1>7, <1>8

\* What a cached trace is.
LEMMA GatheredTrace ==
  ASSUME ViewsInv, NEW g \in Gathered, NEW p, p = Owner[g.trace],
         NEW f, f = entry["traces"][p]
  PROVE  /\ g.trace \in Trace /\ p \in Known("traces")
         /\ f \in 0 .. now /\ f \in Nat
         /\ g.at = Start(g.trace) /\ g.at \in 0 .. now /\ InWindow(g.at, f)
         /\ g.spent = {o \in spend : o.trace = g.trace /\ o.at < f}
         /\ \E o \in spend : o.trace = g.trace /\ o.at < f
<1>1. PICK q \in Known("traces") : g \in TracesOf(q, entry["traces"][q])
  BY DEF Gathered
<1>2. /\ g.trace \in Recorded(entry["traces"][q]) /\ Owner[g.trace] = q
      /\ InWindow(Start(g.trace), entry["traces"][q])
      /\ g.at = Start(g.trace)
      /\ g.spent = {o \in spend : o.trace = g.trace /\ o.at < entry["traces"][q]}
  BY <1>1 DEF TracesOf
<1>3. f \in 0 .. now /\ f \in Nat /\ q = p
  BY <1>1, <1>2, NoneAssumption DEF Known, ViewsInv, Cache
<1>4. g.trace \in Trace /\ \E o \in spend : o.trace = g.trace /\ o.at < f
  BY <1>2, <1>3 DEF Recorded
<1>5. Start(g.trace) \in 0 .. now
  BY <1>4, StartIsLeast
<1> QED BY <1>1, <1>2, <1>3, <1>4, <1>5

\* The observations of cached traces, and what they cost.
SpentOf(S) == UNION {g.spent : g \in S}

\* The cost of cached traces is the number of their observations.
LEMMA CostOfGathered ==
  ASSUME ViewsInv, NEW S \in SUBSET Gathered
  PROVE  /\ SpentOf(S) \subseteq spend /\ IsFiniteSet(SpentOf(S))
         /\ CostOf(S) = Cardinality(SpentOf(S)) /\ CostOf(S) \in Nat
<1>1. \A g \in S : g.spent \subseteq spend
  BY GatheredTrace
<1>2. SpentOf(S) \subseteq spend
  BY <1>1 DEF SpentOf
<1>3. IsFiniteSet(SpentOf(S))
  BY <1>2, FS_Subset DEF ViewsInv
<1>4. CostOf(S) = Cardinality(SpentOf(S))
  BY DEF CostOf, SpentOf
<1> QED BY <1>2, <1>3, <1>4, FS_CardinalityType

\* More traces cost no less.
LEMMA CostGrows ==
  ASSUME ViewsInv, NEW S \in SUBSET Gathered, NEW T \in SUBSET S
  PROVE  CostOf(T) <= CostOf(S)
<1>1. T \in SUBSET Gathered /\ SpentOf(T) \in SUBSET SpentOf(S)
  BY DEF SpentOf
<1> QED BY <1>1, CostOfGathered, FS_Subset

\* Some cached traces and the other ones cost as much as all.
LEMMA CostSplits ==
  ASSUME ViewsInv, NEW S \in SUBSET Gathered
  PROVE  CostOf(S) + CostOf(Gathered \ S) = CostOf(Gathered)
<1> DEFINE R == Gathered \ S
<1>1. R \in SUBSET Gathered /\ Gathered \in SUBSET Gathered
  OBVIOUS
<1>2. \A g \in Gathered : \A o \in g.spent : o.trace = g.trace
  BY GatheredTrace
<1>3. \A g, h \in Gathered : g.trace = h.trace => g = h
  <2> SUFFICES ASSUME NEW g \in Gathered, NEW h \in Gathered, g.trace = h.trace
               PROVE  g = h
    OBVIOUS
  <2>1. g.at = h.at /\ g.spent = h.spent
    <3> DEFINE f == entry["traces"][Owner[g.trace]]
    <3>1. g.at = Start(g.trace) /\ g.spent = {o \in spend : o.trace = g.trace /\ o.at < f}
      BY GatheredTrace
    <3>2. h.at = Start(h.trace) /\ h.spent = {o \in spend : o.trace = h.trace /\ o.at < f}
      BY GatheredTrace
    <3> HIDE DEF f
    <3>3. {o \in spend : o.trace = g.trace /\ o.at < f} = {o \in spend : o.trace = h.trace /\ o.at < f}
      OBVIOUS
    <3>4. Start(g.trace) = Start(h.trace)
      OBVIOUS
    <3> QED BY <3>1, <3>2, <3>3, <3>4, Zenon
  <2>2. \A x \in Gathered : x = [trace |-> x.trace, at |-> x.at, spent |-> x.spent]
    <3> SUFFICES ASSUME NEW x \in Gathered
                 PROVE  x = [trace |-> x.trace, at |-> x.at, spent |-> x.spent]
      OBVIOUS
    <3>1. PICK q \in Known("traces") : x \in TracesOf(q, entry["traces"][q])
      BY DEF Gathered
    <3> QED BY <3>1 DEF TracesOf
  <2>3. /\ g = [trace |-> g.trace, at |-> g.at, spent |-> g.spent]
        /\ h = [trace |-> h.trace, at |-> h.at, spent |-> h.spent]
    BY <2>2
  <2> QED BY <2>1, <2>3
<1>4. SpentOf(S) \cap SpentOf(R) = {}
  <2>1. \A g \in S, h \in R : g \in Gathered /\ h \in Gathered /\ g # h
    OBVIOUS
  <2>2. \A g \in S, h \in R : g.trace # h.trace
    BY <1>3, <2>1
  <2> QED BY <1>1, <1>2, <2>1, <2>2 DEF SpentOf
<1>5. SpentOf(S) \cup SpentOf(R) = SpentOf(Gathered)
  BY DEF SpentOf
<1>6. /\ IsFiniteSet(SpentOf(S)) /\ CostOf(S) = Cardinality(SpentOf(S))
      /\ IsFiniteSet(SpentOf(R)) /\ CostOf(R) = Cardinality(SpentOf(R))
      /\ CostOf(Gathered) = Cardinality(SpentOf(Gathered))
      /\ CostOf(S) \in Nat /\ CostOf(R) \in Nat
  BY <1>1, CostOfGathered
<1> HIDE DEF R
<1>7. Cardinality(SpentOf(S) \cup SpentOf(R))
        = Cardinality(SpentOf(S)) + Cardinality(SpentOf(R)) - Cardinality(SpentOf(S) \cap SpentOf(R))
  BY <1>6, FS_Union
<1>8. CostOf(S) + CostOf(R) = CostOf(Gathered)
  <2>1. Cardinality(SpentOf(S) \cap SpentOf(R)) = 0
    BY <1>4, FS_EmptySet
  <2>2. CostOf(Gathered) = Cardinality(SpentOf(S) \cup SpentOf(R))
    BY <1>5, <1>6, Zenon
  <2>3. CostOf(Gathered) = CostOf(S) + CostOf(R) - 0
    BY <1>6, <1>7, <2>1, <2>2, Zenon
  <2> QED BY <1>6, <2>3
<1> QED BY <1>8 DEF R

\* Rows that deal cached traces out add up to what the traces cost.
LEMMA RowsAddUp ==
  ASSUME ViewsInv, NEW D, IsFiniteSet(D), NEW part, NEW rows, DOMAIN rows = D,
         \A d \in D : part[d] \subseteq Gathered /\ rows[d] = CostOf(part[d]),
         \A j, k \in D : j # k => \A g \in part[j], h \in part[k] : g.trace # h.trace
  PROVE  Total(rows) = CostOf(Joined(part, D))
<1> DEFINE A == [d \in D |-> SpentOf(part[d])]
<1>1. \A d \in D : A[d] \subseteq spend /\ rows[d] = Cardinality(A[d])
  BY CostOfGathered
<1>2. \A g \in Gathered : \A o \in g.spent : o.trace = g.trace
  BY GatheredTrace
<1>3. \A j, k \in D : j # k => A[j] \cap A[k] = {}
  BY <1>2 DEF SpentOf
<1>4. Joined(A, D) = SpentOf(Joined(part, D))
  BY DEF Joined, SpentOf
<1>5. Joined(part, D) \in SUBSET Gathered
  BY DEF Joined
<1>6. CostOf(Joined(part, D)) = Cardinality(SpentOf(Joined(part, D)))
  BY <1>5, CostOfGathered
<1> HIDE DEF A
<1>7. IsFiniteSet(spend)
  BY DEF ViewsInv
<1>8. Total(rows) = Cardinality(Joined(A, D))
  BY <1>1, <1>3, <1>7, TotalOfSizes
<1> QED BY <1>4, <1>6, <1>8

\* There are finitely many labels, and every trace has one.
LEMMA LabelsAreFinite == IsFiniteSet(Labels) /\ \A t \in Trace : Label(t) \in Labels
<1> DEFINE D == DOMAIN Stage
           U == [s \in D |-> [unnamed |-> s]]
<1>1. IsFiniteSet(Range(Name)) /\ IsFiniteSet(Range(Stage))
  BY ImagesAreFinite, FiniteAssumption, TableAssumption DEF Range
<1>2. IsFiniteSet({[unnamed |-> s] : s \in D})
  <2>1. {[unnamed |-> s] : s \in D} = {U[s] : s \in D}
    OBVIOUS
  <2>2. DOMAIN U = D /\ IsFiniteSet(D)
    BY FiniteAssumption
  <2> HIDE DEF U, D
  <2> QED BY <2>1, <2>2, ImagesAreFinite
<1>3. IsFiniteSet((Range(Name) \cup Range(Stage)) \ {None})
  <2>1. IsFiniteSet(Range(Name) \cup Range(Stage))
    BY <1>1, FS_Union
  <2> QED BY <2>1, FS_Subset
<1>4. IsFiniteSet(Labels)
  BY <1>2, <1>3, FS_Union, FS_AddElement DEF Labels
<1>5. \A t \in Trace : Label(t) \in Labels
  BY TableAssumption DEF Label, Labels, Range
<1> QED BY <1>4, <1>5

\* The by-agent view adds up to all that is cached.
LEMMA AgentsAddUp == ViewsInv => Total(AggregateByName) = CostOf(Gathered)
<1> SUFFICES ASSUME ViewsInv PROVE Total(AggregateByName) = CostOf(Gathered)
  OBVIOUS
<1> DEFINE part == [l \in Labels |-> {g \in Gathered : Label(g.trace) = l}]
           rows == AggregateByName
<1>1. DOMAIN rows = Labels /\ \A l \in Labels : rows[l] = CostOf(part[l])
  BY DEF AggregateByName
<1>2. \A l \in Labels : part[l] \subseteq Gathered
  OBVIOUS
<1>3. \A j, k \in Labels : j # k => \A g \in part[j], h \in part[k] : g.trace # h.trace
  OBVIOUS
<1>4. Joined(part, Labels) = Gathered
  BY GatheredTrace, LabelsAreFinite DEF Joined
<1> HIDE DEF rows, part
<1>5. Total(rows) = CostOf(Joined(part, Labels))
  BY <1>1, <1>2, <1>3, LabelsAreFinite, RowsAddUp
<1> QED BY <1>4, <1>5 DEF rows

\* The by-session view of some traces adds up to those with a session.
LEMMA SessionsAddUp ==
  ASSUME ViewsInv, NEW S \in SUBSET Gathered
  PROVE  Total(AggregateBySession(S)) = CostOf({g \in S : Session[g.trace] # None})
<1> DEFINE rows == AggregateBySession(S)
           D == DOMAIN Stage
           part == [s \in D |-> {g \in S : Session[g.trace] = s}]
<1>1. DOMAIN rows = D /\ \A s \in D : rows[s] = CostOf(part[s])
  BY DEF AggregateBySession
<1>2. \A s \in D : part[s] \subseteq Gathered
  OBVIOUS
<1>3. \A j, k \in D : j # k => \A g \in part[j], h \in part[k] : g.trace # h.trace
  OBVIOUS
<1>4. Joined(part, D) = {g \in S : Session[g.trace] # None}
  BY GatheredTrace, TableAssumption, NoneAssumption DEF Joined
<1>5. IsFiniteSet(D)
  BY FiniteAssumption
<1> HIDE DEF rows, D, part
<1>6. Total(rows) = CostOf(Joined(part, D))
  BY <1>1, <1>2, <1>3, <1>5, RowsAddUp
<1> QED BY <1>4, <1>6 DEF rows

-----------------------------------------------------------------------------
\* The observations that backend b, or any, served.
ServedBy(S, b) == {o \in S : b \in {"all", BackendOf(o.model)}}

\* A query finds finitely many of the recorded observations.
LEMMA ObservedIsFinite ==
  ASSUME ViewsInv, NEW p, NEW f
  PROVE  Observed(p, f) \subseteq spend /\ IsFiniteSet(Observed(p, f))
<1>1. Observed(p, f) \in SUBSET spend
  BY DEF Observed
<1> QED BY <1>1, FS_Subset DEF ViewsInv

\* A summary counts each observation of its window once.
LEMMA SummaryIsSize ==
  ASSUME ViewsInv, NEW p, NEW b
  PROVE  SummaryCost(p, b) = Cardinality(ServedBy(Observed(p, entry["models"][p]), b))
<1> DEFINE O == Observed(p, entry["models"][p])
           A == [m \in Model |-> {o \in O : o.model = m /\ b \in {"all", BackendOf(m)}}]
           count == [m \in Model |-> Cardinality({o \in O : o.model = m})]
           rows == [m \in Model |-> IF b \in {"all", BackendOf(m)} THEN count[m] ELSE 0]
<1>1. SummaryCost(p, b) = Total(rows)
  BY DEF SummaryCost, ModelUsage
<1>2. ASSUME NEW m \in Model PROVE rows[m] = Cardinality(A[m])
  <2>1. CASE b \in {"all", BackendOf(m)}
    <3>1. A[m] = {o \in O : o.model = m}
      BY <2>1
    <3> QED BY <2>1, <3>1
  <2>2. CASE b \notin {"all", BackendOf(m)}
    <3>1. A[m] = {}
      BY <2>2
    <3> QED BY <2>2, <3>1, FS_EmptySet
  <2> QED BY <2>1, <2>2
<1>3. DOMAIN rows = Model
  OBVIOUS
<1>4. \A j, k \in Model : j # k => A[j] \cap A[k] = {}
  OBVIOUS
<1>5. IsFiniteSet(O) /\ O \subseteq spend
  BY ObservedIsFinite
<1>6. \A m \in Model : A[m] \subseteq O
  OBVIOUS
<1>7. Joined(A, Model) = ServedBy(O, b)
  BY <1>5 DEF Joined, ServedBy, ViewsInv, Observation
<1> HIDE DEF O, A, rows
<1>8. Total(rows) = Cardinality(Joined(A, Model))
  BY <1>2, <1>3, <1>4, <1>5, <1>6, FiniteAssumption, TotalOfSizes
<1> QED BY <1>1, <1>7, <1>8 DEF O

\* So does the backend trend, whatever the time buckets are.
LEMMA SeriesIsSize ==
  ASSUME ViewsInv, NEW p, NEW b
  PROVE  SeriesCost(p, b) = Cardinality(ServedBy(Observed(p, entry["backends"][p]), b))
<1> DEFINE O == Observed(p, entry["backends"][p])
           D == (0 .. MaxNow \div Granule) \X Backend
           A == [k \in D |-> {o \in O : /\ o.at \div Granule = k[1] /\ BackendOf(o.model) = k[2]
                                        /\ b \in {"all", k[2]}}]
           cost == BackendCost(p, entry["backends"][p])
           rows == [k \in D |-> IF b \in {"all", k[2]} THEN cost[k] ELSE 0]
<1>1. SeriesCost(p, b) = Total(rows)
  BY DEF SeriesCost, BackendCost
<1>2. ASSUME NEW k \in D PROVE rows[k] = Cardinality(A[k])
  <2>1. cost[k] = Cardinality({o \in O : o.at \div Granule = k[1] /\ BackendOf(o.model) = k[2]})
    BY DEF BackendCost
  <2> HIDE DEF cost
  <2>2. CASE b \in {"all", k[2]}
    <3>1. A[k] = {o \in O : o.at \div Granule = k[1] /\ BackendOf(o.model) = k[2]}
      BY <2>2
    <3> QED BY <2>1, <2>2, <3>1
  <2>3. CASE b \notin {"all", k[2]}
    <3>1. A[k] = {}
      BY <2>3
    <3> QED BY <2>3, <3>1, FS_EmptySet
  <2> QED BY <2>2, <2>3
<1>3. DOMAIN rows = D
  OBVIOUS
<1>4. \A j, k \in D : j # k => A[j] \cap A[k] = {}
  OBVIOUS
<1>5. IsFiniteSet(O) /\ O \subseteq spend
  BY ObservedIsFinite
<1>6. \A k \in D : A[k] \subseteq O
  OBVIOUS
<1>7. Joined(A, D) = ServedBy(O, b)
  <2>1. Joined(A, D) \subseteq ServedBy(O, b)
    BY DEF Joined, ServedBy
  <2>2. ASSUME NEW o \in ServedBy(O, b) PROVE o \in Joined(A, D)
    <3> DEFINE i == o.at \div Granule
               k == <<i, BackendOf(o.model)>>
    <3>1. o \in O /\ b \in {"all", BackendOf(o.model)} /\ o.at \in 0 .. MaxNow
      BY <1>5 DEF ServedBy, ViewsInv, Observation
    <3>2. i \in 0 .. MaxNow \div Granule
      BY <3>1, WindowAssumption, BoundAssumption
    <3>3. BackendOf(o.model) \in Backend
      BY DEF BackendOf, Backend
    <3>4. k \in D
      BY <3>2, <3>3
    <3>5. o \in A[k]
      BY <3>1, <3>4
    <3> QED BY <3>4, <3>5 DEF Joined
  <2> QED BY <2>1, <2>2
<1>8. IsFiniteSet(D)
  <2>1. MaxNow \div Granule \in Int
    BY WindowAssumption, BoundAssumption
  <2>2. IsFiniteSet(0 .. MaxNow \div Granule)
    BY <2>1, FS_Interval
  <2>3. IsFiniteSet({"openrouter"})
    BY FS_Singleton
  <2>4. {"openrouter"} \cup {"claude-sdk"} = Backend
    BY DEF Backend
  <2>5. IsFiniteSet(Backend)
    BY <2>3, <2>4, FS_AddElement
  <2> QED BY <2>2, <2>5, FS_Product
<1> HIDE DEF O, D, A, rows
<1>9. Total(rows) = Cardinality(Joined(A, D))
  BY <1>2, <1>3, <1>4, <1>5, <1>6, <1>8, TotalOfSizes
<1> QED BY <1>1, <1>7, <1>9 DEF O

\* How the sizes of two finite sets differ.
LEMMA SizesDiffer ==
  ASSUME NEW S, IsFiniteSet(S), NEW T, IsFiniteSet(T)
  PROVE  Cardinality(S) - Cardinality(T) = Cardinality(S \ T) - Cardinality(T \ S)
<1>1. /\ Cardinality(S \ T) = Cardinality(S) - Cardinality(S \cap T)
      /\ Cardinality(T \ S) = Cardinality(T) - Cardinality(T \cap S)
  BY FS_Difference
<1>2. S \cap T = T \cap S /\ IsFiniteSet(S \cap T)
  BY FS_Intersection
<1>3. Cardinality(S) \in Nat /\ Cardinality(T) \in Nat /\ Cardinality(S \cap T) \in Nat
  BY <1>2, FS_CardinalityType
<1> QED BY <1>1, <1>2, <1>3

\* Two totals differ by the observations that only one of the two queries found:
\* those recorded, and those gone out of the window, between them.
LEMMA AgesExplainDifferences == ViewsInv => TotalsDifferByAge
<1> SUFFICES ASSUME ViewsInv, NEW p \in Known("models") \cap Known("backends"),
                    NEW b \in Backend \cup {"all"},
                    NEW older, older = Observed(p, entry["models"][p]),
                    NEW newer, newer = Observed(p, entry["backends"][p])
             PROVE  SeriesCost(p, b) - SummaryCost(p, b) =
                      Cardinality(ServedBy(newer \ older, b))
                        - Cardinality(ServedBy(older \ newer, b))
  BY DEF TotalsDifferByAge, ServedBy
<1> DEFINE S == ServedBy(newer, b)
           T == ServedBy(older, b)
<1>1. IsFiniteSet(S) /\ IsFiniteSet(T)
  <2>1. IsFiniteSet(newer) /\ IsFiniteSet(older)
    BY ObservedIsFinite
  <2>2. S \in SUBSET newer /\ T \in SUBSET older
    BY DEF ServedBy
  <2> QED BY <2>1, <2>2, FS_Subset
<1>2. SeriesCost(p, b) = Cardinality(S) /\ SummaryCost(p, b) = Cardinality(T)
  BY SeriesIsSize, SummaryIsSize
<1>3. ServedBy(newer \ older, b) = S \ T /\ ServedBy(older \ newer, b) = T \ S
  BY DEF ServedBy
<1>4. Cardinality(S) - Cardinality(T) = Cardinality(S \ T) - Cardinality(T \ S)
  BY <1>1, SizesDiffer
<1> QED BY <1>2, <1>3, <1>4

\* The per-model rows of all projects add up to the summary's total: both count
\* every observation in the windows of the cached rows once.
LEMMA ModelsAddUp ==
  ViewsInv => Total(MergeModelCosts) = Total([p \in Known("models") |-> SummaryCost(p, "all")])
<1> SUFFICES ASSUME ViewsInv
             PROVE  Total(MergeModelCosts)
                      = Total([p \in Known("models") |-> SummaryCost(p, "all")])
  OBVIOUS
<1> DEFINE K == Known("models")
           O == [p \in K |-> Observed(p, entry["models"][p])]
           W == Joined(O, K)
           P(m) == [p \in K |-> {o \in O[p] : o.model = m}]
           M == [m \in Model |-> {o \in W : o.model = m}]
           perModel == MergeModelCosts
           perProject == [p \in K |-> SummaryCost(p, "all")]
<1>1. K \in SUBSET Project /\ IsFiniteSet(K)
  BY FiniteAssumption, FS_Subset DEF Known
<1>2. \A p \in K : O[p] \subseteq spend
  BY ObservedIsFinite
<1>3. W \subseteq spend /\ IsFiniteSet(spend)
  BY <1>2 DEF Joined, ViewsInv
<1>4. \A p, q \in K : p # q => O[p] \cap O[q] = {}
  BY DEF Observed
<1>5. Total(perProject) = Cardinality(W)
  <2>1. \A p \in K : ServedBy(O[p], "all") = O[p]
    BY DEF ServedBy
  <2>2. DOMAIN perProject = K /\ \A p \in K : perProject[p] = Cardinality(O[p])
    BY <2>1, SummaryIsSize
  <2> HIDE DEF perProject, O, K
  <2> QED BY <1>1, <1>2, <1>3, <1>4, <2>2, TotalOfSizes
<1>6. ASSUME NEW m \in Model PROVE perModel[m] = Cardinality(M[m])
  <2> DEFINE A == P(m)
             rows == [p \in K |-> ModelUsage(p, entry["models"][p])[m]]
  <2>1. perModel[m] = Total(rows)
    BY DEF MergeModelCosts
  <2>2. DOMAIN rows = K /\ \A p \in K : A[p] \subseteq spend /\ rows[p] = Cardinality(A[p])
    BY <1>2 DEF ModelUsage
  <2>3. \A p, q \in K : p # q => A[p] \cap A[q] = {}
    BY <1>4
  <2>4. Joined(A, K) = M[m]
    BY DEF Joined
  <2> HIDE DEF rows, A, K
  <2>5. Total(rows) = Cardinality(Joined(A, K))
    BY <1>1, <1>3, <2>2, <2>3, TotalOfSizes
  <2> QED BY <2>1, <2>4, <2>5
<1>7. Total(perModel) = Cardinality(W)
  <2>1. DOMAIN perModel = Model
    BY DEF MergeModelCosts
  <2>2. \A m \in Model : M[m] \subseteq spend
    BY <1>3
  <2>3. \A j, k \in Model : j # k => M[j] \cap M[k] = {}
    OBVIOUS
  <2>4. Joined(M, Model) = W
    BY <1>3 DEF Joined, ViewsInv, Observation
  <2> HIDE DEF perModel, M, W
  <2> QED BY <1>3, <1>6, <2>1, <2>2, <2>3, <2>4, FiniteAssumption, TotalOfSizes
<1> QED BY <1>5, <1>7

\* Each grouping of the cached rows keeps their cost.
LEMMA GroupsAreConserved == ViewsInv => GroupsConserve
<1>1. ViewsInv => Total(AggregateBySession(Gathered)) =
                    CostOf({g \in Gathered : Session[g.trace] # None})
  BY SessionsAddUp
<1> QED BY <1>1, AgentsAddUp, ModelsAddUp DEF GroupsConserve

-----------------------------------------------------------------------------
(* The trend.                                                              *)

\* Python's int(n / d) is a slot iff n falls in it, the first slot taking also
\* what is less than one slot before it.
LEMMA TruncateIs ==
  ASSUME NEW n \in Int, NEW d \in Nat \ {0}, NEW i \in Nat
  PROVE  /\ Truncate(n, d) \in Int
         /\ Truncate(n, d) = i <=> n < (i + 1) * d /\ IF i = 0 THEN - d < n ELSE i * d <= n
<1>1. \A m \in Nat : m \div d \in Nat /\ (m \div d) * d <= m /\ m < (m \div d + 1) * d
  OBVIOUS
<1>2. \A j, k \in Nat : j < k => (j + 1) * d <= k * d
  OBVIOUS
<1>3. \A m \in Nat, k \in Nat : m \div d = k <=> k * d <= m /\ m < (k + 1) * d
  <2> SUFFICES ASSUME NEW m \in Nat, NEW k \in Nat
               PROVE  m \div d = k <=> k * d <= m /\ m < (k + 1) * d
    OBVIOUS
  <2> DEFINE q == m \div d
  <2>1. q \in Nat /\ q * d <= m /\ m < (q + 1) * d
    BY <1>1
  <2>2. (q < k => (q + 1) * d <= k * d) /\ (k < q => (k + 1) * d <= q * d)
    BY <1>2, <2>1
  <2> HIDE DEF q
  <2>3. {k * d, (k + 1) * d, q * d, (q + 1) * d} \subseteq Int
    BY <2>1
  <2>4. q < k \/ k < q \/ q = k
    BY <2>1
  <2>5. q = k <=> k * d <= m /\ m < (k + 1) * d
    BY <2>1, <2>2, <2>3, <2>4
  <2> QED BY <2>5 DEF q
<1>4. CASE n >= 0
  <2>1. n \in Nat /\ Truncate(n, d) = n \div d
    BY <1>4 DEF Truncate
  <2>2. 0 * d = 0 /\ (0 + 1) * d = d
    OBVIOUS
  <2> QED BY <1>1, <1>3, <1>4, <2>1, <2>2
<1>5. CASE n < 0
  <2> DEFINE q == (- n) \div d
  <2>1. - n \in Nat /\ Truncate(n, d) = - q
    BY <1>5 DEF Truncate
  <2>2. q \in Nat /\ (q = 0 <=> - n < d)
    <3>1. 0 * d = 0 /\ (0 + 1) * d = d
      OBVIOUS
    <3>2. q = 0 <=> 0 * d <= - n /\ - n < (0 + 1) * d
      BY <1>3, <2>1
    <3> QED BY <1>1, <2>1, <3>1, <3>2
  <2>3. i * d \in Nat /\ (i + 1) * d \in Nat
    OBVIOUS
  <2> HIDE DEF q
  <2>4. Truncate(n, d) = i <=> i = 0 /\ q = 0
    BY <2>1, <2>2
  <2>5. CASE i = 0
    <3>1. (i + 1) * d = d
      BY <2>5
    <3> QED BY <1>5, <2>1, <2>2, <2>4, <2>5, <3>1
  <2>6. CASE i # 0
    BY <1>5, <2>1, <2>2, <2>3, <2>4, <2>6
  <2> QED BY <2>5, <2>6
<1> QED BY <1>4, <1>5

\* Python's int(n / d) is one of b slots iff n is less than b slots ahead and less
\* than one slot behind.
LEMMA TruncateRange ==
  ASSUME NEW n \in Int, NEW d \in Nat \ {0}, NEW b \in Nat \ {0}
  PROVE  Truncate(n, d) \in 0 .. b - 1 <=> - d < n /\ n < b * d
<1>1. \A i, j \in Nat : i <= j => i * d <= j * d
  OBVIOUS
<1>2. 0 * d = 0 /\ 1 * d = d /\ b * d \in Nat
  OBVIOUS
<1>3. ASSUME Truncate(n, d) \in 0 .. b - 1 PROVE - d < n /\ n < b * d
  <2>1. PICK i \in Nat : i = Truncate(n, d) /\ i + 1 <= b
    BY <1>3
  <2>2. n < (i + 1) * d /\ IF i = 0 THEN - d < n ELSE i * d <= n
    BY <2>1, TruncateIs
  <2>3. (i + 1) * d <= b * d /\ 0 <= i * d /\ {i * d, (i + 1) * d} \subseteq Nat
    BY <1>1, <1>2, <2>1
  <2> QED BY <1>2, <2>2, <2>3
<1>4. ASSUME - d < n, n < b * d PROVE Truncate(n, d) \in 0 .. b - 1
  <2>1. CASE n < 0
    <3>1. n < (0 + 1) * d
      BY <1>2, <2>1
    <3>2. Truncate(n, d) = 0
      BY <1>4, <3>1, TruncateIs
    <3> QED BY <3>2
  <2>2. CASE n >= 0
    <3> DEFINE q == n \div d
    <3>1. q \in Nat /\ q * d <= n /\ Truncate(n, d) = q
      BY <2>2 DEF Truncate
    <3> HIDE DEF q
    <3>2. q < b
      <4>1. b <= q => b * d <= q * d
        BY <1>1, <3>1
      <4>2. q * d \in Nat
        BY <3>1
      <4> QED BY <1>2, <1>4, <3>1, <4>1, <4>2
    <3> QED BY <3>1, <3>2
  <2> QED BY <2>1, <2>2
<1> QED BY <1>3, <1>4

\* Cached traces are in the slots they fall in.
LEMMA TrendSlotsAreRight == ViewsInv => TrendSlots
<1> SUFFICES ASSUME ViewsInv, NEW i \in 0 .. Buckets - 1
             PROVE  CostTrend[i] =
                      CostOf({g \in Timed :
                                LET x == (g.at - (now - Window)) * Buckets
                                IN  x < (i + 1) * Window
                                    /\ IF i = 0 THEN - Window < x ELSE i * Window <= x})
  BY DEF TrendSlots
<1>1. ASSUME NEW g \in Timed, NEW x, x = (g.at - (now - Window)) * Buckets
      PROVE  Index(g.at) = i <=>
               x < (i + 1) * Window /\ IF i = 0 THEN - Window < x ELSE i * Window <= x
  <2>1. g.at \in Int /\ now \in Int /\ Window \in Nat \ {0} /\ Buckets \in Nat \ {0} /\ i \in Nat
    BY GatheredTrace, WindowAssumption DEF ViewsInv, Timed
  <2>2. x \in Int
    BY <1>1, <2>1
  <2>3. Index(g.at) = Truncate(x, Window)
    BY <1>1 DEF Index
  <2> QED BY <2>1, <2>2, <2>3, TruncateIs
<1>2. CostTrend[i] = CostOf({g \in Timed : Index(g.at) = i})
  BY DEF CostTrend
<1> QED BY <1>1, <1>2

\* The cached traces that are in some slot.
Shown == {g \in Timed : Index(g.at) \in 0 .. Buckets - 1}

\* The trend adds up to the cost of the traces that are in some slot.
LEMMA TrendAddsUp == ViewsInv => Total(CostTrend) = CostOf(Shown)
<1> SUFFICES ASSUME ViewsInv PROVE Total(CostTrend) = CostOf(Shown)
  OBVIOUS
<1> DEFINE D == 0 .. Buckets - 1
           part == [i \in D |-> {g \in Timed : Index(g.at) = i}]
           rows == CostTrend
<1>1. DOMAIN rows = D /\ \A i \in D : rows[i] = CostOf(part[i])
  BY DEF CostTrend
<1>2. \A i \in D : part[i] \subseteq Gathered
  BY DEF Timed
<1>3. \A j, k \in D : j # k => \A g \in part[j], h \in part[k] : g.trace # h.trace
  BY GatheredTrace DEF Timed
<1>4. Joined(part, D) = Shown
  BY DEF Joined, Shown
<1>5. IsFiniteSet(D)
  BY FS_Interval, WindowAssumption
<1> HIDE DEF rows, part, D
<1>6. Total(rows) = CostOf(Joined(part, D))
  BY <1>1, <1>2, <1>3, <1>5, RowsAddUp
<1> QED BY <1>4, <1>6 DEF rows

\* The trend leaves out what is as recent as its own end, and what is more than
\* a slot's length older than its beginning.
IndexRanges ==
  now \in Int =>
    \A at \in Int : Index(at) \in 0 .. Buckets - 1
                     <=> at < now /\ - Window < (at - (now - Window)) * Buckets

\* The slots of the trend cover these instants.
LEMMA IndexRange == IndexRanges
<1> SUFFICES ASSUME NEW at \in Int, now \in Int
             PROVE  Index(at) \in 0 .. Buckets - 1
                      <=> at < now /\ - Window < (at - (now - Window)) * Buckets
  BY DEF IndexRanges
<1> DEFINE y == at - (now - Window)
           x == y * Buckets
<1>1. Window \in Nat \ {0} /\ Buckets \in Nat \ {0}
  BY WindowAssumption
<1>2. x \in Int /\ y \in Int
  BY <1>1
<1>3. y < Window <=> at < now
  BY <1>1
<1>4. \A m, n \in Int : m < n <=> m * Buckets < n * Buckets
  BY <1>1
<1>5. x < Buckets * Window <=> at < now
  <2>1. Buckets * Window = Window * Buckets
    BY <1>1
  <2> HIDE DEF y
  <2> QED BY <1>1, <1>2, <1>3, <1>4, <2>1
<1>6. Index(at) = Truncate(x, Window)
  BY DEF Index
<1> HIDE DEF x
<1>7. Truncate(x, Window) \in 0 .. Buckets - 1 <=> - Window < x /\ x < Buckets * Window
  BY <1>1, <1>2, TruncateRange
<1> QED BY <1>5, <1>6, <1>7 DEF x

\* Rows fetched just now with a usable timestamp all fall into a slot, so
\* the trend lacks nothing but the other ones.
LEMMA FreshTrendAddsUp == ViewsInv => FreshTrendIsTotal
<1> SUFFICES ASSUME ViewsInv, \A p \in Known("traces") : entry["traces"][p] = now
             PROVE  Total(CostTrend) + CostOf(Gathered \ Timed) = Total(AggregateByName)
  BY DEF FreshTrendIsTotal
<1>1. ASSUME NEW g \in Timed PROVE g \in Shown
  <2> DEFINE y == g.at - (now - Window)
  <2>1. g.at \in Int /\ now \in Int /\ InWindow(g.at, now)
    BY GatheredTrace DEF ViewsInv, Timed
  <2>2. Window \in Nat \ {0} /\ Buckets \in Nat \ {0}
    BY WindowAssumption
  <2>3. y \in Nat /\ g.at < now
    BY <2>1, <2>2 DEF InWindow
  <2>4. y * Buckets \in Nat
    BY <2>2, <2>3
  <2>5. - Window < y * Buckets
    BY <2>2, <2>4
  <2> QED BY <2>1, <2>3, <2>5, IndexRange DEF Shown, IndexRanges
<1>2. Shown = Timed /\ Timed \in SUBSET Gathered
  BY <1>1 DEF Shown, Timed
<1> QED BY <1>2, TrendAddsUp, AgentsAddUp, CostSplits

\* The first instant of each trace, once more, for two states at once.
StartsAreLeast ==
  \A t : (\E o \in spend : o.trace = t) =>
    /\ \E x \in spend : x.trace = t /\ x.at = Start(t)
    /\ \A x \in spend : x.trace = t => Start(t) <= x.at
    /\ Start(t) \in 0 .. now

\* A trace begins with the first of its observations.
LEMMA StartsLeast == ViewsInv => StartsAreLeast
BY StartIsLeast DEF StartsAreLeast

\* What is cached for traces is the same after a step that fetches none: what
\* is spent now is younger than every entry.
LEMMA GatheredStays ==
  ASSUME ViewsInv, ViewsInv', [Next]_vars, entry'["traces"] = entry["traces"]
  PROVE  Gathered' = Gathered
<1>1. \/ spend' = spend
      \/ \E t \in Trace, m \in Model :
           spend' = spend \cup {[trace |-> t, model |-> m, at |-> now]}
  BY DEF Next, Tick, Spend, Fetch, NextPage, PageAgain, vars
<1>2. \A o \in spend' : o \in spend \/ o.at = now
  BY <1>1
<1>3. spend \subseteq spend'
  BY <1>1
<1>4. StartsAreLeast /\ StartsAreLeast'
  BY StartsLeast, PTL
<1>5. \A t : (\E o \in spend : o.trace = t) => Start(t)' = Start(t)
  <2> SUFFICES ASSUME NEW t, NEW o \in spend, o.trace = t PROVE Start(t)' = Start(t)
    OBVIOUS
  <2>1. /\ Start(t) \in 0 .. now /\ \A x \in spend : x.trace = t => Start(t) <= x.at
        /\ \E x \in spend : x.trace = t /\ x.at = Start(t)
    BY <1>4 DEF StartsAreLeast
  <2>2. o \in spend'
    BY <1>3
  <2>3. /\ Start(t)' \in Int /\ \A x \in spend' : x.trace = t => Start(t)' <= x.at
        /\ \E x \in spend' : x.trace = t /\ x.at = Start(t)'
    BY <1>4, <2>2 DEF StartsAreLeast, ViewsInv
  <2>4. Start(t)' <= Start(t)
    BY <1>3, <2>1, <2>3
  <2>5. Start(t) <= Start(t)'
    BY <1>2, <2>1, <2>3
  <2> QED BY <2>1, <2>3, <2>4, <2>5
<1>6. Known("traces")' = Known("traces")
  BY DEF Known
<1>7. ASSUME NEW p \in Known("traces"), NEW f, f = entry["traces"][p]
      PROVE  TracesOf(p, f)' = TracesOf(p, f)
  <2>1. f \in Nat /\ now \in Nat /\ f <= now
    BY <1>7, NoneAssumption DEF ViewsInv, Known, Cache
  <2>2. \A t : {o \in spend' : o.trace = t /\ o.at < f} = {o \in spend : o.trace = t /\ o.at < f}
    BY <1>2, <1>3, <2>1
  <2>3. Recorded(f)' = Recorded(f)
    BY <2>2 DEF Recorded
  <2>4. \A t \in Recorded(f) : Start(t)' = Start(t)
    BY <1>5 DEF Recorded
  <2> QED BY <2>2, <2>3, <2>4 DEF TracesOf
<1> QED BY <1>6, <1>7 DEF Gathered

\* Every step that fetches nothing leaves what is in the trend, or loses some.
LEMMA TrendLoses ==
  ASSUME ViewsInv, ViewsInv', [Next]_vars, entry' = entry
  PROVE  Total(CostTrend)' <= Total(CostTrend)
<1>1. Timed' = Timed /\ Timed \subseteq Gathered
  BY GatheredStays DEF Timed
<1>2. now \in Nat /\ now' \in Nat /\ now <= now'
  <2>1. now \in Nat /\ now' \in Nat
    BY DEF ViewsInv
  <2>2. now' = now \/ now' = now + 1
    BY DEF Next, Tick, Spend, Fetch, NextPage, PageAgain, vars
  <2> QED BY <2>1, <2>2
<1>3. Window \in Nat \ {0} /\ Buckets \in Nat \ {0}
  BY WindowAssumption
<1>4. ASSUME NEW g \in Shown' PROVE g \in Shown
  <2> DEFINE y == g.at - (now - Window)
             z == g.at - (now' - Window)
  <2>1. g \in Timed /\ g.at \in Int /\ g.at < now
    <3>1. g \in Gathered /\ g \in Timed
      BY <1>1 DEF Shown
    <3> QED BY <3>1, GatheredTrace DEF ViewsInv, InWindow
  <2>2. - Window < z * Buckets
    <3>1. Index(g.at)' \in 0 .. Buckets - 1
      BY DEF Shown
    <3>2. IndexRanges'
      BY IndexRange, PTL
    <3> QED BY <1>2, <2>1, <3>1, <3>2 DEF IndexRanges
  <2>3. z * Buckets <= y * Buckets
    BY <1>2, <1>3, <2>1
  <2>4. y * Buckets \in Int /\ z * Buckets \in Int
    BY <1>2, <1>3, <2>1
  <2>5. - Window < y * Buckets
    BY <1>3, <2>2, <2>3, <2>4
  <2> QED BY <1>2, <2>1, <2>5, IndexRange DEF Shown, IndexRanges
<1>5. CostOf(Shown') <= CostOf(Shown)
  <2>1. Shown \in SUBSET Gathered /\ Shown' \in SUBSET Shown
    BY <1>1, <1>4 DEF Shown
  <2> QED BY <2>1, CostGrows
<1>6. Total(CostTrend) = CostOf(Shown)
  BY TrendAddsUp
<1>7. (Total(CostTrend) = CostOf(Shown))'
  BY TrendAddsUp, PTL
<1>8. CostOf(Shown)' = CostOf(Shown')
  BY DEF CostOf
<1> QED BY <1>5, <1>6, <1>7, <1>8

-----------------------------------------------------------------------------
(* The highlights.                                                         *)

\* A set of naturals with a bound has a greatest element.
LEMMA GreatestNumber ==
  ASSUME NEW S \in SUBSET Nat, S # {}, NEW b \in Nat, \A n \in S : n <= b
  PROVE  Max(S) \in S /\ \A n \in S : Max(S) >= n
<1> DEFINE N == {b - n : n \in S}
<1>1. N \in SUBSET Nat /\ N # {}
  <2>1. \A n \in S : n \in Nat /\ b - n \in Nat
    OBVIOUS
  <2> QED BY <2>1
<1>2. PICK m \in N : \A n \in N : m <= n
  BY <1>1, LeastNumber
<1>3. PICK x \in S : m = b - x
  BY <1>2
<1>4. \A n \in S : x >= n
  BY <1>2, <1>3
<1> QED BY <1>3, <1>4 DEF Max

\* The backend filter finds every named trace that used the backend, as long as
\* the agent rows are of the age of the trace rows.
LEMMA FilterFinds ==
  ASSUME ViewsInv, NEW b \in Backend, NEW g \in Gathered,
         NEW p, p = Owner[g.trace], NEW f, f = entry["traces"][p],
         entry["agents"][p] = f, Name[g.trace] # None,
         NEW o \in Observed(p, f), o.trace = g.trace, BackendOf(o.model) = b
  PROVE  g \in Candidates(b)
<1> DEFINE n == Name[g.trace]
           A == {x \in Observed(p, f) : Name[x.trace] = n /\ BackendOf(x.model) = b}
<1>1. g.trace \in Trace /\ p \in Known("traces") /\ f \in Nat
  BY GatheredTrace
<1>2. p \in Known("agents")
  BY <1>1 DEF Known
<1>3. n \in Range(Name) \ {None}
  BY <1>1, TableAssumption DEF Range
<1>4. A \in SUBSET Observed(p, f) /\ A # {}
  OBVIOUS
<1>5. IsFiniteSet(A)
  BY <1>4, ObservedIsFinite, FS_Subset
<1>6. AgentCost(p, n, b) = Cardinality(A)
  BY <1>3 DEF AgentCost, AgentUsage
<1>7. AgentCost(p, n, b) > 0
  BY <1>4, <1>5, <1>6, PositiveSize
<1>8. n \in BackendNames(b)
  BY <1>2, <1>3, <1>7 DEF BackendNames
<1> QED BY <1>8 DEF Candidates

\* The most expensive session costs what each of its traces costs, at least.
LEMMA SessionBeatsTrace ==
  ASSUME ViewsInv, NEW b, NEW g \in Candidates(b), Session[g.trace] # None
  PROVE  MostExpensiveSession(b) >= CostOf({g})
<1> DEFINE C == Candidates(b)
           rows == AggregateBySession(C)
           S == {0} \cup Range(rows)
           s == Session[g.trace]
<1>1. C \in SUBSET Gathered
  BY DEF Candidates
<1>2. \A d \in DOMAIN rows : rows[d] \in Nat /\ rows[d] <= CostOf(C)
  <2>1. \A d \in DOMAIN rows : rows[d] = CostOf({h \in C : Session[h.trace] = d})
    BY DEF AggregateBySession
  <2>2. \A d : {h \in C : Session[h.trace] = d} \in SUBSET C
    OBVIOUS
  <2> HIDE DEF rows, C
  <2> QED BY <1>1, <2>1, <2>2, CostGrows, CostOfGathered
<1>3. CostOf(C) \in Nat
  BY <1>1, CostOfGathered
<1>4. S \in SUBSET Nat /\ S # {} /\ \A n \in S : n <= CostOf(C)
  BY <1>2, <1>3 DEF Range
<1>5. s \in DOMAIN rows /\ rows[s] = CostOf({h \in C : Session[h.trace] = s})
  BY <1>1, GatheredTrace, TableAssumption DEF AggregateBySession
<1>6. rows[s] \in S
  BY <1>5 DEF Range
<1>7. MostExpensiveSession(b) = Max(S)
  BY DEF MostExpensiveSession
<1>8. {h \in C : Session[h.trace] = s} \in SUBSET Gathered
  BY <1>1
<1>9. {g} \in SUBSET {h \in C : Session[h.trace] = s}
  OBVIOUS
<1>10. CostOf({g}) <= rows[s] /\ CostOf({g}) \in Nat
  BY <1>1, <1>5, <1>8, <1>9, CostGrows, CostOfGathered
<1> HIDE DEF S, C, s, rows
<1>11. Max(S) \in S /\ Max(S) >= rows[s]
  BY <1>3, <1>4, <1>6, GreatestNumber
<1>12. Max(S) \in Nat /\ rows[s] \in Nat
  BY <1>4, <1>6, <1>11
<1>13. Max(S) >= CostOf({g})
  BY <1>10, <1>11, <1>12
<1> QED BY <1>7, <1>13

\* Entries of one age name the same traces, so the filter by names misses none.
LEMMA HighlightsDoAgree == ViewsInv => HighlightsAgree
<1> SUFFICES ASSUME ViewsInv PROVE HighlightsAgree
  OBVIOUS
<1>1. \A b \in Backend, g \in Gathered :
        /\ entry["agents"][Owner[g.trace]] = entry["traces"][Owner[g.trace]]
        /\ Name[g.trace] # None
        /\ \E o \in Observed(Owner[g.trace], entry["traces"][Owner[g.trace]]) :
             o.trace = g.trace /\ BackendOf(o.model) = b
        => g \in Candidates(b)
  BY FilterFinds
<1>2. \A b : \A g \in MostExpensiveTrace(b) :
        Session[g.trace] # None => MostExpensiveSession(b) >= CostOf({g})
  BY SessionBeatsTrace DEF MostExpensiveTrace
<1> QED BY <1>1, <1>2 DEF HighlightsAgree

-----------------------------------------------------------------------------
(* The pages of a view.                                                    *)

\* r lists T, each member once, by decreasing cost.
Lists(r, T, cost) ==
  r \in SetToSeqs(T) /\ \A i, j \in DOMAIN r : i < j => cost[r[i]] >= cost[r[j]]

\* Finitely many names can be listed so.
LEMMA ListingExists ==
  ASSUME NEW S, IsFiniteSet(S), NEW cost, \A x \in S : cost[x] \in Nat
  PROVE  \E r : Lists(r, S, cost)
<1> DEFINE N == {n \in Nat : \E T \in SUBSET S : Cardinality(T) = n /\ ~ \E r : Lists(r, T, cost)}
<1>1. \A T \in SUBSET S : IsFiniteSet(T) /\ Cardinality(T) \in Nat
  BY FS_Subset, FS_CardinalityType
<1>2. SUFFICES ASSUME ~ \E r : Lists(r, S, cost) PROVE FALSE
  OBVIOUS
<1>3. N # {}
  BY <1>1, <1>2
<1>4. PICK n \in N : \A m \in N : n <= m
  BY <1>3, LeastNumber
<1>5. PICK T \in SUBSET S : Cardinality(T) = n /\ ~ \E r : Lists(r, T, cost)
  BY <1>4
<1>6. CASE T = {}
  <2> DEFINE r == [i \in 1 .. n |-> i]
  <2>1. n = 0
    BY <1>5, <1>6, FS_EmptySet
  <2>2. Lists(r, T, cost)
    BY <1>5, <1>6, <2>1 DEF Lists, SetToSeqs
  <2> QED BY <1>5, <2>2
<1>7. CASE T # {}
  <2> DEFINE C == {cost[x] : x \in T}
  <2>1. C \in SUBSET Nat /\ C # {}
    BY <1>5, <1>7
  <2>2. PICK c \in C : \A d \in C : c <= d
    BY <2>1, LeastNumber
  <2>3. PICK m \in T : \A x \in T : cost[m] <= cost[x]
    BY <2>2
  <2> DEFINE R == T \ {m}
  <2>4. R \in SUBSET S /\ Cardinality(R) = n - 1 /\ n - 1 \in Nat
    <3>1. R \in SUBSET S /\ IsFiniteSet(T)
      BY <1>1
    <3>2. Cardinality(R) = Cardinality(T) - 1
      BY <3>1, FS_RemoveElement
    <3>3. Cardinality(R) \in Nat
      BY <1>1, <3>1
    <3> QED BY <1>5, <3>1, <3>2, <3>3
  <2>5. n - 1 \notin N
    BY <1>4, <2>4
  <2>6. PICK q : Lists(q, R, cost)
    BY <2>4, <2>5
  <2> DEFINE r == [i \in 1 .. n |-> IF i = n THEN m ELSE q[i]]
  <2>7. /\ q \in [1 .. n - 1 -> R] /\ \A i, j \in 1 .. n - 1 : i # j => q[i] # q[j]
        /\ \A i, j \in 1 .. n - 1 : i < j => cost[q[i]] >= cost[q[j]]
    BY <2>4, <2>6 DEF Lists, SetToSeqs
  <2>8. \A i \in 1 .. n : i = n \/ i \in 1 .. n - 1
    BY <2>4
  <2>9. r \in [1 .. n -> T]
    BY <2>3, <2>7, <2>8
  <2>10. \A i, j \in 1 .. n : i # j => r[i] # r[j]
    BY <2>3, <2>7, <2>8
  <2>11. \A i, j \in 1 .. n : i < j => cost[r[i]] >= cost[r[j]]
    <3>1. ASSUME NEW i \in 1 .. n, NEW j \in 1 .. n, i < j
          PROVE  cost[r[i]] >= cost[r[j]]
      <4>1. i \in 1 .. n - 1
        BY <2>4, <3>1
      <4>2. CASE j = n
        <5>1. r[j] = m /\ r[i] \in T /\ cost[m] \in Nat /\ cost[r[i]] \in Nat
          BY <1>5, <2>3, <2>9, <4>2
        <5> QED BY <2>3, <5>1
      <4>3. CASE j # n
        BY <2>7, <2>8, <3>1, <4>1, <4>3
      <4> QED BY <4>2, <4>3
    <3> QED BY <3>1
  <2>12. Lists(r, T, cost)
    BY <1>5, <2>9, <2>10, <2>11 DEF Lists, SetToSeqs
  <2> QED BY <1>5, <2>12
<1> QED BY <1>6, <1>7

\* A view lists every label with cost once, the dearest first.
LEMMA RowsListTheView ==
  ViewsInv => LET S == {l \in Labels : AggregateByName[l] > 0}
              IN  /\ Lists(Rows, S, AggregateByName)
                  /\ Rows \in Seq(S) /\ Range(Rows) = S
<1> SUFFICES ASSUME ViewsInv, NEW S, S = {l \in Labels : AggregateByName[l] > 0}
             PROVE  /\ Lists(Rows, S, AggregateByName)
                    /\ Rows \in Seq(S) /\ Range(Rows) = S
  OBVIOUS
<1>1. IsFiniteSet(S)
  <2>1. S \in SUBSET Labels
    OBVIOUS
  <2> QED BY <2>1, LabelsAreFinite, FS_Subset
<1>2. \A l \in S : AggregateByName[l] \in Nat
  <2>1. \A l \in Labels : AggregateByName[l] = CostOf({g \in Gathered : Label(g.trace) = l})
    BY DEF AggregateByName
  <2>2. \A l : {g \in Gathered : Label(g.trace) = l} \in SUBSET Gathered
    OBVIOUS
  <2> QED BY <2>1, <2>2, CostOfGathered
<1>3. \E r : Lists(r, S, AggregateByName)
  BY <1>1, <1>2, ListingExists
<1>4. Lists(Rows, S, AggregateByName)
  BY <1>3 DEF Rows, Lists
<1> DEFINE n == Cardinality(S)
<1>5. n \in Nat
  BY <1>1, FS_CardinalityType
<1>6. Rows \in [1 .. n -> S] /\ \A i, j \in 1 .. n : i # j => Rows[i] # Rows[j]
  BY <1>4 DEF Lists, SetToSeqs
<1>7. Rows \in Seq(S)
  BY <1>5, <1>6
<1>8. Rows \in Surjection(1 .. n, S)
  <2>1. Rows \in Injection(1 .. n, S)
    BY <1>6 DEF Injection, IsInjective
  <2>2. Cardinality(1 .. n) = n
    BY <1>5, FS_Interval
  <2> QED BY <1>1, <2>1, <2>2, FS_Injection
<1>9. Range(Rows) = S
  BY <1>6, <1>8 DEF Surjection, Range
<1> QED BY <1>4, <1>7, <1>9

\* Turning to the next page continues the listing.
LEMMA PagesJoin ==
  ASSUME NEW S, NEW s \in Seq(S), NEW k \in Nat, NEW m \in Nat, k <= m, m <= Len(s)
  PROVE  SubSeq(s, 1, k) \o SubSeq(s, k + 1, m) = SubSeq(s, 1, m)
  OBVIOUS

\* The pager of a client, and what it has gathered of a view that stayed.
PagerTyped ==
  /\ pager = [offset |-> pager.offset, rows |-> pager.rows,
              steady |-> pager.steady, more |-> pager.more]
  /\ pager.offset \in Nat /\ pager.steady \in BOOLEAN /\ pager.more \in BOOLEAN

PagerGathers ==
  /\ pager.offset = 0 => pager.rows = <<>>
  /\ pager.steady /\ pager.more /\ pager.offset > 0 =>
       pager.offset < Len(Rows) /\ pager.rows = SubSeq(Rows, 1, pager.offset)

PagerInv == PagerTyped /\ PagerGathers

\* A view stays the same until its traces are fetched again.
LEMMA RowsStay ==
  ASSUME ViewsInv, ViewsInv', [Next]_vars, entry'["traces"] = entry["traces"]
  PROVE  Rows' = Rows
<1>1. Gathered' = Gathered
  BY GatheredStays
<1> QED BY <1>1 DEF Rows, AggregateByName

\* What one more page does.
LEMMA PageIsNext ==
  ASSUME ViewsInv, ViewsInv', PagerInv, NextPage
  PROVE  /\ PagerInv' /\ Rows' = Rows
         /\ ~ pager'.more /\ pager.steady => pager'.rows = Rows
<1> DEFINE n == Len(Rows)
           k == pager.offset
           e == Min({k + Limit, n})
           page == Page(Rows, k)
<1>1. /\ pager' = [offset |-> k + Limit, rows |-> pager.rows \o page.items,
                   steady |-> pager.steady, more |-> page.has_more]
      /\ pager.more
      /\ UNCHANGED <<now, spend, entry>>
  BY DEF NextPage, PagerInv, PagerTyped
<1>2. PICK S : Rows \in Seq(S) /\ n \in Nat
  BY RowsListTheView
<1>3. k \in Nat /\ Limit \in Nat \ {0}
  BY WindowAssumption DEF PagerInv, PagerTyped
<1>4. e = IF k + Limit < n THEN k + Limit ELSE n
  BY <1>2, <1>3 DEF Min
<1>5. page.items = SubSeq(Rows, k + 1, e) /\ page.has_more = (k + Limit < n)
  BY DEF Page
<1>6. Rows' = Rows
  BY <1>1, RowsStay DEF Next
<1>7. ASSUME pager.steady PROVE pager.rows \o page.items = SubSeq(Rows, 1, e)
  <2> HIDE DEF page, n, e
  <2>1. CASE k = 0
    <3>1. pager.rows = <<>>
      BY <2>1 DEF PagerInv, PagerGathers
    <3>2. page.items = SubSeq(Rows, 1, e)
      BY <1>5, <2>1
    <3>3. page.items \in Seq(S)
      BY <1>2, <1>3, <1>4, <2>1, <3>2 DEF n
    <3> QED BY <3>1, <3>2, <3>3
  <2>2. CASE k # 0
    <3>1. k < n /\ pager.rows = SubSeq(Rows, 1, k)
      BY <1>1, <1>3, <1>7, <2>2 DEF PagerInv, PagerGathers, n
    <3>2. e \in Nat /\ k <= e /\ e <= Len(Rows)
      BY <1>2, <1>3, <1>4, <3>1 DEF n
    <3>3. SubSeq(Rows, 1, k) \o SubSeq(Rows, k + 1, e) = SubSeq(Rows, 1, e)
      BY <1>2, <1>3, <3>2, PagesJoin
    <3> QED BY <1>5, <3>1, <3>3
  <2> QED BY <2>1, <2>2
<1> HIDE DEF page, n, e
<1>8. PagerTyped'
  BY <1>1, <1>3, <1>5 DEF PagerTyped, PagerInv
<1>9. PagerGathers'
  <2>1. pager'.offset = k + Limit /\ k + Limit > 0
    BY <1>1, <1>3
  <2>2. ASSUME pager.steady, pager'.more
        PROVE  pager'.offset < Len(Rows) /\ pager'.rows = SubSeq(Rows, 1, pager'.offset)
    <3>1. k + Limit < n
      BY <1>1, <1>5, <2>2
    <3>2. e = k + Limit
      BY <1>4, <3>1
    <3>3. pager'.rows = SubSeq(Rows, 1, e)
      BY <1>1, <1>7, <2>2
    <3> QED BY <2>1, <3>1, <3>2, <3>3 DEF n
  <2>3. pager'.steady = pager.steady
    BY <1>1
  <2> QED BY <1>3, <1>6, <2>1, <2>2, <2>3 DEF PagerGathers
<1>10. ASSUME ~ pager'.more, pager.steady PROVE pager'.rows = Rows
  <2>1. e = n
    BY <1>1, <1>4, <1>5, <1>10
  <2>2. SubSeq(Rows, 1, n) = Rows
    BY <1>2 DEF n
  <2> QED BY <1>1, <1>7, <1>10, <2>1, <2>2
<1> QED BY <1>6, <1>8, <1>9, <1>10 DEF PagerInv

\* No page has been turned at the start.
LEMMA PagerInvInit == Init => PagerInv
BY DEF Init, FirstPage, PagerInv, PagerTyped, PagerGathers

\* Turning a page adds the next rows; a fetch of traces makes the walk void, all
\* else leaves the rows as they were.
LEMMA PagerInvNext == ViewsInv /\ ViewsInv' /\ PagerInv /\ [Next]_vars => PagerInv'
<1> SUFFICES ASSUME ViewsInv, ViewsInv', PagerInv, [Next]_vars PROVE PagerInv'
  OBVIOUS
<1>1. CASE Tick \/ (\E t \in Trace, m \in Model : Spend(t, m)) \/ UNCHANGED vars
  <2>1. pager' = pager /\ entry' = entry
    BY <1>1 DEF Tick, Spend, vars
  <2>2. Rows' = Rows
    BY <2>1, RowsStay
  <2> QED BY <2>1, <2>2 DEF PagerInv, PagerTyped, PagerGathers
<1>2. ASSUME NEW c \in Cache, NEW p \in Project, Fetch(c, p) PROVE PagerInv'
  <2>1. /\ pager' = [pager EXCEPT !.steady = pager.steady /\ (c # "traces" \/ pager.offset = 0)]
        /\ entry' = [entry EXCEPT ![c][p] = now]
    BY <1>2 DEF Fetch
  <2>2. pager' = [offset |-> pager.offset, rows |-> pager.rows,
                  steady |-> pager.steady /\ (c # "traces" \/ pager.offset = 0),
                  more |-> pager.more]
    BY <2>1 DEF PagerInv, PagerTyped
  <2>3. PagerTyped'
    BY <2>2 DEF PagerInv, PagerTyped
  <2>4. PagerGathers'
    <3>1. CASE c = "traces"
      <4>1. CASE pager.offset = 0
        BY <2>2, <4>1 DEF PagerInv, PagerGathers
      <4>2. CASE pager.offset # 0
        <5>1. ~ pager'.steady /\ pager'.offset # 0
          BY <2>2, <3>1, <4>2
        <5> QED BY <5>1 DEF PagerGathers
      <4> QED BY <4>1, <4>2
    <3>2. CASE c # "traces"
      <4>1. entry'["traces"] = entry["traces"]
        BY <2>1, <3>2 DEF ViewsInv
      <4>2. Rows' = Rows
        BY <4>1, RowsStay
      <4> QED BY <2>2, <3>2, <4>2 DEF PagerInv, PagerGathers
    <3> QED BY <3>1, <3>2
  <2> QED BY <2>3, <2>4 DEF PagerInv
<1>3. CASE NextPage
  BY <1>3, PageIsNext DEF PagerInv
<1>4. CASE PageAgain
  BY <1>4 DEF PageAgain, FirstPage, PagerInv, PagerTyped, PagerGathers
<1> QED BY <1>1, <1>2, <1>3, <1>4 DEF Next

\* What a client has of a view is right in every behaviour.
LEMMA PagerInvariant == Spec => []PagerInv
<1>1. ViewsInv /\ PagerInv /\ [Next]_vars => ViewsInv' /\ PagerInv'
  BY ViewsNext, PagerInvNext
<1> QED BY <1>1, ViewsInit, PagerInvInit, PTL DEF Spec

-----------------------------------------------------------------------------
(* Theorems about the views.                                               *)

\* Every row of a view counts what is cached once: by agent nothing is left
\* out, by session only what has no session, and the per-model rows add up to
\* the summary's total (aggregations.py:120-181).
THEOREM ViewsAddUp == Spec => []GroupsConserve
BY ViewsInvariant, GroupsAreConserved, PTL

\* The per-backend totals and the headline total differ by the age of their
\* entries only (service.py:261-264), whatever the time buckets are.
THEOREM AgeExplainsTotals == Spec => []TotalsDifferByAge
BY ViewsInvariant, AgesExplainDifferences, PTL

\* The trend's slots are equal, but for the first one, which takes one slot's
\* length of older traces too (aggregations.py:194-217).
THEOREM FirstSlotIsDouble == Spec => []TrendSlots
BY ViewsInvariant, TrendSlotsAreRight, PTL

\* Right after its fetches the trend lacks nothing of the by-agent total but the
\* traces without a usable timestamp (aggregations.py:184-217).
THEOREM FreshTrendSums == Spec => []FreshTrendIsTotal
BY ViewsInvariant, FreshTrendAddsUp, PTL

\* The highlights of a backend leave no trace out that used it, entries of one
\* age provided, and a session costs what its traces cost (service.py:410-431).
THEOREM HighlightsAreComplete == Spec => []HighlightsAgree
BY ViewsInvariant, HighlightsDoAgree, PTL

\* Between fetches the trend never gains (aggregations.py:194-217).
THEOREM StaleTrendLoses == Spec => TrendOnlyLoses
<1>1. ViewsInv /\ ViewsInv' /\ [Next]_vars
        => [entry' = entry => Total(CostTrend)' <= Total(CostTrend)]_vars
  BY TrendLoses
<1> QED BY <1>1, ViewsInvariant, PTL DEF Spec, TrendOnlyLoses

\* Turning pages until has_more is false shows every row once, in order, if the
\* view was not fetched again meanwhile (routes.py:258-267).
THEOREM PagesShowEveryRow == Spec => PagesAreComplete
<1>1. ViewsInv /\ ViewsInv' /\ PagerInv /\ [Next]_vars
        => [NextPage /\ ~ pager'.more /\ pager.steady => pager'.rows = Rows]_vars
  <2> SUFFICES ASSUME ViewsInv, ViewsInv', PagerInv, NextPage, ~ pager'.more, pager.steady
               PROVE  pager'.rows = Rows
    OBVIOUS
  <2> QED BY PageIsNext
<1> QED BY <1>1, ViewsInvariant, PagerInvariant, PTL DEF Spec, PagesAreComplete

=============================================================================
