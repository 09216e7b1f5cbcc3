------------------------------- MODULE Rollup -------------------------------
(***************************************************************************)
(* Components and their projects: how the registry's fleet is grouped, how *)
(* a selector is resolved, how /api/summary adds costs up (service.py),    *)
(* and the dashboard's scope selector, which is filled once per page load  *)
(* while the fleet behind it changes (dashboard.js).                       *)
(***************************************************************************)
EXTENDS Integers, FiniteSetsExt, Sums

CONSTANTS
  Slug,       \* project slugs
  Component,  \* component ids; the two sorts of names may overlap
  Backends,   \* serving backends
  All,        \* the selector "all"
  PageLimit   \* default limit of /api/components, 100 in the code

ASSUME FiniteNames == IsFiniteSet(Slug) /\ IsFiniteSet(Backends)
ASSUME PageAssumption == PageLimit \in Nat

VARIABLES
  fleet,    \* _project_map: the component of each project
  usage,    \* usage[s]: backends that served one unit of cost of project s
  options   \* the values of the page's scope selector, as of its load

rollupVars == <<fleet, usage, options>>

-----------------------------------------------------------------------------
Unknown == "unknown"    \* component_id is ""
Absent == "absent"      \* not in the map

ASSUME NamesApart ==
  /\ All \notin Slug \cup Component \cup Backends
  /\ {Unknown, Absent} \cap (Slug \cup Component) = {}

Fleet == [Slug -> Component \cup {Unknown, Absent}]
Present == {s \in Slug : fleet[s] # Absent}

\* p.component_id or p.slug
OwnerOf(s) == IF fleet[s] = Unknown THEN s ELSE fleet[s]

\* components(): the projects of each component; also the rollup of summary().
Owned(c) == {s \in Present : OwnerOf(s) = c}
Components == {OwnerOf(s) : s \in Present}

\* Mutant: component ids only.
ResolveComponent(o) == IF o = All THEN Present ELSE {s \in Present : fleet[s] = o}

\* _projects(slug); the empty set stands for ProjectNotFoundError.
Resolve(o) ==
  IF o = All THEN Present
  ELSE IF o \in Present THEN {o}
  ELSE {s \in Present : fleet[s] = o}

\* Cost of the projects S, of one backend or of all.
Cost(S, backend) ==
  Cardinality({x \in S \X Backends : x[2] \in usage[x[1]] /\ backend \in {All, x[2]}})

\* Mutant: projects of unknown component have no card.
CardsOfKnown(o, backend) ==
  LET S == {s \in Resolve(o) : fleet[s] # Unknown}
  IN  [c \in {OwnerOf(s) : s \in S} |-> Cost({s \in S : OwnerOf(s) = c}, backend)]

\* summary(o, backend): the cost of each component's card; under a backend
\* filter the components without cost are left out.
Cards(o, backend) ==
  LET Card(c) == Cost({s \in Resolve(o) : OwnerOf(s) = c}, backend)
  IN  [c \in {d \in {OwnerOf(s) : s \in Resolve(o)} : backend = All \/ Card(d) > 0}
         |-> Card(c)]

\* What /api/components can answer without a limit given: the first components in
\* the registry's order, which the fleet leaves open, or all of them.
Pages ==
  {page \in SUBSET Components :
     Cardinality(page) = PageLimit \/ (page = Components /\ Cardinality(page) < PageLimit)}

\* Mutant: a component with a single project is not offered.
OptionsOfGroups(page) ==
  {All} \cup UNION {{c} \cup Owned(c) : c \in {d \in page : Cardinality(Owned(d)) > 1}}

\* loadProjects, which asks for one page: a component that owns several projects
\* is followed by them.
Options(page) ==
  {All} \cup page
        \cup UNION {Owned(c) : c \in {d \in page : Cardinality(Owned(d)) > 1}}

-----------------------------------------------------------------------------
RollupInit ==
  /\ fleet = [s \in Slug |-> Absent]
  /\ usage = [s \in Slug |-> {}]
  /\ options = {All}

\* refresh_projects with a registry that answers; an empty answer is ignored.
RefreshProjects ==
  /\ \E f \in Fleet :
       /\ \E s \in Slug : f[s] # Absent
       /\ fleet' = f
  /\ UNCHANGED <<usage, options>>

LoadPage ==
  /\ \E page \in Pages : options' = Options(page)
  /\ UNCHANGED <<fleet, usage>>

\* The window slides: spend enters and leaves it.
UsageChanges ==
  /\ \E s \in Slug, B \in SUBSET Backends : usage' = [usage EXCEPT ![s] = B]
  /\ UNCHANGED <<fleet, options>>

RollupNext == RefreshProjects \/ LoadPage \/ UsageChanges

RollupSpec == RollupInit /\ [][RollupNext]_rollupVars

-----------------------------------------------------------------------------
(* Properties.                                                             *)

\* The cards of a summary add up to its headline total, for every selection
\* and backend, also with projects whose component is unknown or bears the name
\* of another project (service.py:300-318): no cost is dropped or shown twice.
RollupConserves ==
  \A o \in options, b \in {All} \cup Backends : Total(Cards(o, b)) = Cost(Resolve(o), b)

\* A component id that is also the slug of a project.
Collides(c) == c \in Present /\ Owned(c) # {c}

\* Outside such collisions the option of a component covers exactly the
\* projects of its card, whether it was offered for several projects or one.
SelectionMatchesCard == \A c \in Components : Collides(c) \/ Resolve(c) = Owned(c)

\* Every option of a selector that is up to date leads to projects, and every
\* project of a component on the page it was filled from is within an option other
\* than "all", unless a collision hides it: no project appears in vain, and one is
\* out of reach only with its whole component.
SelectorCovers ==
  \A page \in Pages :
    options = Options(page) /\ Present # {} =>
      /\ \A o \in options : Resolve(o) # {}
      /\ \A s \in Present :
           OwnerOf(s) \in page =>
             Collides(OwnerOf(s)) \/ \E o \in options \ {All} : s \in Resolve(o)

\* "Drives the dashboard's selector ... a newly onboarded component with a Langfuse
\* config appears" (routes.py:292-294, dashboard.js:100-101): a selector that was just
\* filled offers every component.  Does not hold of the code: loadProjects takes
\* one page of components, of 100 by default, and never asks for the next.
SelectorOffersAll ==
  (\E page \in Pages : options = Options(page)) => Components \subseteq options

\* dashboard.js:96-100, 115: the option "<component> (all)" stands for the
\* component, with its projects beneath it.  Does not hold of the code: with a
\* project that bears its component's name, as models.py:72-74 has it, the
\* option resolves to that project alone.
AllMeansAll ==
  \A c \in Components :
    c \in options /\ Cardinality(Owned(c)) > 1 => Resolve(c) = Owned(c)

=============================================================================
