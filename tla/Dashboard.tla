------------------------------ MODULE Dashboard ------------------------------
(***************************************************************************)
(* One loaded page of the dashboard (web/static/dashboard.js): the user    *)
(* changes the selectors and presses the buttons while refreshes and       *)
(* reconciliations are still waiting for the server, whose answers come in *)
(* any order or fail.                                                      *)
(*                                                                         *)
(* The five requests of a refresh are one wait (Promise.all), and what     *)
(* follows it runs without an await.                                       *)
(***************************************************************************)
EXTENDS Naturals, Sequences, SequencesExt

CONSTANTS
  Scope,    \* pairs of a project and a window that the user can select
  First,    \* the one selected when the page is loaded
  Backend,  \* serving backends
  All,      \* the option "all backends"
  Click,    \* names of the manual reconciliations under way at once
  MaxOpen,  \* bound on the refreshes under way at once
  None      \* absent

ASSUME ScopeAssumption == First \in Scope
ASSUME BackendAssumption == All \notin Backend /\ None \notin Backend \cup {All}
ASSUME BoundAssumption == MaxOpen \in Nat \ {0}

VARIABLES
  scope, backend,  \* the selectors' values
  backends,        \* the backends offered besides All
  open,            \* the refreshes under way, in the order they were started
  shown,           \* what the panels show
  last,            \* history: how the refresh that ended last went
  status,          \* the status line
  boot,            \* where the page's start-up is
  manual,          \* manual[c]: where the reconciliation of click c is
  table            \* whose rows the reconciliation table shows

vars == <<scope, backend, backends, open, shown, last, status, boot, manual, table>>
selectors == <<scope, backend, backends>>
panels == <<open, shown, last>>

-----------------------------------------------------------------------------
\* `late`, history: a refresh that was started after this one ended before it.
Refresh == [scope : Scope, backend : {All} \cup Backend \cup {None}, boot : BOOLEAN,
            late : BOOLEAN]

\* What the data in the panels was asked for.
Shown == [scope : Scope, backend : {All} \cup Backend \cup {None}]

Manual == {"off", "run", "meta"}

TypeOK ==
  /\ scope \in Scope
  /\ backend \in {All} \cup Backend
  /\ backends \subseteq Backend
  /\ open \in Seq(Refresh)
  /\ shown \in Shown \cup {None}
  /\ last \in {"none", "shown", "shown late", "failed"}
  /\ status \in {"", "loading", "updated", "error", "reconciling", "reconciled",
                 "reconcile error"}
  /\ boot \in {"projects", "refresh", "last", "done", "failed"}
  /\ manual \in [Click -> Manual]
  /\ table \in {"empty", "persisted", "manual"}

Init ==
  /\ scope = First /\ backend = All /\ backends = {}
  /\ open = <<>> /\ shown = None /\ last = "none"
  /\ status = ""
  /\ boot = "projects"
  /\ manual = [c \in Click |-> "off"]
  /\ table = "empty"

-----------------------------------------------------------------------------
(* refresh                                                                 *)

\* The beginning of refresh(), up to its await, with the selectors' values.
Start(s, b, booting) ==
  /\ Len(open) < MaxOpen
  /\ open' = Append(open, [scope |-> s, backend |-> b, boot |-> booting, late |-> FALSE])
  /\ status' = "loading"
  /\ UNCHANGED <<shown, last>>

\* Mutant: a selector without a change handler.
SelectScopeOnly ==
  /\ \E s \in Scope \ {scope} : scope' = s
  /\ UNCHANGED <<backend, backends, panels, status, boot, manual, table>>

\* The selectors' change handlers, and the button.
SelectScope ==
  /\ \E s \in Scope \ {scope} : scope' = s /\ Start(s, backend, FALSE)
  /\ UNCHANGED <<backend, backends, boot, manual, table>>

SelectBackend ==
  /\ \E b \in ({All} \cup backends) \ {backend} : backend' = b /\ Start(scope, b, FALSE)
  /\ UNCHANGED <<scope, backends, boot, manual, table>>

PressRefresh ==
  /\ Start(scope, backend, FALSE)
  /\ UNCHANGED <<selectors, boot, manual, table>>

\* Mutant: only the backends that the new rows name are offered.
PopulateBackendsOnly(B) ==
  /\ backends' = B
  /\ backend' = IF backend \in {All} \cup backends' THEN backend ELSE None
  /\ UNCHANGED scope

\* populateBackends, with the backends B of the model rows.  An option list
\* without the selected value would leave the selector empty.
PopulateBackends(B) ==
  /\ backends' = B \cup ({backend} \ {All})
  /\ backend' = IF backend \in {All} \cup backends' THEN backend ELSE None
  /\ UNCHANGED scope

\* Refresh i ends: those started before it are late from now on, and the
\* start-up that waits for it goes on.
Ended(i) ==
  /\ open' = RemoveAt([j \in DOMAIN open |->
                         IF j < i THEN [open[j] EXCEPT !.late = TRUE] ELSE open[j]], i)
  /\ boot' = IF open[i].boot THEN "last" ELSE boot

\* The renderers of the five panels, with what the call asked for.
Render(f) == [scope |-> f.scope, backend |-> f.backend]

RefreshDone(i) ==
  /\ i \in DOMAIN open
  /\ Ended(i)
  /\ \E B \in SUBSET Backend : PopulateBackends(B)
  /\ shown' = Render(open[i])
  /\ last' = IF open[i].late THEN "shown late" ELSE "shown"
  /\ status' = "updated"
  /\ UNCHANGED <<manual, table>>

\* Mutant: the failure leaves the status line alone.
RefreshFailsSilently(i) ==
  /\ i \in DOMAIN open
  /\ Ended(i)
  /\ last' = "failed"
  /\ UNCHANGED <<selectors, shown, status, manual, table>>

\* One of the five requests fails: nothing is rendered.
RefreshFails(i) ==
  /\ i \in DOMAIN open
  /\ Ended(i)
  /\ last' = "failed"
  /\ status' = "error"
  /\ UNCHANGED <<selectors, shown, manual, table>>

-----------------------------------------------------------------------------
(* runReconcile                                                            *)

PressReconcile(c) ==
  /\ manual[c] = "off"
  /\ manual' = [manual EXCEPT ![c] = "run"]
  /\ status' = "reconciling"
  /\ UNCHANGED <<selectors, panels, boot, table>>

\* renderReconcile, then refreshReconMeta asks for the banner's data.
RowsArrive(c) ==
  /\ manual[c] = "run"
  /\ manual' = [manual EXCEPT ![c] = "meta"]
  /\ table' = "manual"
  /\ UNCHANGED <<selectors, panels, status, boot>>

ReconcileFails(c) ==
  /\ manual[c] = "run"
  /\ manual' = [manual EXCEPT ![c] = "off"]
  /\ status' = "reconcile error"
  /\ UNCHANGED <<selectors, panels, boot, table>>

\* refreshReconMeta ends, with the banner's data or without.
MetaEnds(c) ==
  /\ manual[c] = "meta"
  /\ manual' = [manual EXCEPT ![c] = "off"]
  /\ status' = "reconciled"
  /\ UNCHANGED <<selectors, panels, boot, table>>

-----------------------------------------------------------------------------
(* The page's start-up: loadProjects, refresh, loadLastReconcile.          *)

ProjectsLoaded ==
  /\ boot = "projects"
  /\ boot' = "refresh"
  /\ Start(scope, backend, TRUE)
  /\ UNCHANGED <<selectors, manual, table>>

\* Nothing catches the failure: the start-up ends here.
ProjectsFail ==
  /\ boot = "projects"
  /\ boot' = "failed"
  /\ UNCHANGED <<selectors, panels, status, manual, table>>

\* loadLastReconcile: there are rows to show, or none, or no answer.
LastLoaded ==
  /\ boot = "last"
  /\ boot' = "done"
  /\ table' \in {table, "persisted"}
  /\ UNCHANGED <<selectors, panels, status, manual>>

Next ==
  \/ SelectScope \/ SelectBackend \/ PressRefresh
  \/ \E i \in 1 .. MaxOpen : RefreshDone(i) \/ RefreshFails(i)
  \/ \E c \in Click :
       PressReconcile(c) \/ RowsArrive(c) \/ ReconcileFails(c) \/ MetaEnds(c)
  \/ ProjectsLoaded \/ ProjectsFail \/ LastLoaded

Spec == Init /\ [][Next]_vars

-----------------------------------------------------------------------------
(* Properties.                                                             *)

\* On a page that waits for nothing the panels show what is selected, unless
\* the refresh that ended last failed or had been overtaken: selections made
\* while refreshes are under way are not lost, and filling the backend selector
\* does not change the selection behind the user's back (dashboard.js:137-147).
ShowsSelection ==
  open = <<>> /\ last = "shown" => shown.scope = scope /\ shown.backend = backend

\* The status line announces work only while some is under way, however
\* refreshes and reconciliations overlap, end and fail.
StatusIsTruthful ==
  /\ status = "loading" => open # <<>>
  /\ status = "reconciling" => \E c \in Click : manual[c] # "off"

=============================================================================
