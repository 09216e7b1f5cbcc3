------------------------------ MODULE Reconcile ------------------------------
(***************************************************************************)
(* OpenRouter <-> Langfuse reconciliation (reconcile.py).                  *)
(*                                                                         *)
(* A run is one call of reconcile_all, or one handler of                   *)
(* GET /api/reconcile?project=<slug>, that walks over projects with        *)
(* reconcile_project.  Runs of the server (the scheduled loop, requests)   *)
(* interleave at awaits; a run of the command line (cli.py) is another     *)
(* process on the same data directory and interleaves at every file        *)
(* access.                                                                 *)
(*                                                                         *)
(* Time is a counter of instants and every unit of spend falls into an     *)
(* instant of its own, so a reading taken at instant c covers the spend of *)
(* the instants before c.  One unit of spend exceeds the tolerance.        *)
(***************************************************************************)
EXTENDS Integers, FiniteSets

CONSTANTS
  Project,   \* the registry's projects
  Keyed,     \* those with an openrouter_key
  Runner,    \* names for the runs under way at once
  Cli,       \* those of them that are processes of the command line
  MaxClock,  \* bound on time
  None       \* absent

ASSUME ProjectAssumption == Keyed \subseteq Project /\ Cli \subseteq Runner
ASSUME ClockAssumption == MaxClock \in Nat
ASSUME NoneAssumption == None \notin Project /\ None \notin [cum : Nat, at : Nat, read : Nat]

VARIABLES
  clock,      \* the present instant
  traced,     \* traced[p]: instants of spend of p that Langfuse traces
  untraced,   \* untraced[p]: instants of spend of p that it does not
  snapshot,   \* the file <slug>.json of each project, None when missing
  last,       \* last.json: its status, and the projects it has results of
  run         \* the runs under way

vars == <<clock, traced, untraced, snapshot, last, run>>
files == <<snapshot, last>>
world == <<clock, traced, untraced>>

-----------------------------------------------------------------------------
Instant == 0 .. MaxClock

\* `read` is the instant the usage was read; the file holds the other two.
Snapshot == [cum : 0 .. MaxClock, at : Instant, read : Instant]

\* "warned": drift beyond the tolerance, or a low balance.
Outcome == {"error", "first", "within", "warned"}
Status == {"unknown", "ok", "warning", "pending"}

\* The awaits of a run: between projects ("next"), in fetch_key_usage, in
\* _fetch_credits, between load and save (command line), in the Langfuse query.
Idle == [pc |-> "idle", scope |-> {}, todo |-> {}, saves |-> FALSE,
         outcomes |-> {}, project |-> None, at |-> 0, cum |-> 0, read |-> 0,
         prior |-> None]

Spend(p) == traced[p] \cup untraced[p]

\* The units of S that fall into the instants from a up to, not including, b.
Within(S, a, b) == Cardinality({i \in S : a <= i /\ i < b})

Later(a, b) == IF a > b THEN a ELSE b
Abs(n) == IF n < 0 THEN - n ELSE n

Init ==
  /\ clock = 0
  /\ traced = [p \in Project |-> {}]
  /\ untraced = [p \in Project |-> {}]
  /\ snapshot = [p \in Project |-> None]
  /\ last = [status |-> "unknown", scope |-> {}]
  /\ run = [r \in Runner |-> Idle]

-----------------------------------------------------------------------------
(* Starting a run and walking over its projects.                           *)

\* reconcile_all takes every project the registry has just then, none at all
\* before it first answers, and saves last.json; the per-project request takes
\* those of one project or component and does not.
Begin(r) ==
  /\ run[r].pc = "idle"
  /\ \E S \in SUBSET Project, saves \in BOOLEAN :
       run' = [run EXCEPT ![r] = [Idle EXCEPT !.pc = "next", !.scope = S,
                                              !.todo = S, !.saves = saves]]
  /\ UNCHANGED <<world, files>>

\* The beginning of reconcile_project(p): the time of the run is taken first.
Enter(r, p) ==
  /\ run[r].pc = "next"
  /\ p \in run[r].todo
  /\ run' = [run EXCEPT ![r].todo = @ \ {p},
                        ![r].project = p,
                        ![r].at = clock,
                        ![r].pc = IF p \in Keyed THEN "usage" ELSE "next"]
  /\ UNCHANGED <<world, files>>

\* What a run that saves last.json remembers of the status records.
Noted(r, outcomes) ==
  IF run[r].saves THEN run[r].outcomes \cup outcomes ELSE {}

\* reconcile_project(p) returns its status record to the walk.
Return(r, outcomes) ==
  run' = [run EXCEPT ![r] =
            [Idle EXCEPT !.pc = "next", !.scope = run[r].scope,
                         !.todo = run[r].todo, !.saves = run[r].saves,
                         !.outcomes = Noted(r, outcomes)]]

UsageRead(r) ==
  /\ run[r].pc = "usage"
  /\ run' = [run EXCEPT ![r].pc = "credits",
                        ![r].cum = Within(Spend(run[r].project), 0, clock),
                        ![r].read = clock]
  /\ UNCHANGED <<world, files>>

\* Mutant: a failed read goes on without a value.
UsageFailsOpen(r) ==
  /\ run[r].pc = "usage"
  /\ run' = [run EXCEPT ![r].pc = "credits", ![r].cum = None, ![r].read = clock]
  /\ UNCHANGED <<world, files>>

UsageFails(r) ==
  /\ run[r].pc = "usage"
  /\ Return(r, {"error"})
  /\ UNCHANGED <<world, files>>

-----------------------------------------------------------------------------
(* The snapshot: load the prior one, save this one, then compare.          *)

\* _fetch_credits: its failure is ignored, a low balance is noted.
Balance == {{}, {"warned"}}

\* What the run writes to the file.
Taken(r) == [cum |-> run[r].cum, at |-> run[r].at, read |-> run[r].read]

\* _save_snapshot, after which a first snapshot ends the project's part.
Save(r, prior, balance) ==
  LET p == run[r].project
  IN  /\ snapshot' = [snapshot EXCEPT ![p] = Taken(r)]
      /\ IF prior = None
         THEN Return(r, {"first"} \cup balance)
         ELSE run' = [run EXCEPT ![r].pc = "langfuse", ![r].prior = prior,
                                 ![r].outcomes = Noted(r, balance)]
      /\ UNCHANGED <<world, last>>

\* _load_snapshot answers None for a file it cannot read or parse, too: such a
\* run counts as the first one and overwrites the file.
Loaded(p) == {snapshot[p], None}

\* The balance has arrived: the server goes through _load_snapshot and
\* _save_snapshot without an await between.
LoadAndSave(r) ==
  /\ r \notin Cli
  /\ run[r].pc = "credits"
  /\ \E balance \in Balance, prior \in Loaded(run[r].project) :
       Save(r, prior, balance)

CliLoad(r) ==
  /\ r \in Cli
  /\ run[r].pc = "credits"
  /\ \E balance \in Balance, prior \in Loaded(run[r].project) :
       run' = [run EXCEPT ![r].pc = "save", ![r].prior = prior,
                          ![r].outcomes = Noted(r, balance)]
  /\ UNCHANGED <<world, files>>

CliSave(r) ==
  /\ run[r].pc = "save"
  /\ Save(r, run[r].prior, {})

\* A file cannot be written, or after the save the prior snapshot does not hold
\* a time or the Langfuse client cannot be made: the exception ends the whole
\* run, and what was saved before stays.
Raises(r) ==
  /\ \/ run[r].pc \in {"credits", "save", "langfuse"}
     \/ run[r].pc = "next" /\ run[r].todo = {} /\ run[r].saves
  /\ run' = [run EXCEPT ![r] = Idle]
  /\ UNCHANGED <<world, files>>

-----------------------------------------------------------------------------
(* The comparison with Langfuse.                                           *)

\* Mutant: whole units of time, one at least.
IntervalAtLeastOne(r) == Later(1, run[r].at - run[r].prior.at)

\* _hours_between(prior_at, now)
Interval(r) == Later(0, run[r].at - run[r].prior.at)

\* fetch_cost_by_backend(interval_h): the last interval_h hours, counted back
\* from the instant of the query.
TracedCost(r) ==
  Within(traced[run[r].project], clock - Interval(r), clock)

Delta(r) == run[r].cum - run[r].prior.cum
Drift(r) == Delta(r) - TracedCost(r)

Compare(r) ==
  /\ run[r].pc = "langfuse"
  /\ Return(r, IF Drift(r) = 0 THEN {"within"} ELSE {"warned"})
  /\ UNCHANGED <<world, files>>

LangfuseFails(r) ==
  /\ run[r].pc = "langfuse"
  /\ Return(r, {"error"})
  /\ UNCHANGED <<world, files>>

-----------------------------------------------------------------------------
(* The end of a run.                                                       *)

\* Mutant: failed projects do not count.
ReconcileStatusLenient(outcomes) ==
  IF "warned" \in outcomes THEN "warning"
  ELSE IF "first" \in outcomes /\ "within" \notin outcomes THEN "pending"
  ELSE "ok"

\* reconcile_status: unconfigured projects do not count.
ReconcileStatus(outcomes) ==
  IF outcomes \cap {"error", "warned"} # {} THEN "warning"
  ELSE IF "first" \in outcomes /\ "within" \notin outcomes THEN "pending"
  ELSE "ok"

Finish(r) ==
  /\ run[r].pc = "next"
  /\ run[r].todo = {}
  /\ last' = IF run[r].saves
             THEN [status |-> ReconcileStatus(run[r].outcomes), scope |-> run[r].scope]
             ELSE last
  /\ run' = [run EXCEPT ![r] = Idle]
  /\ UNCHANGED <<world, snapshot>>

\* A process stops or dies, the server or a command: its runs are gone, the
\* files stay.
Crash ==
  /\ \E gone \in {Runner \ Cli} \cup {{c} : c \in Cli} :
       run' = [r \in Runner |-> IF r \in gone THEN Idle ELSE run[r]]
  /\ UNCHANGED <<world, files>>

-----------------------------------------------------------------------------
(* Time passes, with or without spend.                                     *)

Tick ==
  /\ clock < MaxClock
  /\ clock' = clock + 1
  /\ \/ UNCHANGED <<traced, untraced>>
     \/ \E p \in Keyed :
          \/ /\ traced' = [traced EXCEPT ![p] = @ \cup {clock}]
             /\ UNCHANGED untraced
          \/ /\ untraced' = [untraced EXCEPT ![p] = @ \cup {clock}]
             /\ UNCHANGED traced
  /\ UNCHANGED <<run, files>>

Next ==
  \/ \E r \in Runner :
       \/ Begin(r)
       \/ \E p \in Project : Enter(r, p)
       \/ UsageRead(r) \/ UsageFails(r)
       \/ LoadAndSave(r) \/ CliLoad(r) \/ CliSave(r) \/ Raises(r)
       \/ Compare(r) \/ LangfuseFails(r) \/ Finish(r)
  \/ Crash
  \/ Tick

Spec == Init /\ [][Next]_vars

-----------------------------------------------------------------------------
(* Properties.                                                             *)

Pc == {"idle", "next", "usage", "credits", "save", "langfuse"}

TypeOK ==
  /\ clock \in Instant
  /\ traced \in [Project -> SUBSET Instant]
  /\ untraced \in [Project -> SUBSET Instant]
  /\ snapshot \in [Project -> Snapshot \cup {None}]
  /\ last \in [status : Status, scope : SUBSET Project]
  /\ run \in [Runner -> [pc : Pc, scope : SUBSET Project,
                         todo : SUBSET Project, saves : BOOLEAN,
                         outcomes : SUBSET Outcome,
                         project : Project \cup {None}, at : Instant,
                         cum : 0 .. MaxClock, read : Instant,
                         prior : Snapshot \cup {None}]]

\* Runs that compare as soon as Langfuse answers.
Comparing == {r \in Runner : run[r].pc = "langfuse"}

\* Units of S between two readings, negative when b comes before a.
Between(S, a, b) == Within(S, a, b) - Within(S, b, a)

\* Drift is what reconciliation exists to find: spend that Langfuse did not
\* trace.  Whenever Langfuse answers, what a run reports beyond that is traced
\* spend at the ends of the interval, where its two sides are taken at different
\* instants: after the start of the prior run, for as long as either run took,
\* and during this one.
DriftIsUntraced ==
  \A r \in Comparing :
    LET now == run[r]
        p == now.project
        firstEnd == Later(now.prior.read, now.prior.at + (clock - now.at))
        slack == Within(traced[p], now.prior.at, firstEnd) + Within(traced[p], now.at, clock)
    IN  Abs(Drift(r) - Between(untraced[p], now.prior.read, now.read)) <= slack

\* The banner says "ok" only if every project with a key among those last.json
\* has results of was read and has a snapshot to be compared with
\* (reconcile.py:230-244), also when runs of other project lists overlap it, fail,
\* die while writing files, or cannot read the prior snapshot.
OkHasBaseline ==
  last.status = "ok" => \A p \in Keyed \cap last.scope : snapshot[p] # None

\* "Running it twice back-to-back with no intervening spend must produce
\* provider_delta_usd = 0 and within_tolerance: true" (ARCHITECTURE.md:137-139):
\* a run that began after the prior run's reading, with no spend since, finds no
\* drift.  It does find one: the traced side starts at the prior run's start
\* (reconcile.py:206, 217-220), before the reading that the provider side starts at.
BackToBackAgrees ==
  \A r \in Comparing :
    LET prior == run[r].prior
    IN  /\ prior.read <= run[r].at
        /\ \A i \in Spend(run[r].project) : i < prior.read
        => Drift(r) = 0

=============================================================================
