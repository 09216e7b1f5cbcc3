--------------------------- MODULE ReconcileProofs ---------------------------
(***************************************************************************)
(* Proofs about Reconcile, for any number of projects, runs, processes and *)
(* instants: "ok" in last.json means that every project with a key in its  *)
(* results has a snapshot, and the drift a run reports is untraced spend.  *)
(*                                                                         *)
(* OkHasBaseline is not inductive: it needs to know, of every run that     *)
(* will save last.json, that a project with a key on its list is still to  *)
(* come, or has failed, or has its snapshot (Covered).                     *)
(*                                                                         *)
(* DriftIsUntraced needs to know what the readings mean (Readings): every  *)
(* cumulative usage in a file or in a run is the spend before the instant  *)
(* it was read at, and stays so because time only adds later spend.        *)
(***************************************************************************)
EXTENDS Reconcile, FiniteSetTheorems, TLAPS

\* The form of a run, as in TypeOK.
RunRecord ==
  [pc : Pc, scope : SUBSET Project, todo : SUBSET Project, saves : BOOLEAN,
   outcomes : SUBSET Outcome, project : Project \cup {None}, at : Instant, cum : 0 .. MaxClock,
   read : Instant, prior : Snapshot \cup {None}]

\* The awaits inside reconcile_project, and those before its snapshot is saved.
InProject == {"usage", "credits", "save", "langfuse"}
BeforeSave == {"usage", "credits", "save"}

\* A run inside reconcile_project has a project.
AtProject ==
  \A r \in Runner : run[r].pc \in InProject => run[r].project \in Project

\* Run r has still to take the snapshot of p.
Due(r, p) ==
  \/ p \in run[r].todo
  \/ run[r].pc \in BeforeSave /\ run[r].project = p

\* A run that will save last.json has left no project with a key on its list without a
\* snapshot and without an outcome that forbids "ok".
Covered ==
  \A r \in Runner : run[r].pc # "idle" /\ run[r].saves =>
    \A p \in Keyed \cap run[r].scope :
      Due(r, p) \/ run[r].outcomes \cap {"error", "warned"} # {} \/ snapshot[p] # None

IInv == TypeOK /\ AtProject /\ Covered /\ OkHasBaseline

\* The number of units of spend before an instant is within the bound.
LEMMA WithinBound ==
  ASSUME NEW S \in SUBSET Instant, NEW b \in Instant
  PROVE  Within(S, 0, b) \in 0 .. MaxClock
<1> DEFINE T == {i \in S : 0 <= i /\ i < b}
<1>1. b \in Nat /\ b <= MaxClock /\ MaxClock \in Nat
  BY ClockAssumption DEF Instant
<1>2. T \in SUBSET (0 .. b - 1)
  <2>1. \A i \in S : i \in Nat
    BY <1>1 DEF Instant
  <2>2. \A i \in T : i \in 0 .. b - 1
    BY <1>1, <2>1
  <2> QED BY <2>2
<1>3. IsFiniteSet(0 .. b - 1) /\ Cardinality(0 .. b - 1) = b
  BY <1>1, FS_Interval
<1> HIDE DEF T
<1>4. IsFiniteSet(T) /\ Cardinality(T) <= b
  BY <1>2, <1>3, FS_Subset
<1>5. Cardinality(T) \in Nat
  BY <1>4, FS_CardinalityType
<1> QED BY <1>1, <1>4, <1>5 DEF Within, T

\* A run that is over is a run.
LEMMA IdleType == Idle \in RunRecord
BY ClockAssumption DEF Idle, RunRecord, Pc, Instant

\* None is not a snapshot.
LEMMA SnapshotIsSome == None \notin Snapshot
BY NoneAssumption, ClockAssumption DEF Snapshot, Instant

\* What a run is after reconcile_project has returned to its walk.
LEMMA ReturnType ==
  ASSUME TypeOK, NEW r \in Runner, NEW O \in SUBSET Outcome, Return(r, O)
  PROVE  /\ run' \in [Runner -> RunRecord]
         /\ \A q \in Runner \ {r} : run'[q] = run[q]
         /\ run'[r].pc = "next"
         /\ run'[r].todo = run[r].todo
         /\ run'[r].scope = run[r].scope
         /\ run'[r].saves = run[r].saves
         /\ run[r].saves => run'[r].outcomes = run[r].outcomes \cup O
<1>1. run \in [Runner -> RunRecord]
  BY DEF TypeOK, RunRecord
<1>2. Noted(r, O) \in SUBSET Outcome /\ (run[r].saves => Noted(r, O) = run[r].outcomes \cup O)
  BY <1>1 DEF Noted, RunRecord
<1> DEFINE new == [Idle EXCEPT !.pc = "next", !.scope = run[r].scope, !.todo = run[r].todo,
                               !.saves = run[r].saves, !.outcomes = Noted(r, O)]
<1>3. /\ new \in RunRecord
      /\ new.pc = "next" /\ new.todo = run[r].todo /\ new.saves = run[r].saves
      /\ new.scope = run[r].scope /\ new.outcomes = Noted(r, O)
  BY <1>1, <1>2, IdleType DEF Idle, RunRecord, Pc
<1>4. run' = [run EXCEPT ![r] = new]
  BY DEF Return
<1> HIDE DEF new
<1> QED BY <1>1, <1>2, <1>3, <1>4

-----------------------------------------------------------------------------
(* The inductive invariant: the initial states and each action.            *)

\* Steps that leave the files alone keep what is known of them.
LEMMA FilesUntouched ==
  ASSUME IInv, UNCHANGED files
  PROVE  OkHasBaseline'
BY DEF IInv, files, OkHasBaseline

\* At the start no file exists and nothing runs.
LEMMA InitIInv == Init => IInv
<1> SUFFICES ASSUME Init PROVE IInv
  OBVIOUS
<1>1. TypeOK
  <2>1. run \in [Runner -> RunRecord]
    BY IdleType DEF Init
  <2> QED BY <2>1, ClockAssumption DEF Init, TypeOK, RunRecord, Instant, Status
<1>2. AtProject /\ Covered
  BY DEF Init, AtProject, Covered, Idle, InProject
<1>3. OkHasBaseline
  BY DEF Init, OkHasBaseline
<1> QED BY <1>1, <1>2, <1>3 DEF IInv

\* A run begins: every project is still to come.
LEMMA BeginKeepsIInv ==
  ASSUME IInv, NEW r \in Runner, Begin(r)
  PROVE  IInv'
<1>1. run \in [Runner -> RunRecord]
  BY DEF IInv, TypeOK, RunRecord
<1>2. PICK S \in SUBSET Project, saves \in BOOLEAN :
         run' = [run EXCEPT ![r] = [Idle EXCEPT !.pc = "next", !.scope = S,
                                                !.todo = S, !.saves = saves]]
  BY DEF Begin
<1> DEFINE new == [Idle EXCEPT !.pc = "next", !.scope = S, !.todo = S, !.saves = saves]
<1>3. new \in RunRecord /\ new.pc = "next" /\ new.scope = S /\ new.todo = S /\ new.saves = saves
  BY IdleType DEF Idle, RunRecord, Pc
<1>4. run' = [run EXCEPT ![r] = new]
  BY <1>2
<1> HIDE DEF new
<1>5. /\ run' \in [Runner -> RunRecord]
      /\ run'[r] = new
      /\ \A q \in Runner \ {r} : run'[q] = run[q]
  BY <1>1, <1>3, <1>4
<1>6. UNCHANGED <<world, files>>
  BY DEF Begin
<1>7. TypeOK'
  BY <1>5, <1>6 DEF IInv, TypeOK, RunRecord, world, files
<1>8. AtProject'
  BY <1>3, <1>5 DEF IInv, AtProject, InProject
<1>9. Covered'
  BY <1>2, <1>3, <1>5, <1>6, ProjectAssumption DEF IInv, Covered, Due, files
<1> QED BY <1>6, <1>7, <1>8, <1>9, FilesUntouched DEF IInv

\* A run turns to its next project: a project with a key stays due.
LEMMA EnterKeepsIInv ==
  ASSUME IInv, NEW r \in Runner, NEW p \in Project, Enter(r, p)
  PROVE  IInv'
<1>1. run \in [Runner -> RunRecord] /\ clock \in Instant
  BY DEF IInv, TypeOK, RunRecord
<1>2. PICK new \in RunRecord :
         /\ new.todo = run[r].todo \ {p}
         /\ new.project = p
         /\ new.pc = IF p \in Keyed THEN "usage" ELSE "next"
         /\ new.scope = run[r].scope /\ new.saves = run[r].saves
         /\ new.outcomes = run[r].outcomes
         /\ run' = [run EXCEPT ![r] = new]
  <2> DEFINE new == [run[r] EXCEPT !.todo = @ \ {p}, !.project = p, !.at = clock,
                                   !.pc = IF p \in Keyed THEN "usage" ELSE "next"]
  <2>1. new \in RunRecord
    BY <1>1 DEF RunRecord, Pc
  <2>2. run' = [run EXCEPT ![r] = new]
    BY <1>1 DEF Enter
  <2>3. /\ new.todo = run[r].todo \ {p}
        /\ new.project = p
        /\ new.pc = IF p \in Keyed THEN "usage" ELSE "next"
        /\ new.scope = run[r].scope /\ new.saves = run[r].saves
        /\ new.outcomes = run[r].outcomes
    BY <1>1 DEF RunRecord
  <2> QED BY <2>1, <2>2, <2>3
<1>3. /\ run' \in [Runner -> RunRecord]
      /\ run'[r] = new
      /\ \A q \in Runner \ {r} : run'[q] = run[q]
  BY <1>1, <1>2
<1>4. UNCHANGED <<world, files>>
  BY DEF Enter
<1>5. TypeOK'
  BY <1>3, <1>4 DEF IInv, TypeOK, RunRecord, world, files
<1>6. AtProject'
  BY <1>2, <1>3 DEF IInv, AtProject, InProject
<1>7. Covered'
  BY <1>2, <1>3, <1>4 DEF IInv, Covered, Due, files, Enter, BeforeSave
<1> QED BY <1>4, <1>5, <1>6, <1>7, FilesUntouched DEF IInv

\* The usage has arrived: it is the spend of the instants before now.
LEMMA UsageReadKeepsIInv ==
  ASSUME IInv, NEW r \in Runner, UsageRead(r)
  PROVE  IInv'
<1> DEFINE usage == Within(Spend(run[r].project), 0, clock)
<1>1. /\ run \in [Runner -> RunRecord]
      /\ clock \in Instant
      /\ run[r].pc = "usage"
      /\ run[r].project \in Project
  BY DEF IInv, TypeOK, RunRecord, UsageRead, AtProject, InProject
<1>2. usage \in 0 .. MaxClock
  <2>1. Spend(run[r].project) \in SUBSET Instant
    BY <1>1 DEF IInv, TypeOK, Spend
  <2> QED BY <1>1, <2>1, WithinBound
<1>3. run' = [run EXCEPT ![r] = [run[r] EXCEPT !.pc = "credits", !.cum = usage, !.read = clock]]
  BY <1>1 DEF UsageRead
<1> HIDE DEF usage
<1>4. PICK new \in RunRecord :
         /\ new.pc = "credits" /\ new.todo = run[r].todo /\ new.project = run[r].project
         /\ new.saves = run[r].saves /\ new.outcomes = run[r].outcomes
         /\ new.scope = run[r].scope
         /\ run' = [run EXCEPT ![r] = new]
  <2> DEFINE new == [run[r] EXCEPT !.pc = "credits", !.cum = usage, !.read = clock]
  <2>1. /\ new \in RunRecord
        /\ new.pc = "credits" /\ new.todo = run[r].todo /\ new.project = run[r].project
        /\ new.saves = run[r].saves /\ new.outcomes = run[r].outcomes
        /\ new.scope = run[r].scope
    BY <1>1, <1>2 DEF RunRecord, Pc
  <2> QED BY <1>3, <2>1
<1>5. /\ run' \in [Runner -> RunRecord]
      /\ run'[r] = new
      /\ \A q \in Runner \ {r} : run'[q] = run[q]
  BY <1>1, <1>4
<1>6. UNCHANGED <<world, files>>
  BY DEF UsageRead
<1>7. TypeOK'
  BY <1>5, <1>6 DEF IInv, TypeOK, RunRecord, world, files
<1>8. AtProject'
  BY <1>1, <1>4, <1>5 DEF IInv, AtProject
<1>9. Covered'
  BY <1>1, <1>4, <1>5, <1>6 DEF IInv, Covered, Due, files, BeforeSave
<1> QED BY <1>6, <1>7, <1>8, <1>9, FilesUntouched DEF IInv

\* A part of a run ends without touching a file: before its snapshot is saved
\* with an error, afterwards with any outcome.
LEMMA ReturnKeepsIInv ==
  ASSUME IInv, NEW r \in Runner, NEW O \in SUBSET Outcome, Return(r, O),
         run[r].pc = "langfuse" \/ (run[r].pc \in BeforeSave /\ "error" \in O),
         UNCHANGED <<world, files>>
  PROVE  IInv'
<1>1. /\ run' \in [Runner -> RunRecord]
      /\ \A q \in Runner \ {r} : run'[q] = run[q]
      /\ run'[r].pc = "next"
      /\ run'[r].todo = run[r].todo /\ run'[r].scope = run[r].scope
      /\ run'[r].saves = run[r].saves
      /\ run[r].saves => run'[r].outcomes = run[r].outcomes \cup O
  BY ReturnType DEF IInv
<1>2. TypeOK'
  BY <1>1 DEF IInv, TypeOK, RunRecord, world, files
<1>3. AtProject'
  BY <1>1 DEF IInv, AtProject, InProject
<1>4. Covered'
  BY <1>1 DEF IInv, Covered, Due, files, BeforeSave
<1> QED BY <1>2, <1>3, <1>4, FilesUntouched DEF IInv

\* A command has loaded the prior snapshot.
LEMMA CliLoadKeepsIInv ==
  ASSUME IInv, NEW r \in Runner, CliLoad(r)
  PROVE  IInv'
<1>1. /\ run \in [Runner -> RunRecord]
      /\ run[r].pc = "credits"
      /\ Loaded(run[r].project) \in SUBSET (Snapshot \cup {None})
      /\ run[r].project \in Project
  BY DEF IInv, TypeOK, RunRecord, CliLoad, AtProject, InProject, Loaded
<1>2. PICK balance \in Balance, prior \in Loaded(run[r].project) :
         run' = [run EXCEPT ![r] = [run[r] EXCEPT !.pc = "save", !.prior = prior,
                                                  !.outcomes = Noted(r, balance)]]
  <2>1. PICK balance \in Balance, prior \in Loaded(run[r].project) :
           run' = [run EXCEPT ![r].pc = "save", ![r].prior = prior,
                              ![r].outcomes = Noted(r, balance)]
    BY DEF CliLoad
  <2>2. run' = [run EXCEPT ![r] = [run[r] EXCEPT !.pc = "save", !.prior = prior,
                                                 !.outcomes = Noted(r, balance)]]
    BY <1>1, <2>1 DEF RunRecord
  <2> QED BY <2>1, <2>2
<1>3. /\ Noted(r, balance) \in SUBSET Outcome
      /\ run[r].saves => run[r].outcomes \subseteq Noted(r, balance)
  BY <1>1 DEF Noted, Balance, RunRecord, Outcome
<1>4. PICK new \in RunRecord :
         /\ new.pc = "save" /\ new.todo = run[r].todo /\ new.project = run[r].project
         /\ new.scope = run[r].scope /\ new.saves = run[r].saves
         /\ run[r].saves => run[r].outcomes \subseteq new.outcomes
         /\ run' = [run EXCEPT ![r] = new]
  <2> DEFINE new == [run[r] EXCEPT !.pc = "save", !.prior = prior,
                                   !.outcomes = Noted(r, balance)]
  <2>1. /\ new \in RunRecord
        /\ new.pc = "save" /\ new.todo = run[r].todo /\ new.project = run[r].project
        /\ new.scope = run[r].scope /\ new.saves = run[r].saves
        /\ new.outcomes = Noted(r, balance)
    BY <1>1, <1>3 DEF RunRecord, Pc
  <2> QED BY <1>2, <1>3, <2>1
<1>5. /\ run' \in [Runner -> RunRecord]
      /\ run'[r] = new
      /\ \A q \in Runner \ {r} : run'[q] = run[q]
  BY <1>1, <1>4
<1>6. UNCHANGED <<world, files>>
  BY DEF CliLoad
<1>7. TypeOK'
  BY <1>5, <1>6 DEF IInv, TypeOK, RunRecord, world, files
<1>8. AtProject'
  BY <1>1, <1>4, <1>5 DEF IInv, AtProject
<1>9. Covered'
  BY <1>1, <1>4, <1>5, <1>6 DEF IInv, Covered, Due, files, BeforeSave
<1> QED BY <1>6, <1>7, <1>8, <1>9, FilesUntouched DEF IInv

\* The snapshot of a project is saved, and its part ends or goes on to the
\* comparison: from here on the project has its snapshot.
LEMMA SaveKeepsIInv ==
  ASSUME IInv, NEW r \in Runner, NEW prior \in Snapshot \cup {None},
         NEW balance \in Balance, run[r].pc \in {"credits", "save"}, Save(r, prior, balance)
  PROVE  IInv'
<1> DEFINE p == run[r].project
<1>1. /\ run \in [Runner -> RunRecord]
      /\ p \in Project
      /\ run[r].cum \in Nat
  BY ClockAssumption DEF IInv, TypeOK, RunRecord, AtProject, InProject
<1>2. snapshot' = [snapshot EXCEPT ![p] = Taken(r)] /\ UNCHANGED <<world, last>>
  BY DEF Save
<1>3. Taken(r) \in Snapshot /\ Taken(r) # None /\ Taken(r).cum = run[r].cum
  BY <1>1, SnapshotIsSome DEF Taken, Snapshot, RunRecord
<1>4. /\ run' \in [Runner -> RunRecord]
      /\ \A q \in Runner \ {r} : run'[q] = run[q]
      /\ run'[r].pc \in {"next", "langfuse"}
      /\ run'[r].pc = "langfuse" => run'[r].project = p
      /\ run'[r].todo = run[r].todo /\ run'[r].scope = run[r].scope
      /\ run'[r].saves = run[r].saves
      /\ run[r].saves => run[r].outcomes \subseteq run'[r].outcomes
  <2>1. CASE prior = None
    <3>1. Return(r, {"first"} \cup balance) /\ {"first"} \cup balance \in SUBSET Outcome
      BY <2>1 DEF Save, Balance, Outcome
    <3> QED BY <3>1, ReturnType DEF IInv
  <2>2. CASE prior # None
    <3>1. run' = [run EXCEPT ![r] = [run[r] EXCEPT !.pc = "langfuse", !.prior = prior,
                                                   !.outcomes = Noted(r, balance)]]
      BY <1>1, <2>2 DEF Save
    <3>2. /\ Noted(r, balance) \in SUBSET Outcome
          /\ run[r].saves => run[r].outcomes \subseteq Noted(r, balance)
      BY <1>1 DEF Noted, Balance, RunRecord, Outcome
    <3> DEFINE new == [run[r] EXCEPT !.pc = "langfuse", !.prior = prior,
                                     !.outcomes = Noted(r, balance)]
    <3>3. /\ new \in RunRecord
          /\ new.pc = "langfuse" /\ new.todo = run[r].todo /\ new.project = p
          /\ new.scope = run[r].scope /\ new.saves = run[r].saves
          /\ new.outcomes = Noted(r, balance)
      BY <1>1, <3>2 DEF RunRecord, Pc
    <3>4. run' = [run EXCEPT ![r] = new]
      BY <3>1
    <3> HIDE DEF new
    <3> QED BY <1>1, <3>2, <3>3, <3>4
  <2> QED BY <2>1, <2>2
<1> HIDE DEF p
<1>5. snapshot \in [Project -> Snapshot \cup {None}]
  BY DEF IInv, TypeOK
<1>7. TypeOK'
  <2>1. snapshot' \in [Project -> Snapshot \cup {None}]
    BY <1>1, <1>2, <1>3, <1>5
  <2> QED BY <1>2, <1>4, <2>1 DEF IInv, TypeOK, RunRecord, world
<1>8. AtProject'
  BY <1>1, <1>4 DEF IInv, AtProject, InProject
<1>9. snapshot'[p] = Taken(r) /\ \A q \in Project \ {p} : snapshot'[q] = snapshot[q]
  BY <1>1, <1>2, <1>5
<1>11. \A q \in Project : snapshot[q] # None \/ q = p => snapshot'[q] # None
  BY <1>3, <1>9
<1>12. Covered'
  <2> SUFFICES ASSUME NEW q \in Runner, run'[q].pc # "idle", run'[q].saves,
                        NEW k \in Keyed \cap run'[q].scope
               PROVE  \/ Due(q, k)' \/ run'[q].outcomes \cap {"error", "warned"} # {}
                      \/ snapshot'[k] # None
    BY DEF Covered
  <2>1. \/ Due(q, k) \/ run[q].outcomes \cap {"error", "warned"} # {}
        \/ snapshot[k] # None
    BY <1>4 DEF IInv, Covered
  <2>2. CASE q # r
    BY <1>4, <1>11, <2>1, <2>2, ProjectAssumption DEF Due
  <2>3. CASE q = r
    BY <1>4, <1>11, <2>1, <2>3, ProjectAssumption DEF Due, p
  <2> QED BY <2>2, <2>3
<1>13. OkHasBaseline'
  BY <1>2, <1>11, ProjectAssumption DEF IInv, OkHasBaseline
<1> QED BY <1>7, <1>8, <1>12, <1>13 DEF IInv

\* Runs end without writing: by an exception, or with their process.
LEMMA EndKeepsIInv ==
  ASSUME IInv, UNCHANGED <<world, files>>, run' \in [Runner -> RunRecord],
         \A r \in Runner : run'[r] = run[r] \/ run'[r] = Idle
  PROVE  IInv'
<1>1. TypeOK'
  BY DEF IInv, TypeOK, RunRecord, world, files
<1>2. AtProject' /\ Covered'
  BY DEF IInv, AtProject, Covered, Due, InProject, BeforeSave, Idle, files
<1> QED BY <1>1, <1>2, FilesUntouched DEF IInv

\* last.json is saved: it says "ok" only if the walk left every project with a
\* key with its snapshot.
LEMMA FinishKeepsIInv ==
  ASSUME IInv, NEW r \in Runner, Finish(r)
  PROVE  IInv'
<1>1. /\ run \in [Runner -> RunRecord]
      /\ run[r].pc = "next" /\ run[r].todo = {}
      /\ run' = [run EXCEPT ![r] = Idle]
      /\ UNCHANGED <<world, snapshot>>
  BY DEF IInv, TypeOK, RunRecord, Finish
<1>2. run' \in [Runner -> RunRecord] /\ \A q \in Runner : run'[q] = run[q] \/ run'[q] = Idle
  BY <1>1, IdleType
<1>3. last' = IF run[r].saves
              THEN [status |-> ReconcileStatus(run[r].outcomes), scope |-> run[r].scope]
              ELSE last
  BY DEF Finish
<1>4. last' \in [status : Status, scope : SUBSET Project]
  <2>1. ReconcileStatus(run[r].outcomes) \in Status /\ run[r].scope \in SUBSET Project
    BY <1>1 DEF ReconcileStatus, Status, RunRecord
  <2> QED BY <1>3, <2>1 DEF IInv, TypeOK
<1>5. TypeOK'
  BY <1>1, <1>2, <1>3, <1>4 DEF IInv, TypeOK, RunRecord, world
<1>6. AtProject' /\ Covered'
  BY <1>1, <1>2 DEF IInv, AtProject, Covered, Due, InProject, BeforeSave, Idle
<1>8. OkHasBaseline'
  <2>1. CASE run[r].saves /\ last'.status = "ok"
    <3>1. run[r].outcomes \cap {"error", "warned"} = {}
      BY <1>3, <2>1 DEF ReconcileStatus
    <3>2. \A p \in Keyed : ~ Due(r, p)
      BY <1>1 DEF Due, BeforeSave
    <3>3. \A p \in Keyed \cap run[r].scope : snapshot[p] # None
      BY <1>1, <2>1, <3>1, <3>2 DEF IInv, Covered
    <3>4. last'.scope = run[r].scope
      BY <1>3, <2>1
    <3> QED BY <1>1, <3>3, <3>4 DEF OkHasBaseline
  <2>2. CASE ~ run[r].saves
    BY <1>1, <1>3, <2>2 DEF IInv, OkHasBaseline
  <2>3. CASE last'.status # "ok"
    BY <2>3 DEF OkHasBaseline
  <2> QED BY <2>1, <2>2, <2>3
<1> QED BY <1>5, <1>6, <1>8 DEF IInv

\* Time passes.
LEMMA TickKeepsIInv ==
  ASSUME IInv, Tick
  PROVE  IInv'
<1>1. UNCHANGED <<run, files>>
  BY DEF Tick
<1>2. clock \in Instant /\ clock' \in Instant
  BY ClockAssumption DEF IInv, TypeOK, Tick, Instant
<1>3. traced' \in [Project -> SUBSET Instant] /\ untraced' \in [Project -> SUBSET Instant]
  BY <1>2, ProjectAssumption DEF IInv, TypeOK, Tick
<1>4. TypeOK'
  BY <1>1, <1>2, <1>3 DEF IInv, TypeOK, files
<1>5. AtProject' /\ Covered'
  BY <1>1 DEF IInv, AtProject, Covered, Due, files
<1> QED BY <1>1, <1>4, <1>5, FilesUntouched DEF IInv

-----------------------------------------------------------------------------
(* The theorems.                                                           *)

\* One case per action.
LEMMA NextIInv == IInv /\ [Next]_vars => IInv'
<1> SUFFICES ASSUME IInv, [Next]_vars PROVE IInv'
  OBVIOUS
<1>1. ASSUME NEW r \in Runner, Begin(r) PROVE IInv'
  BY <1>1, BeginKeepsIInv
<1>2. ASSUME NEW r \in Runner, NEW p \in Project, Enter(r, p) PROVE IInv'
  BY <1>2, EnterKeepsIInv
<1>3. ASSUME NEW r \in Runner, UsageRead(r) PROVE IInv'
  BY <1>3, UsageReadKeepsIInv
<1>4. ASSUME NEW r \in Runner, UsageFails(r) PROVE IInv'
  <2>1. {"error"} \in SUBSET Outcome
    BY DEF Outcome
  <2> QED BY <1>4, <2>1, ReturnKeepsIInv DEF UsageFails, BeforeSave
<1>5. ASSUME NEW r \in Runner, LoadAndSave(r) PROVE IInv'
  <2>1. Loaded(run[r].project) \in SUBSET (Snapshot \cup {None})
    BY <1>5 DEF IInv, TypeOK, LoadAndSave, AtProject, InProject, Loaded
  <2> QED BY <1>5, <2>1, SaveKeepsIInv DEF LoadAndSave
<1>6. ASSUME NEW r \in Runner, CliLoad(r) PROVE IInv'
  BY <1>6, CliLoadKeepsIInv
<1>7. ASSUME NEW r \in Runner, CliSave(r) PROVE IInv'
  <2>1. run[r].prior \in Snapshot \cup {None} /\ {} \in Balance
    BY <1>7 DEF IInv, TypeOK, Balance
  <2> QED BY <1>7, <2>1, SaveKeepsIInv DEF CliSave
<1>8. ASSUME NEW r \in Runner, Raises(r) PROVE IInv'
  <2>1. /\ run' \in [Runner -> RunRecord]
        /\ \A q \in Runner : run'[q] = run[q] \/ run'[q] = Idle
    BY <1>8, IdleType DEF IInv, TypeOK, RunRecord, Raises
  <2> QED BY <1>8, <2>1, EndKeepsIInv DEF Raises
<1>9. ASSUME NEW r \in Runner, Compare(r) PROVE IInv'
  <2>1. {"within"} \in SUBSET Outcome /\ {"warned"} \in SUBSET Outcome
    BY DEF Outcome
  <2> QED BY <1>9, <2>1, ReturnKeepsIInv DEF Compare
<1>10. ASSUME NEW r \in Runner, LangfuseFails(r) PROVE IInv'
  <2>1. {"error"} \in SUBSET Outcome
    BY DEF Outcome
  <2> QED BY <1>10, <2>1, ReturnKeepsIInv DEF LangfuseFails
<1>11. ASSUME NEW r \in Runner, Finish(r) PROVE IInv'
  BY <1>11, FinishKeepsIInv
<1>12. ASSUME Crash PROVE IInv'
  <2>1. /\ run' \in [Runner -> RunRecord]
        /\ \A q \in Runner : run'[q] = run[q] \/ run'[q] = Idle
    BY <1>12, IdleType DEF IInv, TypeOK, RunRecord, Crash
  <2> QED BY <1>12, <2>1, EndKeepsIInv DEF Crash
<1>13. CASE Tick
  BY <1>13, TickKeepsIInv
<1>14. CASE UNCHANGED vars
  <2>1. run' \in [Runner -> RunRecord] /\ UNCHANGED <<world, files, run>>
    BY <1>14 DEF IInv, TypeOK, RunRecord, vars, world, files
  <2> QED BY <2>1, EndKeepsIInv
<1> QED
  BY <1>1, <1>2, <1>3, <1>4, <1>5, <1>6, <1>7, <1>8, <1>9, <1>10, <1>11, <1>12, <1>13, <1>14
     DEF Next

\* The inductive invariant holds in every behaviour.
LEMMA Invariance == Spec => []IInv
<1>1. Init => IInv
  BY InitIInv
<1>2. IInv /\ [Next]_vars => IInv'
  BY NextIInv
<1> QED BY <1>1, <1>2, PTL DEF Spec

\* The files and the runs keep their form (reconcile.py:126-298): a reading is
\* never missing where a snapshot is made of it.
THEOREM TypeCorrect == Spec => []TypeOK
<1>1. IInv => TypeOK
  BY DEF IInv
<1> QED BY <1>1, Invariance, PTL

\* last.json says "ok" only if every project with a key in its results has a
\* snapshot to be compared with (reconcile.py:230-244, 258-283), whatever
\* projects the registry had in each run and whichever snapshot was unreadable.
THEOREM OkMeansBaseline == Spec => []OkHasBaseline
<1>1. IInv => OkHasBaseline
  BY DEF IInv
<1> QED BY <1>1, Invariance, PTL

-----------------------------------------------------------------------------
(* What the readings mean.                                                 *)

\* Reading s of project p is the spend before the instant it was read at, and
\* the run that took it had begun by then.
Exact(p, s) ==
  /\ s.at <= s.read
  /\ s.read <= clock
  /\ s.cum = Within(Spend(p), 0, s.read)

\* All spend is past, and a unit of it is either traced or not.
SpendIsPast ==
  \A p \in Project :
    /\ traced[p] \cap untraced[p] = {}
    /\ \A i \in Spend(p) : i < clock

SnapshotsExact ==
  \A p \in Project : snapshot[p] # None => Exact(p, snapshot[p])

\* What run r holds of its project.
RunExact(r) ==
  /\ run[r].pc = "usage" => run[r].at <= clock
  /\ run[r].pc \in {"credits", "save", "langfuse"} => Exact(run[r].project, run[r])
  /\ run[r].pc \in {"save", "langfuse"} /\ run[r].prior # None =>
       Exact(run[r].project, run[r].prior)
  /\ run[r].pc = "langfuse" => run[r].prior # None

Readings ==
  /\ SpendIsPast
  /\ SnapshotsExact
  /\ \A r \in Runner : RunExact(r)

\* At the start there is neither spend nor a reading.
LEMMA InitReadings == Init => Readings
BY DEF Init, Readings, SpendIsPast, SnapshotsExact, RunExact, Spend, Idle

\* A step that leaves the world and the snapshots alone has to answer only for
\* the run it changes.
LEMMA OneRunReads ==
  ASSUME Readings, UNCHANGED <<world, snapshot>>, NEW r \in Runner, RunExact(r)',
         \A q \in Runner \ {r} : run'[q] = run[q]
  PROVE  Readings'
<1>1. SpendIsPast' /\ SnapshotsExact'
  BY DEF Readings, SpendIsPast, SnapshotsExact, Exact, Spend, world
<1>2. ASSUME NEW q \in Runner \ {r} PROVE RunExact(q)'
  BY <1>2 DEF Readings, RunExact, Exact, Spend, world
<1> QED BY <1>1, <1>2 DEF Readings

\* A run that holds no reading is exact.
LEMMA NothingHeld ==
  ASSUME NEW r \in Runner, run[r].pc \in {"idle", "next"}
  PROVE  RunExact(r)
BY DEF RunExact

\* A run turns to its next project: it has begun by now.
LEMMA EnterKeepsReadings ==
  ASSUME TypeOK, Readings, NEW r \in Runner, NEW p \in Project, Enter(r, p)
  PROVE  Readings'
<1>1. run \in [Runner -> RunRecord] /\ clock \in Int
  BY ClockAssumption DEF TypeOK, RunRecord, Instant
<1>2. /\ run'[r].pc \in {"usage", "next"}
      /\ run'[r].at = clock
      /\ \A q \in Runner \ {r} : run'[q] = run[q]
      /\ UNCHANGED <<world, snapshot>>
  BY <1>1 DEF Enter, RunRecord, files
<1>3. RunExact(r)'
  BY <1>1, <1>2 DEF RunExact, world
<1> QED BY <1>2, <1>3, OneRunReads

\* The usage has arrived: the reading is the spend before now.
LEMMA UsageReadKeepsReadings ==
  ASSUME TypeOK, Readings, NEW r \in Runner, UsageRead(r)
  PROVE  Readings'
<1>1. run \in [Runner -> RunRecord] /\ clock \in Int /\ run[r].pc = "usage"
  BY ClockAssumption DEF TypeOK, RunRecord, Instant, UsageRead
<1>2. /\ run'[r].pc = "credits"
      /\ run'[r].project = run[r].project
      /\ run'[r].at = run[r].at
      /\ run'[r].cum = Within(Spend(run[r].project), 0, clock)
      /\ run'[r].read = clock
      /\ \A q \in Runner \ {r} : run'[q] = run[q]
      /\ UNCHANGED <<world, snapshot>>
  BY <1>1 DEF UsageRead, RunRecord, files
<1>3. RunExact(r)'
  BY <1>1, <1>2 DEF Readings, RunExact, Exact, Spend, world
<1> QED BY <1>2, <1>3, OneRunReads

\* A command has loaded the prior snapshot, an exact reading.
LEMMA CliLoadKeepsReadings ==
  ASSUME IInv, Readings, NEW r \in Runner, CliLoad(r)
  PROVE  Readings'
<1>1. /\ run \in [Runner -> RunRecord]
      /\ run[r].pc = "credits"
      /\ run[r].project \in Project
  BY DEF IInv, TypeOK, RunRecord, CliLoad, AtProject, InProject
<1>2. /\ run'[r].pc = "save"
      /\ run'[r].project = run[r].project
      /\ run'[r].at = run[r].at /\ run'[r].cum = run[r].cum /\ run'[r].read = run[r].read
      /\ run'[r].prior \in Loaded(run[r].project)
      /\ \A q \in Runner \ {r} : run'[q] = run[q]
      /\ UNCHANGED <<world, snapshot>>
  BY <1>1 DEF CliLoad, RunRecord, files
<1>3. RunExact(r)'
  BY <1>1, <1>2 DEF Readings, RunExact, SnapshotsExact, Exact, Spend, world, Loaded
<1> QED BY <1>2, <1>3, OneRunReads

\* A snapshot is saved: it is the reading of the run.
LEMMA SaveKeepsReadings ==
  ASSUME IInv, Readings, NEW r \in Runner, NEW prior \in Snapshot \cup {None},
         NEW balance \in Balance, run[r].pc \in {"credits", "save"}, Save(r, prior, balance),
         prior # None => Exact(run[r].project, prior)
  PROVE  Readings'
<1> DEFINE p == run[r].project
<1>1. /\ run \in [Runner -> RunRecord]
      /\ p \in Project
      /\ Exact(p, run[r])
      /\ snapshot \in [Project -> Snapshot \cup {None}]
  BY DEF IInv, TypeOK, RunRecord, AtProject, InProject, Readings, RunExact
<1>2. snapshot' = [snapshot EXCEPT ![p] = Taken(r)] /\ UNCHANGED world
  BY DEF Save
<1>3. Exact(p, Taken(r))
  BY <1>1 DEF Taken, Exact
<1>4. ASSUME NEW q, NEW s PROVE Exact(q, s) => Exact(q, s)'
  BY <1>2 DEF Exact, Spend, world
<1>5. /\ snapshot'[p] = Taken(r)
      /\ \A q \in Project \ {p} : snapshot'[q] = snapshot[q]
  BY <1>1, <1>2
<1>6. SpendIsPast'
  BY <1>2 DEF Readings, SpendIsPast, Spend, world
<1>7. SnapshotsExact'
  <2> SUFFICES ASSUME NEW q \in Project, snapshot'[q] # None PROVE Exact(q, snapshot[q])'
    BY DEF SnapshotsExact
  <2>1. CASE q = p
    BY <1>2, <1>3, <1>5, <2>1 DEF Exact, Spend, world
  <2>2. CASE q # p
    BY <1>2, <1>5, <2>2 DEF Readings, SnapshotsExact, Exact, Spend, world
  <2> QED BY <2>1, <2>2
<1>8. \A q \in Runner \ {r} : run'[q] = run[q]
  BY <1>1 DEF Save, Return
<1>9. RunExact(r)'
  <2>1. CASE prior = None
    <3>1. run'[r].pc = "next"
      BY <1>1, <2>1 DEF Save, Return, Idle
    <3> QED BY <3>1 DEF RunExact
  <2>2. CASE prior # None
    <3>1. /\ run'[r].pc = "langfuse"
          /\ run'[r].project = p
          /\ run'[r].at = run[r].at /\ run'[r].cum = run[r].cum /\ run'[r].read = run[r].read
          /\ run'[r].prior = prior
      BY <1>1, <2>2 DEF Save, RunRecord
    <3> QED BY <1>1, <1>2, <2>2, <3>1 DEF RunExact, Exact, Spend, world
  <2> QED BY <2>1, <2>2
<1>10. ASSUME NEW q \in Runner PROVE RunExact(q)'
  <2>1. CASE q # r
    BY <1>2, <1>8, <2>1 DEF Readings, RunExact, Exact, Spend, world
  <2> QED BY <1>9, <2>1
<1> QED BY <1>6, <1>7, <1>10 DEF Readings

\* Time passes: spend of the instant that ends here is later than every reading.
LEMMA TickKeepsReadings ==
  ASSUME IInv, Readings, Tick
  PROVE  Readings'
<1>1. /\ clock \in Nat /\ clock' = clock + 1
      /\ UNCHANGED <<run, snapshot>>
  BY ClockAssumption DEF Tick, IInv, TypeOK, Instant, files
<1>2. ASSUME NEW p \in Project
      PROVE  /\ \/ traced'[p] = traced[p] /\ untraced'[p] = untraced[p]
                \/ traced'[p] = traced[p] \cup {clock} /\ untraced'[p] = untraced[p]
                \/ traced'[p] = traced[p] /\ untraced'[p] = untraced[p] \cup {clock}
  BY DEF Tick, IInv, TypeOK
<1>3. ASSUME NEW p \in Project
      PROVE  /\ traced[p] \in SUBSET Int /\ untraced[p] \in SUBSET Int
             /\ \A i \in Spend(p)' : i \in Spend(p) \/ i = clock
             /\ Spend(p) \subseteq Spend(p)'
  BY <1>2 DEF Spend, IInv, TypeOK, Instant
<1>4. SpendIsPast'
  <2> SUFFICES ASSUME NEW p \in Project
               PROVE  /\ traced'[p] \cap untraced'[p] = {}
                      /\ \A i \in Spend(p)' : i < clock'
    BY DEF SpendIsPast
  <2>1. traced[p] \cap untraced[p] = {} /\ \A i \in Spend(p) : i < clock
    BY DEF Readings, SpendIsPast
  <2>2. clock \notin traced[p] /\ clock \notin untraced[p]
    BY <1>1, <2>1 DEF Spend
  <2>3. \A i \in Spend(p)' : i < clock'
    BY <1>1, <1>3, <2>1 DEF Spend
  <2> QED BY <1>2, <2>1, <2>2, <2>3
<1>5. ASSUME NEW p \in Project, NEW b \in Int, b <= clock
      PROVE  Within(Spend(p)', 0, b) = Within(Spend(p), 0, b)
  <2>1. {i \in Spend(p)' : 0 <= i /\ i < b} = {i \in Spend(p) : 0 <= i /\ i < b}
    BY <1>1, <1>3, <1>5
  <2> QED BY <2>1 DEF Within
<1>6. ASSUME NEW p \in Project, NEW s, s.read \in Int, Exact(p, s)
      PROVE  /\ s.at <= s.read
             /\ s.read <= clock'
             /\ s.cum = Within(Spend(p)', 0, s.read)
  <2>1. s.read <= clock /\ s.at <= s.read /\ s.cum = Within(Spend(p), 0, s.read)
    BY <1>6 DEF Exact
  <2>2. Within(Spend(p)', 0, s.read) = Within(Spend(p), 0, s.read)
    BY <1>5, <1>6, <2>1
  <2> QED BY <1>1, <1>6, <2>1, <2>2
<1>7. \A s \in Snapshot : s.read \in Int
  BY DEF Snapshot, Instant
<1>8. SnapshotsExact'
  <2> SUFFICES ASSUME NEW p \in Project, snapshot[p] # None
               PROVE  Exact(p, snapshot[p])'
    BY <1>1 DEF SnapshotsExact
  <2>1. Exact(p, snapshot[p]) /\ snapshot[p].read \in Int
    BY <1>7 DEF Readings, SnapshotsExact, IInv, TypeOK
  <2> QED BY <1>1, <1>6, <2>1 DEF Exact
<1>9. ASSUME NEW r \in Runner PROVE RunExact(r)'
  <2>1. run[r] \in RunRecord
    BY DEF IInv, TypeOK, RunRecord
  <2>2. run[r].at \in Int /\ run[r].read \in Int /\ (run[r].prior # None => run[r].prior.read \in Int)
    BY <1>7, <2>1 DEF RunRecord, Instant
  <2>3. run[r].pc \in {"credits", "save", "langfuse"} => run[r].project \in Project
    BY DEF IInv, AtProject, InProject
  <2>4. RunExact(r)
    BY DEF Readings
  <2>5. run[r].pc = "usage" => run[r].at <= clock'
    BY <1>1, <2>2, <2>4 DEF RunExact
  <2>6. run[r].pc \in {"credits", "save", "langfuse"} => Exact(run[r].project, run[r])'
    BY <1>1, <1>6, <2>2, <2>3, <2>4 DEF RunExact, Exact
  <2>7. run[r].pc \in {"save", "langfuse"} /\ run[r].prior # None =>
          Exact(run[r].project, run[r].prior)'
    BY <1>1, <1>6, <2>2, <2>3, <2>4 DEF RunExact, Exact
  <2> QED BY <1>1, <2>4, <2>5, <2>6, <2>7 DEF RunExact
<1> QED BY <1>4, <1>8, <1>9 DEF Readings

\* Runs that end, or begin, or come back from a part, hold no reading.
LEMMA EndKeepsReadings ==
  ASSUME Readings, UNCHANGED <<world, snapshot>>,
         \A r \in Runner : run'[r] = run[r] \/ run'[r].pc \in {"idle", "next"}
  PROVE  Readings'
<1>1. SpendIsPast' /\ SnapshotsExact'
  BY DEF Readings, SpendIsPast, SnapshotsExact, Exact, Spend, world
<1>2. ASSUME NEW r \in Runner PROVE RunExact(r)'
  BY DEF Readings, RunExact, Exact, Spend, world
<1> QED BY <1>1, <1>2 DEF Readings

\* One case per action.
LEMMA NextReadings == IInv /\ Readings /\ [Next]_vars => Readings'
<1> SUFFICES ASSUME IInv, Readings, [Next]_vars PROVE Readings'
  OBVIOUS
<1>1. TypeOK /\ run \in [Runner -> RunRecord]
  BY DEF IInv, TypeOK, RunRecord
<1>2. Idle.pc = "idle"
  BY DEF Idle
<1>3. ASSUME NEW r \in Runner, NEW O, Return(r, O)
      PROVE  \A q \in Runner : run'[q] = run[q] \/ run'[q].pc \in {"idle", "next"}
  BY <1>1, <1>3 DEF Return, Idle
<1>4. ASSUME NEW r \in Runner, Begin(r) PROVE Readings'
  <2>1. \A q \in Runner : run'[q] = run[q] \/ run'[q].pc \in {"idle", "next"}
    BY <1>1, <1>4 DEF Begin, Idle
  <2> QED BY <1>4, <2>1, EndKeepsReadings DEF Begin, files
<1>5. ASSUME NEW r \in Runner, NEW p \in Project, Enter(r, p) PROVE Readings'
  BY <1>1, <1>5, EnterKeepsReadings
<1>6. ASSUME NEW r \in Runner, UsageRead(r) PROVE Readings'
  BY <1>1, <1>6, UsageReadKeepsReadings
<1>7. ASSUME NEW r \in Runner, UsageFails(r) PROVE Readings'
  BY <1>3, <1>7, EndKeepsReadings DEF UsageFails, files
<1>8. ASSUME NEW r \in Runner, LoadAndSave(r) PROVE Readings'
  <2>1. run[r].project \in Project
    BY <1>8 DEF IInv, LoadAndSave, AtProject, InProject
  <2>2. \A prior \in Loaded(run[r].project) :
          /\ prior \in Snapshot \cup {None}
          /\ prior # None => Exact(run[r].project, prior)
    BY <2>1 DEF IInv, TypeOK, Readings, SnapshotsExact, Loaded
  <2> QED BY <1>8, <2>2, SaveKeepsReadings DEF LoadAndSave
<1>9. ASSUME NEW r \in Runner, CliLoad(r) PROVE Readings'
  BY <1>9, CliLoadKeepsReadings
<1>10. ASSUME NEW r \in Runner, CliSave(r) PROVE Readings'
  <2>1. run[r].prior \in Snapshot \cup {None} /\ {} \in Balance
    BY DEF IInv, TypeOK, Balance
  <2>2. run[r].prior # None => Exact(run[r].project, run[r].prior)
    BY <1>10 DEF CliSave, Readings, RunExact
  <2> QED BY <1>10, <2>1, <2>2, SaveKeepsReadings DEF CliSave
<1>11. ASSUME NEW r \in Runner, Raises(r) PROVE Readings'
  <2>1. \A q \in Runner : run'[q] = run[q] \/ run'[q].pc \in {"idle", "next"}
    BY <1>1, <1>2, <1>11 DEF Raises
  <2> QED BY <1>11, <2>1, EndKeepsReadings DEF Raises, files
<1>12. ASSUME NEW r \in Runner, Compare(r) PROVE Readings'
  BY <1>3, <1>12, EndKeepsReadings DEF Compare, files
<1>13. ASSUME NEW r \in Runner, LangfuseFails(r) PROVE Readings'
  BY <1>3, <1>13, EndKeepsReadings DEF LangfuseFails, files
<1>14. ASSUME NEW r \in Runner, Finish(r) PROVE Readings'
  <2>1. \A q \in Runner : run'[q] = run[q] \/ run'[q].pc \in {"idle", "next"}
    BY <1>1, <1>2, <1>14 DEF Finish
  <2> QED BY <1>14, <2>1, EndKeepsReadings DEF Finish
<1>15. ASSUME Crash PROVE Readings'
  <2>1. \A q \in Runner : run'[q] = run[q] \/ run'[q].pc \in {"idle", "next"}
    BY <1>1, <1>2, <1>15 DEF Crash
  <2> QED BY <1>15, <2>1, EndKeepsReadings DEF Crash, files
<1>16. CASE Tick
  BY <1>16, TickKeepsReadings
<1>17. CASE UNCHANGED vars
  BY <1>17, EndKeepsReadings DEF vars, world
<1> QED
  BY <1>4, <1>5, <1>6, <1>7, <1>8, <1>9, <1>10, <1>11, <1>12, <1>13, <1>14, <1>15, <1>16, <1>17
     DEF Next

-----------------------------------------------------------------------------
(* Counting spend.                                                         *)

\* There are finitely many instants, each a number.
LEMMA InstantsAreFinite == IsFiniteSet(Instant) /\ \A i \in Instant : i \in Nat
<1>1. MaxClock \in Int /\ 0 \in Int
  BY ClockAssumption
<1>2. IsFiniteSet(0 .. MaxClock)
  BY <1>1, FS_Interval
<1> QED BY <1>2 DEF Instant

\* The units before b are those before a and those from a up to b; there are
\* none from b up to an earlier instant.
LEMMA SpendAddsUp ==
  ASSUME NEW S \in SUBSET Instant, NEW a \in Nat, NEW b \in Nat
  PROVE  /\ Within(S, a, b) \in Nat
         /\ a <= b => Within(S, 0, b) = Within(S, 0, a) + Within(S, a, b)
         /\ b <= a => Within(S, a, b) = 0
<1> DEFINE Part(x, y) == {i \in S : x <= i /\ i < y}
<1>1. IsFiniteSet(S) /\ \A i \in S : i \in Nat
  BY InstantsAreFinite, FS_Subset
<1>2. ASSUME NEW x \in Nat, NEW y \in Nat
      PROVE  IsFiniteSet(Part(x, y)) /\ Cardinality(Part(x, y)) \in Nat
  <2>1. Part(x, y) \in SUBSET S
    OBVIOUS
  <2> HIDE DEF Part
  <2> QED BY <1>1, <2>1, FS_Subset, FS_CardinalityType
<1>3. ASSUME a <= b
      PROVE  Cardinality(Part(0, b)) = Cardinality(Part(0, a)) + Cardinality(Part(a, b))
  <2>1. ASSUME NEW i \in S
        PROVE  /\ 0 <= i
               /\ (i < b) <=> (i < a \/ (a <= i /\ i < b))
               /\ ~ (i < a /\ a <= i)
    <3>1. i \in Nat
      BY <1>1
    <3> QED BY <1>3, <3>1
  <2>2. Part(0, b) = Part(0, a) \cup Part(a, b) /\ Part(0, a) \cap Part(a, b) = {}
    BY <2>1
  <2>3. /\ IsFiniteSet(Part(0, a)) /\ Cardinality(Part(0, a)) \in Nat
        /\ IsFiniteSet(Part(a, b)) /\ Cardinality(Part(a, b)) \in Nat
    BY <1>2
  <2> HIDE DEF Part
  <2>4. Cardinality(Part(0, b)) = Cardinality(Part(0, a)) + Cardinality(Part(a, b)) - Cardinality({})
    BY <2>2, <2>3, FS_Union
  <2> QED BY <2>3, <2>4, FS_EmptySet
<1>4. ASSUME b <= a PROVE Cardinality(Part(a, b)) = 0
  <2>1. \A i \in S : ~ (a <= i /\ i < b)
    BY <1>1, <1>4
  <2>2. Part(a, b) = {}
    BY <2>1
  <2> QED BY <2>2, FS_EmptySet
<1>5. \A x, y : Within(S, x, y) = Cardinality(Part(x, y))
  BY DEF Within
<1> HIDE DEF Part
<1> QED BY <1>2, <1>3, <1>4, <1>5

\* Spend is traced or not: the two counts add up.
LEMMA TracedOrNot ==
  ASSUME NEW S \in SUBSET Instant, NEW T \in SUBSET Instant, S \cap T = {}, NEW b \in Nat
  PROVE  Within(S \cup T, 0, b) = Within(S, 0, b) + Within(T, 0, b)
<1> DEFINE Part(X) == {i \in X : 0 <= i /\ i < b}
<1>1. ASSUME NEW X \in SUBSET Instant
      PROVE  IsFiniteSet(Part(X)) /\ Cardinality(Part(X)) \in Nat
  <2>1. Part(X) \in SUBSET Instant
    OBVIOUS
  <2> HIDE DEF Part
  <2>2. IsFiniteSet(Part(X))
    BY <2>1, InstantsAreFinite, FS_Subset
  <2> QED BY <2>2, FS_CardinalityType
<1>2. Part(S \cup T) = Part(S) \cup Part(T) /\ Part(S) \cap Part(T) = {}
  OBVIOUS
<1>3. \A X : Within(X, 0, b) = Cardinality(Part(X))
  BY DEF Within
<1> HIDE DEF Part
<1>4. /\ IsFiniteSet(Part(S)) /\ Cardinality(Part(S)) \in Nat
      /\ IsFiniteSet(Part(T)) /\ Cardinality(Part(T)) \in Nat
  BY <1>1
<1>5. Cardinality(Part(S \cup T)) = Cardinality(Part(S)) + Cardinality(Part(T)) - Cardinality({})
  <2>1. Cardinality(Part(S) \cup Part(T))
          = Cardinality(Part(S)) + Cardinality(Part(T)) - Cardinality(Part(S) \cap Part(T))
    BY <1>4, FS_Union
  <2> QED BY <1>2, <2>1, Zenon
<1>6. Cardinality(Part(S \cup T)) = Cardinality(Part(S)) + Cardinality(Part(T))
  BY <1>4, <1>5, FS_EmptySet
<1>7. /\ Within(S \cup T, 0, b) = Cardinality(Part(S \cup T))
      /\ Within(S, 0, b) = Cardinality(Part(S))
      /\ Within(T, 0, b) = Cardinality(Part(T))
  BY <1>3
<1> QED BY <1>6, <1>7

\* What a comparison reports, from its two exact readings: with N(x) the traced
\* spend before x, it differs from the untraced spend between the readings by
\* N(read) - N(clock) + N(start) - N(priorRead), where the query's window starts
\* at `start`; both differences are between instants that the slack covers.
LEMMA DriftOfReadings == IInv /\ Readings => DriftIsUntraced
<1> SUFFICES ASSUME IInv, Readings, NEW r \in Comparing
             PROVE  LET now == run[r]
                        p == now.project
                        firstEnd == Later(now.prior.read, now.prior.at + (clock - now.at))
                        slack == Within(traced[p], now.prior.at, firstEnd)
                                   + Within(traced[p], now.at, clock)
                    IN  Abs(Drift(r) - Between(untraced[p], now.prior.read, now.read)) <= slack
  BY DEF DriftIsUntraced
<1> DEFINE p == run[r].project
           T == traced[p]
           U == untraced[p]
           at == run[r].at
           read == run[r].read
           priorAt == run[r].prior.at
           priorRead == run[r].prior.read
           firstEnd == Later(priorRead, priorAt + (clock - at))
           start == clock - Interval(r)
<1>1. r \in Runner /\ run[r].pc = "langfuse"
  BY DEF Comparing
<1>2. p \in Project /\ run[r] \in RunRecord /\ clock \in Instant
  BY <1>1 DEF IInv, TypeOK, RunRecord, AtProject, InProject
<1>3. T \in SUBSET Instant /\ U \in SUBSET Instant /\ T \cap U = {}
  BY <1>2 DEF IInv, TypeOK, Readings, SpendIsPast
<1>4. Exact(p, run[r]) /\ Exact(p, run[r].prior) /\ run[r].prior # None
  BY <1>1 DEF Readings, RunExact
<1>5. run[r].prior \in Snapshot
  BY <1>2, <1>4 DEF RunRecord
<1>6. Instant \in SUBSET Nat
  BY DEF Instant
<1>7. at \in Nat /\ read \in Nat /\ priorAt \in Nat /\ priorRead \in Nat /\ clock \in Nat
  BY <1>2, <1>5, <1>6 DEF RunRecord, Snapshot
<1>8. at <= read /\ read <= clock /\ priorAt <= priorRead /\ priorRead <= clock
  BY <1>4 DEF Exact
<1>9. /\ run[r].cum = Within(T, 0, read) + Within(U, 0, read)
      /\ run[r].prior.cum = Within(T, 0, priorRead) + Within(U, 0, priorRead)
  <2>1. /\ run[r].cum = Within(T \cup U, 0, read)
        /\ run[r].prior.cum = Within(T \cup U, 0, priorRead)
    BY <1>4 DEF Exact, Spend
  <2> HIDE DEF T, U, read, priorRead
  <2> QED BY <1>3, <1>7, <2>1, TracedOrNot
<1>10. /\ start \in Nat /\ firstEnd \in Nat
       /\ priorAt <= start /\ start <= firstEnd /\ start <= clock
       /\ priorAt <= priorRead /\ priorRead <= firstEnd
  <2>1. start = clock - Later(0, at - priorAt)
    BY DEF Interval
  <2> HIDE DEF start, at, priorAt, priorRead
  <2> QED BY <1>7, <1>8, <2>1 DEF Later
<1>11. Drift(r) = run[r].cum - run[r].prior.cum - Within(T, start, clock)
  BY DEF Drift, Delta, TracedCost
<1> HIDE DEF p, T, U, at, read, priorAt, priorRead, firstEnd, start
<1>12. /\ Within(U, 0, read) \in Nat /\ Within(U, 0, priorRead) \in Nat
       /\ Between(U, priorRead, read) = Within(U, 0, read) - Within(U, 0, priorRead)
  <2>1. Within(U, 0, read) \in Nat /\ Within(U, 0, priorRead) \in Nat
    BY <1>3, <1>7, SpendAddsUp
  <2>2. CASE priorRead <= read
    BY <1>3, <1>7, <2>1, <2>2, SpendAddsUp DEF Between
  <2>3. CASE read <= priorRead
    BY <1>3, <1>7, <2>1, <2>3, SpendAddsUp DEF Between
  <2> QED BY <1>7, <2>1, <2>2, <2>3
<1>13. \A x \in Nat : Within(T, 0, x) \in Nat
  BY <1>3, SpendAddsUp
<1>14. ASSUME NEW x \in Nat, NEW y \in Nat, x <= y
       PROVE  /\ Within(T, x, y) = Within(T, 0, y) - Within(T, 0, x)
              /\ Within(T, 0, x) <= Within(T, 0, y)
  <2>1. Within(T, x, y) \in Nat /\ Within(T, 0, y) = Within(T, 0, x) + Within(T, x, y)
    BY <1>3, <1>14, SpendAddsUp
  <2>2. Within(T, 0, x) \in Nat /\ Within(T, 0, y) \in Nat
    BY <1>13
  <2> QED BY <2>1, <2>2
<1>15. /\ Within(T, priorAt, firstEnd) = Within(T, 0, firstEnd) - Within(T, 0, priorAt)
       /\ Within(T, at, clock) = Within(T, 0, clock) - Within(T, 0, at)
       /\ Within(T, start, clock) = Within(T, 0, clock) - Within(T, 0, start)
  <2>1. priorAt <= firstEnd
    BY <1>7, <1>10
  <2>2. at <= clock
    BY <1>7, <1>8
  <2>3. Within(T, priorAt, firstEnd) = Within(T, 0, firstEnd) - Within(T, 0, priorAt)
    BY <1>7, <1>10, <1>14, <2>1
  <2>4. Within(T, at, clock) = Within(T, 0, clock) - Within(T, 0, at)
    BY <1>7, <1>14, <2>2
  <2>5. Within(T, start, clock) = Within(T, 0, clock) - Within(T, 0, start)
    BY <1>7, <1>10, <1>14
  <2> QED BY <2>3, <2>4, <2>5
<1>16. /\ Within(T, 0, at) <= Within(T, 0, read) /\ Within(T, 0, read) <= Within(T, 0, clock)
       /\ Within(T, 0, priorAt) <= Within(T, 0, start)
       /\ Within(T, 0, start) <= Within(T, 0, firstEnd)
       /\ Within(T, 0, priorAt) <= Within(T, 0, priorRead)
       /\ Within(T, 0, priorRead) <= Within(T, 0, firstEnd)
  <2>1. Within(T, 0, at) <= Within(T, 0, read) /\ Within(T, 0, read) <= Within(T, 0, clock)
    BY <1>7, <1>8, <1>14
  <2>2. Within(T, 0, priorAt) <= Within(T, 0, start) /\ Within(T, 0, start) <= Within(T, 0, firstEnd)
    BY <1>7, <1>10, <1>14
  <2>3. /\ Within(T, 0, priorAt) <= Within(T, 0, priorRead)
        /\ Within(T, 0, priorRead) <= Within(T, 0, firstEnd)
    BY <1>7, <1>10, <1>14
  <2> QED BY <2>1, <2>2, <2>3
<1>17. /\ Drift(r) - Between(U, priorRead, read) \in Int
       /\ Abs(Drift(r) - Between(U, priorRead, read))
            <= Within(T, priorAt, firstEnd) + Within(T, at, clock)
  <2>1. /\ Within(T, 0, at) \in Nat /\ Within(T, 0, read) \in Nat /\ Within(T, 0, clock) \in Nat
        /\ Within(T, 0, priorAt) \in Nat /\ Within(T, 0, priorRead) \in Nat
        /\ Within(T, 0, start) \in Nat /\ Within(T, 0, firstEnd) \in Nat
    BY <1>7, <1>10, <1>13
  <2>2. Drift(r) - Between(U, priorRead, read)
          = (Within(T, 0, read) - Within(T, 0, clock)) + (Within(T, 0, start) - Within(T, 0, priorRead))
    BY <1>9, <1>11, <1>12, <1>15, <2>1
  <2> QED BY <1>15, <1>16, <2>1, <2>2 DEF Abs
<1> QED BY <1>17 DEF p, T, U, at, read, priorAt, priorRead, firstEnd

\* The readings are exact in every behaviour.
LEMMA ReadingsInvariance == Spec => [](IInv /\ Readings)
<1>1. Init => IInv /\ Readings
  BY InitIInv, InitReadings
<1>2. IInv /\ Readings /\ [Next]_vars => (IInv /\ Readings)'
  BY NextIInv, NextReadings
<1> QED BY <1>1, <1>2, PTL DEF Spec

\* Whenever Langfuse answers, the drift a run reports is spend that Langfuse did
\* not trace, up to the traced spend at the two ends of the interval
\* (reconcile.py:126-220), however runs overlap, fail or die.
THEOREM DriftFindsUntraced == Spec => []DriftIsUntraced
<1>1. IInv /\ Readings => DriftIsUntraced
  BY DriftOfReadings
<1> QED BY <1>1, ReadingsInvariance, PTL

=============================================================================
