------------------------------ MODULE Lifespan ------------------------------
(***************************************************************************)
(* The life of one server process and its background loops (app.py): the   *)
(* start-up refresh, the loops it starts, their failures, and the orderly  *)
(* shutdown.                                                               *)
(*                                                                         *)
(* A loop alternates between its work and asyncio.sleep; both are awaits,  *)
(* where a cancellation ends it.  What the work does to the data is the    *)
(* subject of Reconcile and CostService; here it counts that it runs,      *)
(* whether it fails or raises, and, for the mill, the gauge it sets.       *)
(***************************************************************************)
EXTENDS Integers

CONSTANTS
  MaxStuck,   \* bound on the number of stuck tickets on the mill's board
  None        \* absent

ASSUME MaxStuckAssumption == MaxStuck \in Nat

\* "warm" is the one-shot warm-up of the start, the others repeat.
Periodic == {"reconcile", "refresh", "poll", "stuck"}
Loop == Periodic \cup {"warm"}

VARIABLES
  configured,  \* the loops whose interval is above zero (and a mill is set)
  phase,       \* of the process; "failed" when the lifespan ends by an exception
  projects,    \* whether _project_map holds a project
  loop,        \* the background tasks; "raised" when one ended by an exception
  awaited,     \* the tasks that the shutdown has awaited
  mill,        \* whether the mill's HTTP client is open
  board,       \* the mill's board: stuck tickets, and whether one has no updated_at
  answer,      \* the board as the mill read it for the check under way, None before
  gauge,       \* the metric stuck_ticket_count
  ran          \* history: reconciliation has run with projects at hand

vars == <<configured, phase, projects, loop, awaited, mill, board, answer, gauge, ran>>
tickets == <<mill, board, answer, gauge>>

-----------------------------------------------------------------------------
Alive == {"working", "sleeping", "cancelling"}

Board == [count : 0 .. MaxStuck, null : BOOLEAN]

TypeOK ==
  /\ configured \subseteq Periodic
  /\ phase \in {"starting", "serving", "stopping", "stopped", "failed"}
  /\ projects \in BOOLEAN
  /\ loop \in [Loop -> Alive \cup {"off", "ended", "raised"}]
  /\ awaited \subseteq Loop
  /\ mill \in {"open", "closed"}
  /\ board \in Board
  /\ answer \in Board \cup {None}
  /\ gauge \in 0 .. MaxStuck
  /\ ran \in BOOLEAN

Init ==
  /\ configured \in SUBSET Periodic
  /\ phase = "starting"
  /\ projects = FALSE
  /\ loop = [l \in Loop |-> "off"]
  /\ awaited = {}
  /\ mill = "closed"
  /\ board \in Board
  /\ answer = None
  /\ gauge = 0
  /\ ran = FALSE

-----------------------------------------------------------------------------
(* Start-up.                                                               *)

\* The loops that start, given whether the start-up refresh found projects.
Started(found) ==
  {"warm"} \cup (configured \cap (IF found THEN Periodic ELSE {"poll", "stuck"}))

\* Two of the loops sleep first.
FirstState(l) == IF l \in {"refresh", "poll"} THEN "sleeping" ELSE "working"

\* The first check of the mill's board opens the client.
Opened(l) == IF l = "stuck" THEN "open" ELSE mill

\* lifespan, up to its yield.
StartUp ==
  /\ phase = "starting"
  /\ \E found \in BOOLEAN :
       /\ projects' = found
       /\ loop' = [l \in Loop |-> IF l \in Started(found) THEN FirstState(l) ELSE "off"]
       /\ mill' = IF "stuck" \in Started(found) THEN Opened("stuck") ELSE mill
  /\ phase' = "serving"
  /\ UNCHANGED <<configured, awaited, board, answer, gauge, ran>>

\* refresh_projects makes the clients of the projects outside its try, where the
\* constructor of the library's client may raise.
StartUpRaises ==
  /\ phase = "starting"
  /\ projects' = TRUE
  /\ phase' = "failed"
  /\ UNCHANGED <<configured, loop, awaited, tickets, ran>>

-----------------------------------------------------------------------------
(* The loops.                                                              *)

Wake(l) ==
  /\ loop[l] = "sleeping"
  /\ loop' = [loop EXCEPT ![l] = "working"]
  /\ mill' = Opened(l)
  /\ UNCHANGED <<configured, phase, projects, awaited, board, answer, gauge, ran>>


\* The work is over, done or failed inside the try of the loop's body.
Rest(l) ==
  /\ loop' = [loop EXCEPT ![l] = IF l = "warm" THEN "ended" ELSE "sleeping"]
  /\ ran' = (ran \/ (l = "reconcile" /\ projects))

\* reconcile_all, _warm_cache: done, or their exception is logged.
WorkEnds(l) ==
  /\ l \in {"reconcile", "refresh", "warm"}
  /\ loop[l] = "working"
  /\ Rest(l)
  /\ UNCHANGED <<configured, phase, projects, awaited, tickets>>

\* refresh_projects with a registry that names projects.
PollFinds ==
  /\ loop["poll"] = "working"
  /\ projects' = TRUE
  /\ Rest("poll")
  /\ UNCHANGED <<configured, phase, awaited, tickets>>

\* refresh_projects with a registry that fails or names none: nothing changes.
PollFindsNone ==
  /\ loop["poll"] = "working"
  /\ Rest("poll")
  /\ UNCHANGED <<configured, phase, projects, awaited, tickets>>

\* A client cannot be made, after the projects were replaced: the loop has no try.
PollRaises ==
  /\ loop["poll"] = "working"
  /\ projects' = TRUE
  /\ loop' = [loop EXCEPT !["poll"] = "raised"]
  /\ UNCHANGED <<configured, phase, awaited, tickets, ran>>

-----------------------------------------------------------------------------
(* The check of the mill's board.                                          *)

\* The mill reads its board, some time during the await.
BoardRead ==
  /\ loop["stuck"] = "working"
  /\ answer = None
  /\ answer' = board
  /\ UNCHANGED <<configured, phase, projects, loop, awaited, mill, board, gauge, ran>>

\* Its answer has arrived: the gauge takes the count.
CheckSucceeds ==
  /\ loop["stuck"] = "working"
  /\ answer # None /\ ~ answer.null
  /\ gauge' = answer.count
  /\ answer' = None
  /\ Rest("stuck")
  /\ UNCHANGED <<configured, phase, projects, awaited, mill, board>>

\* A ticket whose updated_at is null: .replace raises what the parser's except
\* does not catch, the loop logs it, and the gauge keeps its value.
CheckRaises ==
  /\ loop["stuck"] = "working"
  /\ answer # None /\ answer.null
  /\ answer' = None
  /\ Rest("stuck")
  /\ UNCHANGED <<configured, phase, projects, awaited, mill, board, gauge>>

\* Mutant: a failed check counts as one without stuck tickets.
CheckFailsClear ==
  /\ loop["stuck"] = "working"
  /\ gauge' = 0
  /\ answer' = None
  /\ Rest("stuck")
  /\ UNCHANGED <<configured, phase, projects, awaited, mill, board>>

\* MillAPIError, before or after the mill has read its board: the gauge keeps its
\* value.
CheckFails ==
  /\ loop["stuck"] = "working"
  /\ answer' = None
  /\ Rest("stuck")
  /\ UNCHANGED <<configured, phase, projects, awaited, mill, board, gauge>>

-----------------------------------------------------------------------------
(* Shutdown: cancel every task, await them in turn, close the mill's client. *)

\* Mutant: a loop in the middle of its work is not cancelled.
StopSleeping ==
  /\ phase = "serving"
  /\ phase' = "stopping"
  /\ loop' = [l \in Loop |-> IF loop[l] = "sleeping" THEN "cancelling" ELSE loop[l]]
  /\ UNCHANGED <<configured, projects, awaited, tickets, ran>>

Stop ==
  /\ phase = "serving"
  /\ phase' = "stopping"
  /\ loop' = [l \in Loop |-> IF loop[l] \in Alive THEN "cancelling" ELSE loop[l]]
  /\ UNCHANGED <<configured, projects, awaited, tickets, ran>>

Cancelled(l) ==
  /\ loop[l] = "cancelling"
  /\ loop' = [loop EXCEPT ![l] = "ended"]
  /\ answer' = IF l = "stuck" THEN None ELSE answer
  /\ UNCHANGED <<configured, phase, projects, awaited, mill, board, gauge, ran>>

\* The order of the list `tasks`.
Place == [reconcile |-> 1, refresh |-> 2, warm |-> 3, poll |-> 4, stuck |-> 5]

\* The shutdown has come to task l.
AtTask(l) ==
  /\ phase = "stopping"
  /\ l \notin awaited
  /\ \A k \in Loop : Place[k] < Place[l] => k \in awaited

\* Mutant: the cancelled tasks are not awaited.
AwaitAny(l) ==
  /\ AtTask(l)
  /\ loop[l] # "raised"
  /\ awaited' = awaited \cup {l}
  /\ UNCHANGED <<configured, phase, projects, loop, tickets, ran>>

\* "await t" returns once t has ended, its CancelledError suppressed.
Await(l) ==
  /\ AtTask(l)
  /\ loop[l] \in {"off", "ended"}
  /\ awaited' = awaited \cup {l}
  /\ UNCHANGED <<configured, phase, projects, loop, tickets, ran>>

\* "await t" raises what t ended by: no later task is awaited, no client closed.
AwaitRaises(l) ==
  /\ AtTask(l)
  /\ loop[l] = "raised"
  /\ phase' = "failed"
  /\ UNCHANGED <<configured, projects, loop, awaited, tickets, ran>>

Close ==
  /\ phase = "stopping"
  /\ awaited = Loop
  /\ phase' = "stopped"
  /\ mill' = "closed"
  /\ UNCHANGED <<configured, projects, loop, awaited, board, answer, gauge, ran>>

-----------------------------------------------------------------------------
\* Tickets get stuck and move on, lose their updated_at and get one.
BoardChanges ==
  /\ \E b \in Board : board' = b
  /\ UNCHANGED <<configured, phase, projects, loop, awaited, mill, answer, gauge, ran>>

Poll == PollFinds \/ PollFindsNone \/ PollRaises
Check == BoardRead \/ CheckSucceeds \/ CheckRaises \/ CheckFails

LoopStep(l) ==
  \/ Wake(l)
  \/ WorkEnds(l)
  \/ Cancelled(l)
  \/ l = "poll" /\ Poll
  \/ l = "stuck" /\ Check

Shutdown ==
  \/ \E l \in Loop : Await(l) \/ AwaitRaises(l)
  \/ Close

Next ==
  \/ StartUp
  \/ StartUpRaises
  \/ \E l \in Loop : LoopStep(l)
  \/ Stop
  \/ Shutdown
  \/ BoardChanges

Spec == Init /\ [][Next]_vars

\* The event loop runs every task that is ready, timers fire, and every await
\* of a loop's work has a timeout.  Nothing makes the registry or the mill answer
\* or the process stop.
FairSpec ==
  /\ Spec
  /\ WF_vars(StartUp \/ StartUpRaises) /\ WF_vars(Shutdown)
  /\ \A l \in Loop : WF_vars(LoopStep(l))

-----------------------------------------------------------------------------
(* Properties.                                                             *)

\* A shutdown that comes to its end leaves neither a task nor an open client
\* behind (app.py:287-292): a task that still lived could open the client again
\* (mill.py:109-112), and nobody would close it.
MillClosedLast ==
  phase = "stopped" => mill = "closed" /\ \A l \in Loop : loop[l] \notin Alive

\* Every await of the shutdown returns, and the shutdown comes to its end
\* (app.py:286-292), also when it begins while loops are in the middle of their
\* work, unless the registry poll had ended by an exception before.
ShutdownCompletes == (phase = "stopping" /\ loop["poll"] # "raised") ~> (phase = "stopped")


\* "A failed check must never reset stuck_ticket_count" (app.py:136-138): when
\* the board stays as it is and can be read, and checks succeed again and again,
\* the gauge comes to show the board and keeps showing it, whatever older boards
\* late answers carried and however many checks fail in between.
GaugeFollowsBoard ==
  \A n \in 0 .. MaxStuck :
    ([]<><<CheckSucceeds>>_vars /\ <>[](board = [count |-> n, null |-> FALSE]))
      => <>[](gauge = n)

\* "Each run queries GET /tickets and logs a warning for every ticket whose
\* updated_at is older" (app.py:134-135), and only an unreachable mill keeps the
\* gauge (app.py:136): when the board stays as it is and the mill answers again and
\* again, the gauge comes to show it.  Does not hold of the code: while one
\* ticket's updated_at is null every check raises (mill.py:164-168).
StuckTicketsShow ==
  \A b \in Board :
    ([]<><<CheckSucceeds \/ CheckRaises>>_vars /\ <>[](board = b))
      => <>[](gauge = b.count)

\* config.py:115-121: with reconcile_schedule_hours above zero reconciliation
\* runs "every N hours".  Does not hold of the code: when the registry did not
\* answer at start-up the loop is not started, and finding the projects later
\* does not start it.
ReconcileIsScheduled ==
  (phase = "serving" /\ projects /\ "reconcile" \in configured)
    ~> (ran \/ phase # "serving" \/ loop["poll"] = "raised")

=============================================================================
