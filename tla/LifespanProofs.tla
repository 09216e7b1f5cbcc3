---------------------------- MODULE LifespanProofs ----------------------------
(***************************************************************************)
(* Proofs about Lifespan: a shutdown that comes to its end leaves neither  *)
(* a task nor an open client behind, whatever ended which task before.     *)
(*                                                                         *)
(* MillClosedLast is not inductive.  The shutdown awaits one task at a     *)
(* time while the others go on, so it needs that what was awaited stays    *)
(* ended until the close (Awaited), and that no task can come back to life *)
(* after the cancellation and open the client again (PhaseInv).            *)
(***************************************************************************)
EXTENDS Lifespan, TLAPS

\* Which tasks may live in which phase.
PhaseInv ==
  /\ phase = "starting" => \A l \in Loop : loop[l] = "off"
  /\ phase \in {"starting", "serving"} => awaited = {}
  /\ phase # "serving" => \A l \in Loop : loop[l] \notin {"working", "sleeping"}

\* A task that was awaited has ended.
Awaited == \A l \in awaited : loop[l] \notin Alive

IInv == TypeOK /\ PhaseInv /\ Awaited /\ MillClosedLast

\* At the start every loop is off and the client closed.
LEMMA InitIInv == Init => IInv
<1> SUFFICES ASSUME Init PROVE IInv
  OBVIOUS
<1>1. TypeOK
  <2>1. projects \in BOOLEAN /\ configured \subseteq Periodic /\ ran \in BOOLEAN
    BY Zenon DEF Init
  <2>2. gauge \in 0 .. MaxStuck
    BY MaxStuckAssumption DEF Init
  <2> QED BY <2>1, <2>2 DEF Init, TypeOK
<1>2. PhaseInv /\ Awaited /\ MillClosedLast
  BY DEF Init, PhaseInv, Awaited, MillClosedLast
<1> QED BY <1>1, <1>2 DEF IInv

\* The process starts to serve, with the loops that its configuration asks for.
LEMMA StartUpKeepsIInv ==
  ASSUME IInv, StartUp
  PROVE  IInv'
<1>1. PICK found \in BOOLEAN :
         /\ projects' = found
         /\ loop' = [l \in Loop |-> IF l \in Started(found) THEN FirstState(l) ELSE "off"]
         /\ mill' = IF "stuck" \in Started(found) THEN Opened("stuck") ELSE mill
  BY DEF StartUp
<1>2. mill' \in {"open", "closed"}
  BY <1>1 DEF IInv, TypeOK, Opened
<1>3. loop' \in [Loop -> Alive \cup {"off", "ended", "raised"}]
  BY <1>1 DEF FirstState, Alive
<1>4. TypeOK'
  BY <1>1, <1>2, <1>3 DEF IInv, TypeOK, StartUp
<1>5. awaited = {}
  BY DEF IInv, PhaseInv, Awaited, StartUp
<1> QED BY <1>4, <1>5 DEF IInv, PhaseInv, Awaited, MillClosedLast, StartUp

\* A client cannot be made at the start: no task was created.
LEMMA StartUpRaisesKeepsIInv ==
  ASSUME IInv, StartUpRaises
  PROVE  IInv'
<1>1. TypeOK'
  BY DEF IInv, TypeOK, StartUpRaises, tickets
<1>2. PhaseInv' /\ Awaited' /\ MillClosedLast'
  BY DEF IInv, PhaseInv, Awaited, MillClosedLast, StartUpRaises, tickets
<1> QED BY <1>1, <1>2 DEF IInv

\* A loop's step: it may sleep, work, end or raise, opens the client only when it
\* works, and no cancelled task does anything but end.
LEMMA LoopKeepsIInv ==
  ASSUME IInv, NEW l \in Loop, NEW to \in {"working", "sleeping", "ended", "raised"},
         loop' = [loop EXCEPT ![l] = to],
         \/ loop[l] \in {"working", "sleeping"}
         \/ loop[l] = "cancelling" /\ to = "ended",
         UNCHANGED <<configured, phase, awaited, board>>,
         mill' \in {"open", "closed"}, answer' \in Board \cup {None},
         projects' \in BOOLEAN, gauge' \in 0 .. MaxStuck, ran' \in BOOLEAN
  PROVE  IInv'
<1>1. loop \in [Loop -> Alive \cup {"off", "ended", "raised"}]
  BY DEF IInv, TypeOK
<1>2. loop'[l] = to /\ \A k \in Loop \ {l} : loop'[k] = loop[k]
  BY <1>1
<1>3. TypeOK'
  BY <1>1 DEF IInv, TypeOK, Alive
<1>4. loop[l] \in Alive /\ loop[l] # "off"
  BY DEF Alive
<1>5. phase # "starting" /\ phase # "stopped" /\ l \notin awaited
  BY <1>4 DEF IInv, PhaseInv, Awaited, MillClosedLast
<1>6. PhaseInv'
  BY <1>2, <1>5 DEF IInv, PhaseInv
<1>7. Awaited' /\ MillClosedLast'
  BY <1>2, <1>5 DEF IInv, TypeOK, Awaited, MillClosedLast
<1> QED BY <1>3, <1>6, <1>7 DEF IInv

\* The work of a loop ends: it sleeps, or, the warm-up, is over.
LEMMA RestKeepsIInv ==
  ASSUME IInv, NEW l \in Loop, loop[l] = "working", Rest(l),
         UNCHANGED <<configured, phase, awaited, mill, board>>,
         answer' \in Board \cup {None},
         projects' \in BOOLEAN, gauge' \in 0 .. MaxStuck
  PROVE  IInv'
<1> DEFINE to == IF l = "warm" THEN "ended" ELSE "sleeping"
<1>1. to \in {"working", "sleeping", "ended", "raised"} /\ loop' = [loop EXCEPT ![l] = to]
  BY DEF Rest
<1>2. ran' \in BOOLEAN /\ mill' \in {"open", "closed"}
  BY DEF IInv, TypeOK, Rest
<1> HIDE DEF to
<1> QED BY <1>1, <1>2, LoopKeepsIInv

\* One case per step of a loop.
LEMMA LoopStepKeepsIInv ==
  ASSUME IInv, NEW l \in Loop, LoopStep(l)
  PROVE  IInv'
<1>1. /\ projects \in BOOLEAN /\ gauge \in 0 .. MaxStuck /\ board \in Board
      /\ answer \in Board \cup {None} /\ ran \in BOOLEAN /\ mill \in {"open", "closed"}
      /\ "poll" \in Loop /\ "stuck" \in Loop
  BY DEF IInv, TypeOK, Loop, Periodic
<1>2. CASE Wake(l)
  <2>1. mill' \in {"open", "closed"}
    BY <1>1, <1>2 DEF Wake, Opened
  <2> QED BY <1>1, <1>2, <2>1, LoopKeepsIInv DEF Wake
<1>3. CASE WorkEnds(l)
  BY <1>1, <1>3, RestKeepsIInv DEF WorkEnds, tickets
<1>4. CASE Cancelled(l)
  <2>1. answer' \in Board \cup {None}
    BY <1>1, <1>4 DEF Cancelled
  <2> QED BY <1>1, <1>4, <2>1, LoopKeepsIInv DEF Cancelled
<1>5. CASE PollFinds
  BY <1>1, <1>5, RestKeepsIInv DEF PollFinds, tickets
<1>6. CASE PollFindsNone
  BY <1>1, <1>6, RestKeepsIInv DEF PollFindsNone, tickets
<1>7. CASE PollRaises
  BY <1>1, <1>7, LoopKeepsIInv DEF PollRaises, tickets
<1>8. CASE BoardRead
  BY <1>1, <1>8 DEF BoardRead, IInv, TypeOK, PhaseInv, Awaited, MillClosedLast
<1>9. CASE CheckSucceeds
  <2>1. gauge' \in 0 .. MaxStuck
    BY <1>1, <1>9 DEF CheckSucceeds, Board
  <2> QED BY <1>1, <1>9, <2>1, RestKeepsIInv DEF CheckSucceeds
<1>10. CASE CheckRaises
  BY <1>1, <1>10, RestKeepsIInv DEF CheckRaises
<1>11. CASE CheckFails
  BY <1>1, <1>11, RestKeepsIInv DEF CheckFails
<1> QED
  BY <1>2, <1>3, <1>4, <1>5, <1>6, <1>7, <1>8, <1>9, <1>10, <1>11 DEF LoopStep, Poll, Check

\* The shutdown cancels what lives.
LEMMA StopKeepsIInv ==
  ASSUME IInv, Stop
  PROVE  IInv'
<1>1. loop \in [Loop -> Alive \cup {"off", "ended", "raised"}]
  BY DEF IInv, TypeOK
<1>2. loop' = [l \in Loop |-> IF loop[l] \in Alive THEN "cancelling" ELSE loop[l]]
  BY DEF Stop
<1>3. loop' \in [Loop -> Alive \cup {"off", "ended", "raised"}]
  BY <1>1, <1>2 DEF Alive
<1>4. \A l \in Loop : loop'[l] \notin {"working", "sleeping"}
  BY <1>2 DEF Alive
<1>5. awaited = {} /\ awaited' = {} /\ phase' = "stopping"
  BY DEF IInv, PhaseInv, Stop
<1>6. TypeOK'
  BY <1>3, <1>5 DEF IInv, TypeOK, Stop, tickets
<1> QED BY <1>4, <1>5, <1>6 DEF IInv, PhaseInv, Awaited, MillClosedLast

\* The shutdown awaits the next task, or is ended by what that task raised, or
\* closes the client after the last.
LEMMA ShutdownKeepsIInv ==
  ASSUME IInv, Shutdown
  PROVE  IInv'
<1>1. ASSUME NEW l \in Loop, Await(l) PROVE IInv'
  <2>1. TypeOK'
    BY <1>1 DEF IInv, TypeOK, Await, tickets
  <2>2. PhaseInv' /\ MillClosedLast'
    BY <1>1 DEF IInv, PhaseInv, MillClosedLast, Await, AtTask
  <2>3. Awaited'
    BY <1>1 DEF IInv, Awaited, Await, Alive
  <2> QED BY <2>1, <2>2, <2>3 DEF IInv
<1>2. ASSUME NEW l \in Loop, AwaitRaises(l) PROVE IInv'
  <2>1. TypeOK'
    BY <1>2 DEF IInv, TypeOK, AwaitRaises, tickets
  <2>2. PhaseInv' /\ MillClosedLast' /\ Awaited'
    BY <1>2 DEF IInv, PhaseInv, Awaited, MillClosedLast, AwaitRaises, AtTask
  <2> QED BY <2>1, <2>2 DEF IInv
<1>3. CASE Close
  <2>1. TypeOK'
    BY <1>3 DEF IInv, TypeOK, Close
  <2>2. \A l \in Loop : loop[l] \notin Alive
    BY <1>3 DEF IInv, Awaited, Close
  <2>3. PhaseInv' /\ Awaited' /\ MillClosedLast'
    BY <1>3, <2>2 DEF IInv, PhaseInv, Awaited, MillClosedLast, Close
  <2> QED BY <2>1, <2>3 DEF IInv
<1> QED BY <1>1, <1>2, <1>3 DEF Shutdown

\* One case per action.
LEMMA NextIInv == IInv /\ [Next]_vars => IInv'
<1> SUFFICES ASSUME IInv, [Next]_vars PROVE IInv'
  OBVIOUS
<1>1. CASE StartUp
  BY <1>1, StartUpKeepsIInv
<1>2. CASE StartUpRaises
  BY <1>2, StartUpRaisesKeepsIInv
<1>3. CASE \E l \in Loop : LoopStep(l)
  BY <1>3, LoopStepKeepsIInv
<1>4. CASE Stop
  BY <1>4, StopKeepsIInv
<1>5. CASE Shutdown
  BY <1>5, ShutdownKeepsIInv
<1>6. CASE BoardChanges
  <2>1. board' \in Board
    BY <1>6 DEF BoardChanges
  <2> QED
    BY <1>6, <2>1 DEF IInv, TypeOK, PhaseInv, Awaited, MillClosedLast, BoardChanges
<1>7. CASE UNCHANGED vars
  BY <1>7 DEF IInv, TypeOK, PhaseInv, Awaited, MillClosedLast, vars
<1> QED BY <1>1, <1>2, <1>3, <1>4, <1>5, <1>6, <1>7 DEF Next

\* The inductive invariant holds in every behaviour.
LEMMA Invariance == Spec => []IInv
<1>1. Init => IInv
  BY InitIInv
<1>2. IInv /\ [Next]_vars => IInv'
  BY NextIInv
<1> QED BY <1>1, <1>2, PTL DEF Spec

\* The process, its tasks and the gauge keep their types (app.py:251-292), for
\* any bound on the board.
THEOREM TypeCorrect == Spec => []TypeOK
<1>1. IInv => TypeOK
  BY DEF IInv
<1> QED BY <1>1, Invariance, PTL

\* However the tasks end, and in whatever order while they are awaited one by one,
\* a shutdown that comes to its end leaves no task and no open client
\* (app.py:286-292).
THEOREM NothingOutlivesShutdown == Spec => []MillClosedLast
<1>1. IInv => MillClosedLast
  BY DEF IInv
<1> QED BY <1>1, Invariance, PTL

=============================================================================
