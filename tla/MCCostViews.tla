---------------------------- MODULE MCCostViews ----------------------------
(* Values for the tables of CostViews: two projects; a named trace, and    *)
(* unnamed ones in a periodic session, in another session, and in none and  *)
(* without a timestamp.                                                    *)
EXTENDS CostViews, TLC

CONSTANTS p1, p2, t1, t2, t3, t4, agent, periodic, chat

MCOwner == t1 :> p1 @@ t2 :> p2 @@ t3 :> p2 @@ t4 :> p1
MCName == t1 :> agent @@ t2 :> None @@ t3 :> None @@ t4 :> None
MCSession == t1 :> chat @@ t2 :> periodic @@ t3 :> chat @@ t4 :> None
MCStage == periodic :> agent @@ chat :> None

=============================================================================
