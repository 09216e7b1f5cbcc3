--------------------------- MODULE MCCostService ---------------------------
(* Instances of CostService for TLC.                                       *)
EXTENDS CostService

CONSTANTS models, traces

\* Two caches and one window.
MCCacheOf == [k \in {models, traces} |-> k]

\* /api/highlights of one backend, the endpoint that asks twice.
MCEndpoint == {<<{traces}, {models}>>}

\* Two queries that the warm-up makes for each window.
MCWarmUp == <<{models}, {traces}>>

=============================================================================
