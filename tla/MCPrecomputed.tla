--------------------------- MODULE MCPrecomputed ---------------------------
(* An instance of Precomputed for TLC, with the constants of the service's. *)
EXTENDS MCCostService, Precomputed

=============================================================================
