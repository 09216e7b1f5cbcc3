-------------------------------- MODULE Sums --------------------------------
(***************************************************************************)
(* Sums of rows of costs.                                                  *)
(***************************************************************************)
EXTENDS FiniteSetsExt

\* Sum of the values of a function.
Total(rows) == MapThenSumSet(LAMBDA k : rows[k], DOMAIN rows)

=============================================================================
