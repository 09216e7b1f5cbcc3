----------------------------- MODULE MCTTLCache -----------------------------
(* Instances of TTLCacheLRU for TLC.                                       *)
EXTENDS TTLCacheLRU

\* Keys and tasks are only compared for equality.
Symmetric == Permutations(Key) \cup Permutations(Task)

=============================================================================
