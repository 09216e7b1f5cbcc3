---------------------------- MODULE MCStateFiles ----------------------------
(* Symmetry for the check of StateFiles: no action and no property tells   *)
(* two directories, texts, handlers or runs of one kind apart.             *)
EXTENDS StateFiles, TLC

Symmetry ==
  Permutations(Dir) \cup Permutations(Text) \cup Permutations(Handler) \cup Permutations(Server)
    \cup Permutations(Command)

=============================================================================
