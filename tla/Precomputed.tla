---------------------------- MODULE Precomputed ----------------------------
(***************************************************************************)
(* CostService with one history variable, for the promise of the warm loop *)
(* that the frontend never waits for Langfuse.                             *)
(***************************************************************************)
EXTENDS CostService

VARIABLE loaded  \* history: keys held at some time since somebody pressed refresh

PInit ==
  /\ Init
  /\ loaded = {}

PNext ==
  \/ Routine /\ loaded' = loaded \cup held'
  \/ RefreshCache /\ loaded' = {}

PSpec == PInit /\ [][PNext]_<<vars, loaded>>

\* config.py:103-105: the background refresh "keeps dashboard aggregates
\* precomputed so the frontend never blocks on a live Langfuse fetch".  The
\* registry poll clears all caches, so a request after it does wait for a key
\* that was loaded, with the caches far from full.
NeverBlocks ==
  [][\A r \in Request :
       walk[r].pc = "next" /\ walk'[r].pc = "fetch" =>
         fetch'[r].key \notin loaded \cap (present \X Preloaded)]_<<vars, loaded>>

=============================================================================
