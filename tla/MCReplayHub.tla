----------------------------- MODULE MCReplayHub -----------------------------
(* Instances of ReplayHub for TLC: capacities of one or two instead of 100  *)
(* and 1024, so that full channels are met at once.                         *)
EXTENDS ReplayHub

Symmetry == Permutations(Sessions) \cup Permutations(Symbols)
==============================================================================
