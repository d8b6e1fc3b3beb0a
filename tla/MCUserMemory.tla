---------------------------- MODULE MCUserMemory ----------------------------
(* UserMemory on small sets, for TLC. *)
EXTENDS UserMemory, TLC

Symmetry == Permutations(Threads) \cup Permutations(Keys) \cup Permutations(Values)
=============================================================================
