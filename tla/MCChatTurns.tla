----------------------------- MODULE MCChatTurns -----------------------------
(* ChatTurns on small sets, for TLC. *)
EXTENDS ChatTurns, TLC

Symmetry == Permutations(Ids \ Foreign) \cup Permutations(Threads) \cup Permutations(Clients)
=============================================================================
