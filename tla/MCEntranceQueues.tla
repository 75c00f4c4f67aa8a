--------------------------- MODULE MCEntranceQueues ---------------------------
(* Small simulations for TLC. *)
EXTENDS EntranceQueues, TLC

Symmetry == Permutations(Handlers) \cup Permutations(Entrances)
=============================================================================
