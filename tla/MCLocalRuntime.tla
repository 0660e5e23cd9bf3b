--------------------------- MODULE MCLocalRuntime ---------------------------
(* Small instances of LocalRuntime for TLC. *)
EXTENDS LocalRuntimeProps, TLC

Symmetry == Permutations(Callers) \cup Permutations(Models) \cup Permutations(Servers)
=============================================================================
