----------------------------- MODULE MCSteering -----------------------------
(* Small instances of Steering for TLC. *)
EXTENDS SteeringProps, TLC

Symmetry == Permutations(Requests) \cup Permutations(Texts) \cup Permutations(Files)
=============================================================================
