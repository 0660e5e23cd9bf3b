----------------------------- MODULE MCJobQueue -----------------------------
(* Small instances of JobQueue for TLC. *)
EXTENDS JobQueueProps, TLC

Symmetry == Permutations(Jobs) \cup Permutations(Clients) \cup Permutations(Workspaces)

\* Leaves shutdown out of a run about running jobs.
NoShutdown == ~closing'
=============================================================================
