------------------------------ MODULE MCRewinds ------------------------------
(***************************************************************************)
(* Pausing a task and rewinding its files, checked in one run: a behaviour *)
(* begins with the component it is about, and the other stays as it is.    *)
(***************************************************************************)
EXTENDS SteeringProps, Checkpoints, TLC

VARIABLE focus

\* The names without a prefix are those of Steering.
rewindVars == <<focus, vars, cpVars>>

RewindsInit ==
    /\ focus \in {"steering", "checkpoints"}
    /\ Init /\ CheckpointsInit
    /\ focus = "checkpoints" \/ onDisk = [f \in CpFiles |-> Missing]

\* Bound: a break takes the place of a call.
RewindsNext ==
    /\ UNCHANGED focus
    /\ IF focus = "steering" THEN Next ELSE UNCHANGED vars
    /\ IF focus = "checkpoints" THEN CheckpointsNext ELSE UNCHANGED cpVars
    /\ cpCalls' + breaks' <= MaxCalls

RewindsSpec == RewindsInit /\ [][RewindsNext]_rewindVars

\* Nothing tells these apart but when they are used.
RewindSymmetry == Permutations(Requests) \cup Permutations(Texts) \cup Permutations(CpFiles)
=============================================================================
