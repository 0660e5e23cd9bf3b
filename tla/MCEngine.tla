------------------------------ MODULE MCEngine ------------------------------
(***************************************************************************)
(* The scheduler and the local model runtime, checked for progress in one  *)
(* run: a behaviour begins with the one it is about and the other stays as *)
(* it is.  They share no variable, so nothing is lost.                     *)
(***************************************************************************)
EXTENDS JobQueueProps, LocalRuntimeProps, TLC

VARIABLE focus

\* The names without a prefix are those of JobQueue.
engineVars == <<focus, vars, runtimeVars>>

EngineInit == focus \in {"jobs", "runtime"} /\ Init /\ LocalRuntimeInit

EngineNext ==
    /\ UNCHANGED focus
    /\ IF focus = "jobs" THEN Next ELSE UNCHANGED vars
    /\ IF focus = "runtime" THEN LocalRuntimeNext ELSE UNCHANGED runtimeVars

-----------------------------------------------------------------------------
\* The fairness of JobQueue and LocalRuntime, each for its own behaviours.
OnlyIn(part, A) == focus = part /\ A

EngineFairness ==
    /\ \A c \in Clients : WF_vars(OnlyIn("jobs", ClientStep(c)))
    /\ \A k \in Jobs : /\ WF_vars(OnlyIn("jobs", WorkerStep(k)))
                       /\ SF_vars(OnlyIn("jobs", AcquireSlot(k)))
                       /\ WF_vars(OnlyIn("jobs", BodyMayEnd(k)))
    /\ WF_vars(OnlyIn("jobs", ShutdownStep))
    /\ \A c \in Callers : WF_runtimeVars(OnlyIn("runtime", Step(c)))

FairEngine == EngineInit /\ [][EngineNext]_engineVars /\ EngineFairness
=============================================================================
