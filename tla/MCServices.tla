----------------------------- MODULE MCServices -----------------------------
(***************************************************************************)
(* The components around the scheduler, checked in one run: a behaviour    *)
(* begins with the component it is about, and the others stay as they are. *)
(* They share no variable, so nothing is lost.                             *)
(***************************************************************************)
EXTENDS ApprovalsProps, SteeringProps, Automations, Goals, Children, Compare, WorktreeTasks,
        Background, Owners, LanguageServers, TLC

CONSTANT FocusedOn   \* the components the run is about

VARIABLE focus

\* The names without a prefix are those of Steering.
serviceVars == <<focus, approvalVars, vars, automationVars, goalVars, childVars, compareVars,
                 worktreeVars, procVars, ownerVars, lspVars>>

ServicesInit ==
    /\ focus \in FocusedOn
    /\ ApprovalsInit /\ Init /\ AutomationsInit /\ GoalsInit /\ ChildrenInit /\ CompareInit
    /\ WorktreeTasksInit /\ BackgroundInit /\ OwnersInit /\ LanguageServersInit
    /\ focus = "automations" \/ \A a \in AutomationIds : plan[a].every = 1

ServicesNext ==
    /\ UNCHANGED focus
    /\ IF focus = "approvals" THEN ApprovalsNext ELSE UNCHANGED approvalVars
    /\ IF focus = "steering" THEN Next ELSE UNCHANGED vars
    /\ IF focus = "children" THEN ChildrenNext ELSE UNCHANGED childVars
    /\ IF focus = "compare" THEN CompareNext ELSE UNCHANGED compareVars
    /\ IF focus = "worktrees" THEN WorktreeTasksNext ELSE UNCHANGED worktreeVars
    /\ IF focus = "background" THEN BackgroundNext ELSE UNCHANGED procVars
    /\ IF focus = "owners" THEN OwnersNext ELSE UNCHANGED ownerVars
    /\ IF focus = "servers" THEN LanguageServersNext ELSE UNCHANGED lspVars
    /\ IF focus = "goals" THEN GoalsNext ELSE UNCHANGED goalVars
    /\ IF focus = "automations" THEN AutomationsNext ELSE UNCHANGED automationVars

\* Runs are told apart only by when they begin.  For the safety run alone.
RunSymmetry == Permutations(AutomationRuns) \cup Permutations(GoalRuns)

ServicesSpec == ServicesInit /\ [][ServicesNext]_serviceVars

-----------------------------------------------------------------------------
(* The program's own steps go on: tasks and deadlines, the workers of runs and  *)
(* goals, the futures of a task, the operation under LOCK, workers of processes *)
(* and the stops that wait.  What a job, a child or a process does by itself    *)
(* may take for ever, but the loop of a stopped one looks at its token.  Users  *)
(* owe nothing.                                                                 *)

OnlyIn(part, A) == focus = part /\ A

ServicesFairness ==
    /\ \A t \in Tasks : /\ WF_approvalVars(OnlyIn("approvals", AskerStep(t)))
                        /\ WF_approvalVars(OnlyIn("approvals", Deadline(t)))
    /\ WF_vars(OnlyIn("steering", TaskStep)) /\ SF_vars(OnlyIn("steering", TaskCancelled))
    /\ \A r \in Requests : WF_vars(OnlyIn("steering", RequestStep(r)))
    /\ WF_automationVars(OnlyIn("automations", LaunchNext))
    /\ \A r \in AutomationRuns : WF_automationVars(OnlyIn("automations", RunnerNext(r)))
    /\ \A r \in GoalRuns : WF_goalVars(OnlyIn("goals", DriverNext(r)))
    /\ \A c \in GoalStoppers : WF_goalVars(OnlyIn("goals", StopGoalReturns(c)))
    /\ WF_childVars(OnlyIn("children", StoppedParentEnds))
    /\ \A c \in Calls : /\ WF_childVars(OnlyIn("children", CallNext(c)))
                        /\ WF_childVars(OnlyIn("children", ChildStops(c)))
    /\ WF_compareVars(OnlyIn("compare", OpNext))
    /\ \A l \in Lanes : /\ WF_compareVars(OnlyIn("compare", LaneTurnRuns(l)))
                        /\ WF_compareVars(OnlyIn("compare", CancelledTurnEnds(l)))
    /\ WF_procVars(OnlyIn("background", ProcsAreDown))
    /\ \A p \in Procs : /\ WF_procVars(OnlyIn("background", CancelledProcExits(p)))
                        /\ WF_procVars(OnlyIn("background", WorkerNext(p)))
                        /\ WF_procVars(OnlyIn("background", StopNext(p)))
    /\ WF_ownerVars(OnlyIn("owners", CloseReturns))
    /\ \A j \in OwnJobs : /\ WF_ownerVars(OnlyIn("owners", CloseGoesOn(j)))
                          /\ WF_ownerVars(OnlyIn("owners", StoppedJobEnds(j)))
    /\ \A a \in LspTools : SF_lspVars(OnlyIn("servers", ToolNext(a)))
    /\ WF_lspVars(OnlyIn("servers", ReaperNext))
    /\ \A a \in LspStoppers : SF_lspVars(OnlyIn("servers", StopperNext(a)))

FairServices == ServicesSpec /\ ServicesFairness

-----------------------------------------------------------------------------
\* A resumed task goes on, unless it is paused again, and a cancelled one ends, also
\* while it is paused (engine.rs await_steering).
PausesEnd == ResumedGoesOn /\ CancelledEndsTask

\* Whoever asks for a stop is heard: a run of an automation ends, the stop of a
\* goal or of a process returns, the subagents of a task end with it, the jobs of a
\* connection end with that, and what uses or stops a language server returns, unless
\* one is stuck (engine/automations.rs stop_automation, engine/goals.rs stop_goal,
\* background.rs stop, docs/SUBAGENTS.md:32, engine/owner.rs, lsp/client.rs).
StopsAreHeard ==
    /\ StoppedRunEnds /\ GoalStopsReturn /\ StopReachesChildren /\ ProcStopsReturn
    /\ OwnedJobsEnd /\ LspOpsEnd
=============================================================================
