------------------------------- MODULE Goals -------------------------------
(***************************************************************************)
(* Goals: a list of milestones worked off by one job after another         *)
(* (engine/goals.rs, store/goals.rs).                                      *)
(*                                                                         *)
(* A goal that is started gets a run in the registry and a worker that     *)
(* goes through the milestones it read at the start.  The registry's lock  *)
(* is held by start, by the two ends of a stop, by an edit and by a        *)
(* delete; the worker takes none.  A step is one critical section or one   *)
(* transaction of the database.  At most 16 goals run (more than here).    *)
(***************************************************************************)
EXTENDS Naturals

CONSTANTS
    GoalIds,
    GoalRuns,       \* the runs that are started, as the pointers of Arc<GoalRun>
    NoGoalRun,
    Steps,          \* the number of milestones of a goal
    GoalStoppers,   \* requests that stop a goal
    MaxGoalEdits,   \* bound: edits of milestones
    MaxGoalRestarts,\* bound: restarts of the program
    GoalFaults      \* may a database access fail?

ASSUME GoalAssumption ==
    /\ GoalIds # {} /\ NoGoalRun \notin GoalRuns
    /\ Steps \in Nat \ {0}
    /\ MaxGoalEdits \in Nat /\ MaxGoalRestarts \in Nat
    /\ GoalFaults \in BOOLEAN

VARIABLES
    \* the database
    goal,           \* status of the goal's row, "deleted" without one
    goalRunning,    \* the goals whose row in goal_runs says running
    milestone,      \* the status of each milestone
    \* the registry, and GoalRun
    goalRegistry,
    goalStopped,    \* the runs whose token is cancelled
    goalOf,         \* the goal of a run
    driver,         \* where the worker of a run is
    stepAt,         \* the milestone it is at
    ending,         \* the status it is about to store
    stepJob,        \* its job
    \* requests
    stopper,        \* a stop that waits: its run, and what the goal shall be
    goalsClosing,
    goalEdits,
    goalRestarts,
    \* what happened
    goalUnsaved     \* goals with a write that failed in this session

goalRows    == <<goal, goalRunning, milestone>>
driverVars  == <<goalOf, driver, stepAt, ending, stepJob>>
goalBounds  == <<goalsClosing, goalEdits, goalRestarts>>
goalVars == <<goalRows, goalRegistry, goalStopped, driverVars, stopper, goalBounds, goalUnsaved>>

NotStopping == [pc |-> "idle"]
Busy == {"driving", "recording", "working"}
Unfinished == Busy \cup {"saving", "saved"}
GoalEnds == {"completed", "blocked", "paused"}

GoalRowTypes ==
    /\ goal \in [GoalIds -> {"active", "abandoned", "deleted"} \cup GoalEnds]
    /\ goalRunning \subseteq GoalIds
    /\ milestone \in [GoalIds -> [1..Steps -> {"pending", "in_progress", "done", "failed"}]]
    /\ goalUnsaved \subseteq GoalIds

GoalRunTypes ==
    /\ goalRegistry \in [GoalIds -> GoalRuns \cup {NoGoalRun}]
    /\ goalStopped \subseteq GoalRuns
    /\ goalOf \in [GoalRuns -> GoalIds]
    /\ driver \in [GoalRuns -> {"none", "over"} \cup Unfinished]
    /\ stepAt \in [GoalRuns -> 1..(Steps + 1)]
    /\ ending \in [GoalRuns -> {"none"} \cup GoalEnds]
    /\ stepJob \in [GoalRuns -> {"none", "live", "completed", "failed", "cancelled"}]

GoalTypes ==
    /\ GoalRowTypes /\ GoalRunTypes
    /\ stopper \in [GoalStoppers ->
          {NotStopping} \cup [pc : {"waiting"}, run : GoalRuns, to : {"paused", "abandoned"}]]
    /\ goalsClosing \in BOOLEAN
    /\ goalEdits \in Nat /\ goalRestarts \in Nat

GoalsInit ==
    /\ goal = [g \in GoalIds |-> "active"]
    /\ goalRunning = {}
    /\ milestone = [g \in GoalIds |-> [i \in 1..Steps |-> "pending"]]
    /\ goalRegistry = [g \in GoalIds |-> NoGoalRun]
    /\ goalStopped = {}
    /\ goalOf = [r \in GoalRuns |-> CHOOSE g \in GoalIds : TRUE]
    /\ driver = [r \in GoalRuns |-> "none"]
    /\ stepAt = [r \in GoalRuns |-> 1]
    /\ ending = [r \in GoalRuns |-> "none"]
    /\ stepJob = [r \in GoalRuns |-> "none"]
    /\ stopper = [c \in GoalStoppers |-> NotStopping]
    /\ goalsClosing = FALSE /\ goalEdits = 0 /\ goalRestarts = 0
    /\ goalUnsaved = {}

AllDone(steps) == \A i \in 1..Steps : steps[i] = "done"

\* Registry: is there no unfinished run of the goal?
Resting(g) == \A r \in GoalRuns : goalRegistry[g] = r => driver[r] = "over"

\* Entries of runs that are over are dropped.
Retained == [g \in GoalIds |-> IF Resting(g) THEN NoGoalRun ELSE goalRegistry[g]]

\* Store::set_milestone: the goal's status follows its checklist.
SetMilestone(g, i, status) ==
    LET steps == [milestone[g] EXCEPT ![i] = status] IN
    /\ milestone' = [milestone EXCEPT ![g] = steps]
    /\ goal' = [goal EXCEPT ![g] = IF AllDone(steps) THEN "completed"
                                   ELSE IF goal[g] = "completed" THEN "active" ELSE goal[g]]

\* Store::finish_goal: completed only when the checklist says so.
FinishGoal(g, status) ==
    /\ status = "completed" => AllDone(milestone[g])
    /\ goal' = [goal EXCEPT ![g] = status]
    /\ goalRunning' = goalRunning \ {g}

-----------------------------------------------------------------------------
(* start_goal                                                              *)

CanStart(g) ==
    /\ ~goalsClosing /\ Resting(g)
    /\ goal[g] # "deleted" /\ g \notin goalRunning /\ ~AllDone(milestone[g])

\* Store::begin_goal: what was not finished is to be done again.
Begun(steps) ==
    [i \in 1..Steps |-> IF steps[i] \in {"failed", "in_progress"} THEN "pending" ELSE steps[i]]

StartGoal(g, r) ==
    /\ driver[r] = "none"
    /\ CanStart(g)
    /\ milestone' = [milestone EXCEPT ![g] = Begun(milestone[g])]
    /\ goal' = [goal EXCEPT ![g] = "active"]
    /\ goalRunning' = goalRunning \cup {g}
    /\ goalRegistry' = [Retained EXCEPT ![g] = r]
    /\ goalOf' = [goalOf EXCEPT ![r] = g]
    /\ driver' = [driver EXCEPT ![r] = "driving"]
    /\ UNCHANGED <<goalStopped, stepAt, ending, stepJob, stopper, goalBounds, goalUnsaved>>

\* A refused start drops the entries of runs that are over, too.
StartGoalRefused(g) ==
    /\ ~goalsClosing
    /\ ~CanStart(g)
    /\ goalRegistry' = Retained
    /\ UNCHANGED <<goalRows, goalStopped, driverVars, stopper, goalBounds, goalUnsaved>>

-----------------------------------------------------------------------------
(* The worker, drive_goal                                                  *)

DriverUnchanged == UNCHANGED <<goalRegistry, goalStopped, goalOf, stopper, goalBounds>>

Drives(r, pc) == driver' = [driver EXCEPT ![r] = pc]

\* An error ends the run as paused if it was stopped, else as blocked.
Errs(r) ==
    /\ Drives(r, "saving")
    /\ ending' = [ending EXCEPT ![r] = IF r \in goalStopped THEN "paused" ELSE "blocked"]

\* The statuses read at the start; nobody edits them while the goal runs.
AtEnd(r) == stepAt[r] > Steps
IsDone(r) == ~AtEnd(r) /\ milestone[goalOf[r]][stepAt[r]] = "done"

DriverEndsRun(r) ==
    /\ driver[r] = "driving"
    /\ AtEnd(r) \/ r \in goalStopped
    /\ Drives(r, "saving")
    /\ ending' = [ending EXCEPT ![r] = IF AtEnd(r) THEN "completed" ELSE "paused"]
    /\ UNCHANGED <<goalRows, stepAt, stepJob, goalUnsaved>> /\ DriverUnchanged

DriverSkips(r) ==
    /\ driver[r] = "driving" /\ r \notin goalStopped
    /\ IsDone(r)
    /\ stepAt' = [stepAt EXCEPT ![r] = @ + 1]
    /\ UNCHANGED <<goalRows, driver, ending, stepJob, goalUnsaved>> /\ DriverUnchanged

\* start_with_context; a stop may come after the test of the token.
DriverStarts(r) ==
    /\ driver[r] = "driving"
    /\ ~AtEnd(r) /\ ~IsDone(r) /\ ~goalsClosing
    /\ stepJob' = [stepJob EXCEPT ![r] = "live"]
    /\ Drives(r, "recording")
    /\ UNCHANGED <<goalRows, stepAt, ending, goalUnsaved>> /\ DriverUnchanged

DriverCannotStart(r) ==
    /\ driver[r] = "driving"
    /\ ~AtEnd(r) /\ ~IsDone(r)
    /\ Errs(r)
    /\ UNCHANGED <<goalRows, stepAt, stepJob, goalUnsaved>> /\ DriverUnchanged

\* goal_milestone_started; when it fails the job is cancelled and waited for.
DriverRecords(r) ==
    LET g == goalOf[r] IN
    /\ driver[r] = "recording"
    /\ \/ /\ milestone' = [milestone EXCEPT ![g][stepAt[r]] = "in_progress"]
          /\ Drives(r, "working")
          /\ UNCHANGED <<ending, stepJob, goalUnsaved>>
       \/ /\ GoalFaults
          /\ stepJob' = [stepJob EXCEPT ![r] = "cancelled"]
          /\ Errs(r)
          /\ goalUnsaved' = goalUnsaved \cup {g}
          /\ UNCHANGED milestone
    /\ UNCHANGED <<goal, goalRunning, stepAt>> /\ DriverUnchanged

StepJobEnds(r, s) ==
    /\ stepJob[r] = "live"
    /\ stepJob' = [stepJob EXCEPT ![r] = s]
    /\ UNCHANGED <<goalRows, driver, stepAt, ending, goalUnsaved>> /\ DriverUnchanged

\* A write fails: of the milestone's result, or of the cancel.
JudgeFails(r) ==
    /\ GoalFaults
    /\ Errs(r)
    /\ goalUnsaved' = goalUnsaved \cup {goalOf[r]}
    /\ UNCHANGED <<goalRows, stepAt>>

\* The biased select: a stopped run cancels its job and waits for it; a cancel
\* that cannot be stored leaves it to end by itself.
DriverCancelsJob(r) ==
    /\ driver[r] = "working" /\ stepJob[r] = "live"
    /\ r \in goalStopped
    /\ \/ /\ stepJob' = [stepJob EXCEPT ![r] = "cancelled"]
          /\ UNCHANGED <<goalRows, driver, stepAt, ending, goalUnsaved>>
       \/ JudgeFails(r) /\ UNCHANGED stepJob
    /\ DriverUnchanged

\* Mutant: only the job tells of a stop.
InterruptedJob(r) == stepJob[r] = "cancelled"

\* The run was stopped, also if its job ended before that.
Interrupted(r) == r \in goalStopped \/ stepJob[r] = "cancelled"

\* A job that ended in a stopped run is to be done again, also if it completed.
DriverPauses(r) ==
    /\ driver[r] = "working" /\ stepJob[r] # "live"
    /\ Interrupted(r)
    /\ \/ /\ SetMilestone(goalOf[r], stepAt[r], "pending")
          /\ Drives(r, "saving")
          /\ ending' = [ending EXCEPT ![r] = "paused"]
          /\ UNCHANGED <<goalRunning, stepAt, goalUnsaved>>
       \/ JudgeFails(r)
    /\ UNCHANGED stepJob /\ DriverUnchanged

\* It passed, or its job failed or its verification did.
DriverJudges(r, passed) ==
    /\ driver[r] = "working" /\ stepJob[r] # "live"
    /\ ~Interrupted(r)
    /\ passed => stepJob[r] = "completed"
    /\ \/ /\ SetMilestone(goalOf[r], stepAt[r], IF passed THEN "done" ELSE "failed")
          /\ IF passed
             THEN stepAt' = [stepAt EXCEPT ![r] = @ + 1] /\ Drives(r, "driving") /\ UNCHANGED ending
             ELSE Drives(r, "saving") /\ ending' = [ending EXCEPT ![r] = "blocked"] /\ UNCHANGED stepAt
          /\ UNCHANGED <<goalRunning, goalUnsaved>>
       \/ JudgeFails(r)
    /\ UNCHANGED stepJob /\ DriverUnchanged

\* finish_goal of the worker; a failure is only reported.
DriverSaves(r) ==
    /\ driver[r] = "saving"
    /\ Drives(r, "saved")
    /\ \/ FinishGoal(goalOf[r], ending[r]) /\ UNCHANGED <<milestone, goalUnsaved>>
       \/ GoalFaults /\ goalUnsaved' = goalUnsaved \cup {goalOf[r]} /\ UNCHANGED goalRows
    /\ UNCHANGED <<stepAt, ending, stepJob>> /\ DriverUnchanged

DriverEnds(r) ==
    /\ driver[r] = "saved"
    /\ Drives(r, "over")
    /\ UNCHANGED <<goalRows, stepAt, ending, stepJob, goalUnsaved>> /\ DriverUnchanged

-----------------------------------------------------------------------------
(* stop_goal, edits, delete                                                *)

\* With a run, even one that is over, its token is cancelled and the request
\* waits for it; without one the row is written.
StopGoal(c, g, to) ==
    /\ stopper[c] = NotStopping
    /\ LET r == goalRegistry[g] IN
       IF r # NoGoalRun
       THEN /\ goalStopped' = goalStopped \cup {r}
            /\ stopper' = [stopper EXCEPT ![c] = [pc |-> "waiting", run |-> r, to |-> to]]
            /\ UNCHANGED goalRows
       ELSE /\ goal[g] # "deleted"
            /\ FinishGoal(g, to)
            /\ UNCHANGED <<milestone, goalStopped, stopper>>
    /\ UNCHANGED <<goalRegistry, driverVars, goalBounds, goalUnsaved>>

\* Mutant: whose run is registered by now is not looked at.
StillRegistered(r) == TRUE

\* The registry still has the run the request waited for.
SameRun(r) == goalRegistry[goalOf[r]] = r

StopGoalReturns(c) ==
    LET r == stopper[c].run
        g == goalOf[r] IN
    /\ stopper[c] # NotStopping
    /\ driver[r] = "over"
    /\ stopper' = [stopper EXCEPT ![c] = NotStopping]
    /\ IF SameRun(r) /\ stopper[c].to = "abandoned"
       THEN FinishGoal(g, "abandoned")
       ELSE UNCHANGED <<goal, goalRunning>>
    /\ UNCHANGED <<milestone, goalRegistry, goalStopped, driverVars, goalBounds, goalUnsaved>>

\* update_goal_milestone, with the two statuses the window offers.
EditMilestone(g, i, status) ==
    /\ goalEdits < MaxGoalEdits
    /\ goal[g] # "deleted"
    /\ Resting(g)
    /\ SetMilestone(g, i, status)
    /\ goalEdits' = goalEdits + 1
    /\ UNCHANGED <<goalRunning, goalRegistry, goalStopped, driverVars, stopper, goalsClosing,
                   goalRestarts, goalUnsaved>>

DeleteGoal(g) ==
    /\ goal[g] # "deleted"
    /\ Resting(g)
    /\ goal' = [goal EXCEPT ![g] = "deleted"]
    /\ goalRunning' = goalRunning \ {g}
    /\ milestone' = [milestone EXCEPT ![g] = [i \in 1..Steps |-> "pending"]]
    /\ goalRegistry' = [goalRegistry EXCEPT ![g] = NoGoalRun]
    /\ UNCHANGED <<goalStopped, driverVars, stopper, goalBounds, goalUnsaved>>

-----------------------------------------------------------------------------
(* Shutdown and restart                                                    *)

GoalsClose ==
    /\ ~goalsClosing
    /\ goalsClosing' = TRUE
    /\ UNCHANGED <<goalRows, goalRegistry, goalStopped, driverVars, stopper, goalEdits,
                   goalRestarts, goalUnsaved>>

CancelGoals ==
    /\ goalsClosing
    /\ goalStopped' = goalStopped \cup {r \in GoalRuns : \E g \in GoalIds : goalRegistry[g] = r}
    /\ UNCHANGED <<goalRows, goalRegistry, driverVars, stopper, goalBounds, goalUnsaved>>

\* recover_goals: what was in progress is to be done again.
Recovered(steps) ==
    [i \in 1..Steps |-> IF steps[i] = "in_progress" THEN "pending" ELSE steps[i]]

GoalsRestart ==
    /\ goalRestarts < MaxGoalRestarts
    /\ goalRestarts' = goalRestarts + 1
    /\ goal' = [g \in GoalIds |->
          IF g \in goalRunning \/ \E i \in 1..Steps : milestone[g][i] = "in_progress"
          THEN "paused" ELSE goal[g]]
    /\ milestone' = [g \in GoalIds |-> Recovered(milestone[g])]
    /\ goalRunning' = {}
    /\ goalRegistry' = [g \in GoalIds |-> NoGoalRun]
    /\ driver' = [r \in GoalRuns |-> IF driver[r] = "none" THEN "none" ELSE "over"]
    /\ stopper' = [c \in GoalStoppers |-> NotStopping]
    /\ stepJob' = [r \in GoalRuns |-> "none"]
    /\ goalsClosing' = FALSE /\ goalUnsaved' = {} /\ goalStopped' = {}
    /\ UNCHANGED <<goalOf, stepAt, ending, goalEdits>>

DriverNext(r) ==
    \/ DriverEndsRun(r) \/ DriverSkips(r) \/ DriverStarts(r) \/ DriverCannotStart(r)
    \/ DriverRecords(r) \/ DriverCancelsJob(r) \/ DriverPauses(r) \/ DriverSaves(r) \/ DriverEnds(r)
    \/ \E p \in BOOLEAN : DriverJudges(r, p)

GoalsNext ==
    \/ GoalsClose \/ CancelGoals \/ GoalsRestart
    \/ \E r \in GoalRuns :
          DriverNext(r) \/ (\E s \in {"completed", "failed", "cancelled"} : StepJobEnds(r, s))
    \/ \E c \in GoalStoppers : StopGoalReturns(c)
    \/ \E g \in GoalIds :
          \/ StartGoalRefused(g) \/ DeleteGoal(g)
          \/ \E r \in GoalRuns : StartGoal(g, r)
          \/ \E c \in GoalStoppers, to \in {"paused", "abandoned"} : StopGoal(c, g, to)
          \/ \E i \in 1..Steps, s \in {"pending", "done"} : EditMilestone(g, i, s)

GoalsSpec == GoalsInit /\ [][GoalsNext]_goalVars

-----------------------------------------------------------------------------
(* What goals promise                                                      *)

\* A goal that is paused, blocked or abandoned has no worker that goes on with
\* it: an abandon that waited for a run never hits the one that was started
\* after it (engine/goals.rs stop_goal).
RestingGoalsRest ==
    \A r \in GoalRuns : goal[goalOf[r]] \in {"paused", "blocked", "abandoned"} => driver[r] \notin Busy

\* A goal is completed only if all of its milestones are done (store/goals.rs
\* set_milestone, finish_goal).
CompletedIsDone == \A g \in GoalIds : goal[g] = "completed" => AllDone(milestone[g])

\* The row of a run says running, and a milestone is in progress, only while a
\* worker is at it, unless a write failed in this session.
RowsTellDrivers ==
    \A g \in GoalIds \ goalUnsaved :
        /\ g \in goalRunning =>
             \E r \in GoalRuns : goalOf[r] = g /\ driver[r] \in Busy \cup {"saving"}
        /\ \A i \in 1..Steps : milestone[g][i] = "in_progress" =>
             \E r \in GoalRuns : goalOf[r] = g /\ driver[r] = "working" /\ stepAt[r] = i

\* What the rows of a goal say, its worker does.
GoalsAgree == GoalTypes /\ RestingGoalsRest /\ CompletedIsDone /\ RowsTellDrivers

\* A milestone becomes done through a job that completed in a run that was not
\* stopped, or by the user; and stays done unless the user edits it.
DoneIsEarned ==
    [][\A g \in GoalIds, i \in 1..Steps :
         /\ goalEdits' = goalEdits
         /\ goal'[g] # "deleted"
         => /\ milestone[g][i] = "done" => milestone'[g][i] = "done"
            /\ (milestone[g][i] # "done" /\ milestone'[g][i] = "done") =>
                 \E r \in GoalRuns \ goalStopped :
                    goalOf[r] = g /\ stepAt[r] = i /\ driver[r] = "working" /\ stepJob[r] = "completed"
      ]_goalVars

\* A stop that waits returns.
GoalStopsReturn == \A c \in GoalStoppers : (stopper[c] # NotStopping) ~> (stopper[c] = NotStopping)

=============================================================================
