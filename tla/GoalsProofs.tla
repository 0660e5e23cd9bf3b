----------------------------- MODULE GoalsProofs -----------------------------
(***************************************************************************)
(* For any number of goals, milestones, runs and requests: the rows of a   *)
(* goal and its worker agree, and a milestone becomes done only by the     *)
(* work of a run that was not stopped.  Both follow from GoalInv: a run    *)
(* that is not over is the registered one of its goal, so it is alone; and *)
(* the milestone it is at is not done.                                     *)
(***************************************************************************)
EXTENDS Goals, TLAPS

-----------------------------------------------------------------------------
(* The inductive invariant                                                 *)

\* A run that is not over is in the registry.
Registered == \A r \in GoalRuns : driver[r] \in Unfinished => goalRegistry[goalOf[r]] = r

\* The milestone a job works for is not done, and the end of a run is known
\* before it is stored.
AtStep ==
    \A r \in GoalRuns :
        /\ driver[r] \in {"recording", "working"} =>
              stepAt[r] <= Steps /\ milestone[goalOf[r]][stepAt[r]] # "done"
        /\ driver[r] = "saving" => ending[r] \in GoalEnds

GoalInv == GoalTypes /\ Registered /\ AtStep /\ RestingGoalsRest /\ CompletedIsDone /\ RowsTellDrivers

\* Two runs of a goal that are not over are one.
LEMMA AloneAtGoal ==
  ASSUME GoalInv, NEW r \in GoalRuns, NEW s \in GoalRuns, goalOf[r] = goalOf[s],
         driver[r] \in Unfinished, driver[s] \in Unfinished
  PROVE  r = s
BY DEF GoalInv, Registered

\* No run of a goal that rests goes on.
LEMMA NobodyAtGoal ==
  ASSUME GoalInv, NEW g \in GoalIds, Resting(g) \/ goalRegistry[g] = NoGoalRun,
         NEW r \in GoalRuns, goalOf[r] = g
  PROVE  driver[r] \notin Unfinished
BY GoalAssumption DEF GoalInv, Registered, Resting, Unfinished, Busy

LEMMA GoalInitInv == GoalsInit => GoalInv
<1>. SUFFICES ASSUME GoalsInit PROVE GoalInv
  OBVIOUS
<1>. USE GoalAssumption DEF GoalsInit
<1>1. (CHOOSE g \in GoalIds : TRUE) \in GoalIds
  <2>1. PICK g \in GoalIds : TRUE
    OBVIOUS
  <2>. QED
    BY <2>1
<1>2. GoalRowTypes /\ GoalRunTypes
  <2>1. GoalRowTypes
    BY DEF GoalRowTypes
  <2>2. 1 \in 1 .. (Steps + 1)
    OBVIOUS
  <2>. QED
    BY <1>1, <2>1, <2>2 DEF GoalRunTypes
<1>3. GoalTypes
  BY <1>2 DEF GoalTypes
<1>4. Registered /\ AtStep /\ RestingGoalsRest /\ CompletedIsDone /\ RowsTellDrivers
  BY <1>2 DEF GoalRowTypes, GoalRunTypes, Registered, AtStep, RestingGoalsRest, CompletedIsDone,
              RowsTellDrivers, Unfinished, Busy
<1>. QED
  BY <1>3, <1>4 DEF GoalInv

-----------------------------------------------------------------------------
(* Types                                                                   *)

StepStatuses == {"pending", "in_progress", "done", "failed"}

LEMMA SetMilestoneTypes ==
  ASSUME GoalRowTypes, NEW g \in GoalIds, NEW i \in 1 .. Steps, NEW s \in StepStatuses,
         SetMilestone(g, i, s)
  PROVE  /\ milestone' \in [GoalIds -> [1 .. Steps -> StepStatuses]]
         /\ goal' \in [GoalIds -> {"active", "abandoned", "deleted"} \cup GoalEnds]
<1>1. milestone[g] \in [1 .. Steps -> StepStatuses]
  BY DEF GoalRowTypes, StepStatuses
<1>2. [milestone[g] EXCEPT ![i] = s] \in [1 .. Steps -> StepStatuses]
  BY <1>1
<1>3. milestone' = [milestone EXCEPT ![g] = [milestone[g] EXCEPT ![i] = s]]
  BY DEF SetMilestone
<1>. QED
  BY <1>2, <1>3 DEF SetMilestone, GoalRowTypes, GoalEnds, StepStatuses

\* What becomes of the milestones when one of them is set.
OneStepSet(g, i, s) ==
    /\ \A h \in GoalIds \ {g} : milestone'[h] = milestone[h]
    /\ milestone'[g][i] = s
    /\ \A j \in (1 .. Steps) \ {i} : milestone'[g][j] = milestone[g][j]

\* The status of the goal follows.
LEMMA SetMilestoneSets ==
  ASSUME GoalRowTypes, NEW g \in GoalIds, NEW i \in 1 .. Steps, NEW s \in StepStatuses,
         SetMilestone(g, i, s)
  PROVE  /\ OneStepSet(g, i, s)
         /\ \A h \in GoalIds \ {g} : goal'[h] = goal[h]
         /\ goal'[g] = "completed" => AllDone(milestone'[g])
         /\ goal'[g] \notin {"completed", "active"} => goal'[g] = goal[g]
<1>1. milestone[g] \in [1 .. Steps -> StepStatuses]
  BY DEF GoalRowTypes, StepStatuses
<1>2. milestone' = [milestone EXCEPT ![g] = [milestone[g] EXCEPT ![i] = s]]
  BY DEF SetMilestone
<1>3. milestone'[g] = [milestone[g] EXCEPT ![i] = s]
  BY <1>2 DEF GoalRowTypes
<1>4. OneStepSet(g, i, s)
  BY <1>1, <1>2, <1>3 DEF OneStepSet, GoalRowTypes
<1>. QED
  BY <1>3, <1>4 DEF SetMilestone, GoalRowTypes

LEMMA DriverTypes ==
  ASSUME GoalInv, NEW r \in GoalRuns,
         DriverNext(r) \/ \E s \in {"completed", "failed", "cancelled"} : StepJobEnds(r, s)
  PROVE  GoalTypes'
<1>. USE DEF DriverUnchanged, Drives, Errs, goalRows, goalBounds
<1>1. UNCHANGED <<stopper, goalBounds>>
  BY DEF DriverNext, DriverEndsRun, DriverSkips, DriverStarts, DriverCannotStart, DriverRecords,
         DriverCancelsJob, DriverPauses, DriverJudges, DriverSaves, DriverEnds, StepJobEnds
<1>2. GoalRowTypes /\ GoalRunTypes /\ Steps \in Nat
  BY GoalAssumption DEF GoalInv, GoalTypes
<1>3. /\ stepAt[r] \in 1 .. (Steps + 1) /\ goalOf[r] \in GoalIds
      /\ stepAt[r] <= Steps => stepAt[r] \in 1 .. Steps /\ stepAt[r] + 1 \in 1 .. (Steps + 1)
  BY <1>2 DEF GoalRunTypes
<1>4. driver[r] \in {"recording", "working"} => stepAt[r] <= Steps
  BY DEF GoalInv, AtStep
<1>5. GoalRunTypes'
  <2>. USE <1>2, <1>3 DEF GoalRunTypes, GoalEnds, Unfinished, Busy
  <2>1. CASE DriverEndsRun(r) \/ DriverCannotStart(r)
    BY <2>1 DEF DriverEndsRun, DriverCannotStart
  <2>2. CASE DriverSkips(r)
    BY <2>2 DEF DriverSkips, IsDone, AtEnd
  <2>3. CASE DriverStarts(r)
    BY <2>3 DEF DriverStarts
  <2>4. CASE DriverRecords(r)
    BY <2>4 DEF DriverRecords
  <2>5. CASE DriverCancelsJob(r)
    BY <2>5 DEF DriverCancelsJob, JudgeFails
  <2>6. CASE DriverPauses(r)
    BY <2>6 DEF DriverPauses, JudgeFails
  <2>7. CASE \E p \in BOOLEAN : DriverJudges(r, p)
    BY <1>4, <2>7 DEF DriverJudges, JudgeFails
  <2>8. CASE DriverSaves(r) \/ DriverEnds(r)
    BY <2>8 DEF DriverSaves, DriverEnds
  <2>9. CASE \E s \in {"completed", "failed", "cancelled"} : StepJobEnds(r, s)
    BY <2>9 DEF StepJobEnds
  <2>. QED
    BY <2>1, <2>2, <2>3, <2>4, <2>5, <2>6, <2>7, <2>8, <2>9 DEF DriverNext
<1>6. GoalRowTypes'
  <2>1. CASE \/ DriverEndsRun(r) \/ DriverCannotStart(r) \/ DriverSkips(r) \/ DriverStarts(r)
             \/ DriverEnds(r) \/ \E s \in {"completed", "failed", "cancelled"} : StepJobEnds(r, s)
    BY <1>2, <2>1 DEF DriverEndsRun, DriverCannotStart, DriverSkips, DriverStarts, DriverEnds,
                      StepJobEnds, GoalRowTypes
  <2>2. CASE DriverRecords(r)
    <3>1. [milestone[goalOf[r]] EXCEPT ![stepAt[r]] = "in_progress"] \in [1 .. Steps -> StepStatuses]
      BY <1>2, <1>3 DEF GoalRowTypes, StepStatuses
    <3>2. milestone' = milestone
             \/ milestone' = [milestone EXCEPT ![goalOf[r]] =
                                 [milestone[goalOf[r]] EXCEPT ![stepAt[r]] = "in_progress"]]
      BY <2>2 DEF DriverRecords
    <3>. QED
      BY <1>2, <1>3, <2>2, <3>1, <3>2 DEF DriverRecords, GoalRowTypes, StepStatuses
  <2>3. CASE DriverCancelsJob(r)
    BY <1>2, <1>3, <2>3 DEF DriverCancelsJob, JudgeFails, GoalRowTypes
  <2>4. CASE DriverPauses(r) \/ \E p \in BOOLEAN : DriverJudges(r, p)
    <3>1. CASE JudgeFails(r)
      BY <1>2, <1>3, <3>1 DEF JudgeFails, GoalRowTypes
    <3>2. CASE ~JudgeFails(r)
      <4>1. PICK s \in StepStatuses : SetMilestone(goalOf[r], stepAt[r], s)
        BY <2>4, <3>2 DEF DriverPauses, DriverJudges, StepStatuses
      <4>2. UNCHANGED <<goalRunning, goalUnsaved>>
        BY <2>4, <3>2 DEF DriverPauses, DriverJudges
      <4>3. stepAt[r] \in 1 .. Steps
        BY <1>3, <1>4, <2>4 DEF DriverPauses, DriverJudges
      <4>. QED
        BY <1>2, <1>3, <4>1, <4>2, <4>3, SetMilestoneTypes DEF GoalRowTypes, StepStatuses
    <3>. QED
      BY <3>1, <3>2
  <2>5. CASE DriverSaves(r)
    <3>1. ending[r] \in GoalEnds
      BY <2>5 DEF DriverSaves, GoalInv, AtStep
    <3>. QED
      BY <1>2, <1>3, <2>5, <3>1 DEF DriverSaves, FinishGoal, GoalRowTypes
  <2>. QED
    BY <2>1, <2>2, <2>3, <2>4, <2>5 DEF DriverNext
<1>. QED
  BY <1>1, <1>5, <1>6 DEF GoalInv, GoalTypes

LEMMA RequestTypes ==
  ASSUME GoalInv, NEW g \in GoalIds,
         \/ StartGoalRefused(g) \/ DeleteGoal(g)
         \/ \E r \in GoalRuns : StartGoal(g, r)
         \/ \E c \in GoalStoppers, to \in {"paused", "abandoned"} : StopGoal(c, g, to)
         \/ \E i \in 1 .. Steps, s \in {"pending", "done"} : EditMilestone(g, i, s)
  PROVE  GoalTypes'
<1>. USE DEF goalBounds, goalRows, driverVars
<1>. GoalTypes /\ GoalRowTypes /\ GoalRunTypes
  BY DEF GoalInv, GoalTypes
<1>1. Retained \in [GoalIds -> GoalRuns \cup {NoGoalRun}]
  BY DEF Retained, GoalRunTypes
<1>2. CASE StartGoalRefused(g)
  BY <1>1, <1>2 DEF StartGoalRefused, GoalTypes, GoalRowTypes, GoalRunTypes
<1>3. CASE DeleteGoal(g)
  <2>1. [i \in 1 .. Steps |-> "pending"] \in [1 .. Steps -> StepStatuses]
    BY DEF StepStatuses
  <2>. QED
    BY <1>3, <2>1 DEF DeleteGoal, GoalTypes, GoalRowTypes, GoalRunTypes, StepStatuses
<1>4. ASSUME NEW r \in GoalRuns, StartGoal(g, r) PROVE GoalTypes'
  <2>1. Begun(milestone[g]) \in [1 .. Steps -> StepStatuses]
    BY DEF Begun, GoalRowTypes, StepStatuses
  <2>2. GoalRowTypes'
    BY <1>4, <2>1 DEF StartGoal, GoalRowTypes, StepStatuses
  <2>3. GoalRunTypes'
    BY <1>1, <1>4 DEF StartGoal, GoalRunTypes, Unfinished, Busy
  <2>. QED
    BY <1>4, <2>2, <2>3 DEF StartGoal, GoalTypes
<1>5. ASSUME NEW c \in GoalStoppers, NEW to \in {"paused", "abandoned"}, StopGoal(c, g, to) PROVE GoalTypes'
  <2>1. CASE goalRegistry[g] # NoGoalRun
    <3>1. goalRegistry[g] \in GoalRuns
      BY <2>1 DEF GoalRunTypes
    <3>2. [pc |-> "waiting", run |-> goalRegistry[g], to |-> to]
             \in [pc : {"waiting"}, run : GoalRuns, to : {"paused", "abandoned"}]
      BY <3>1
    <3>3. stopper' = [stopper EXCEPT ![c] = [pc |-> "waiting", run |-> goalRegistry[g], to |-> to]]
      BY <1>5, <2>1 DEF StopGoal
    <3>4. stopper' \in [GoalStoppers ->
             {NotStopping} \cup [pc : {"waiting"}, run : GoalRuns, to : {"paused", "abandoned"}]]
      BY <3>2, <3>3, Zenon DEF GoalTypes
    <3>. QED
      BY <1>5, <2>1, <3>1, <3>4 DEF StopGoal, GoalTypes, GoalRowTypes, GoalRunTypes
  <2>2. CASE goalRegistry[g] = NoGoalRun
    <3>1. UNCHANGED <<goalRegistry, driverVars, goalBounds, goalUnsaved, milestone, goalStopped, stopper>>
      BY <1>5, <2>2 DEF StopGoal
    <3>2. goal' = [goal EXCEPT ![g] = to] /\ goalRunning' = goalRunning \ {g}
      BY <1>5, <2>2 DEF StopGoal, FinishGoal
    <3>3. GoalRowTypes'
      BY <3>1, <3>2 DEF GoalRowTypes, GoalEnds
    <3>. QED
      BY <3>1, <3>3 DEF GoalTypes, GoalRunTypes
  <2>. QED
    BY <2>1, <2>2
<1>6. ASSUME NEW i \in 1 .. Steps, NEW s \in {"pending", "done"}, EditMilestone(g, i, s) PROVE GoalTypes'
  <2>1. GoalRowTypes'
    BY <1>6, SetMilestoneTypes DEF EditMilestone, GoalRowTypes, StepStatuses
  <2>. QED
    BY <1>6, <2>1, GoalAssumption DEF EditMilestone, GoalTypes, GoalRunTypes
<1>. QED
  BY <1>2, <1>3, <1>4, <1>5, <1>6

LEMMA ProgramTypes ==
  ASSUME GoalInv,
         \/ GoalsClose \/ CancelGoals \/ GoalsRestart
         \/ \E c \in GoalStoppers : StopGoalReturns(c)
  PROVE  GoalTypes'
<1>. USE DEF goalBounds, goalRows, driverVars
<1>. GoalTypes /\ GoalRowTypes /\ GoalRunTypes
  BY DEF GoalInv, GoalTypes
<1>1. CASE GoalsClose \/ CancelGoals
  BY <1>1 DEF GoalsClose, CancelGoals, GoalTypes, GoalRowTypes, GoalRunTypes
<1>2. CASE GoalsRestart
  <2>1. \A g \in GoalIds : Recovered(milestone[g]) \in [1 .. Steps -> StepStatuses]
    BY DEF Recovered, GoalRowTypes, StepStatuses
  <2>2. GoalRowTypes'
    BY <1>2, <2>1 DEF GoalsRestart, GoalRowTypes, StepStatuses, GoalEnds
  <2>3. GoalRunTypes'
    BY <1>2 DEF GoalsRestart, GoalRunTypes, Unfinished, Busy
  <2>4. stopper' \in [GoalStoppers ->
           {NotStopping} \cup [pc : {"waiting"}, run : GoalRuns, to : {"paused", "abandoned"}]]
    BY <1>2, Zenon DEF GoalsRestart
  <2>5. goalsClosing' \in BOOLEAN /\ goalEdits' \in Nat /\ goalRestarts' \in Nat
    <3>1. goalsClosing' = FALSE /\ goalEdits' = goalEdits /\ goalRestarts' = goalRestarts + 1
      BY <1>2, Zenon DEF GoalsRestart
    <3>2. goalEdits \in Nat /\ goalRestarts \in Nat
      BY Zenon DEF GoalTypes
    <3>3. goalRestarts' \in Nat
      BY <3>1, <3>2
    <3>. QED
      BY <3>1, <3>2, <3>3, Zenon
  <2>. QED
    BY <2>2, <2>3, <2>4, <2>5 DEF GoalTypes
<1>3. ASSUME NEW c \in GoalStoppers, StopGoalReturns(c) PROVE GoalTypes'
  <2>1. stopper' \in [GoalStoppers ->
           {NotStopping} \cup [pc : {"waiting"}, run : GoalRuns, to : {"paused", "abandoned"}]]
    BY <1>3, Zenon DEF StopGoalReturns, GoalTypes
  <2>2. goal' \in [GoalIds -> {"active", "abandoned", "deleted"} \cup GoalEnds]
           /\ goalRunning' \subseteq GoalIds
    BY <1>3 DEF StopGoalReturns, FinishGoal, GoalRowTypes
  <2>. QED
    BY <1>3, <2>1, <2>2 DEF StopGoalReturns, GoalTypes, GoalRowTypes, GoalRunTypes
<1>. QED
  BY <1>1, <1>2, <1>3
-----------------------------------------------------------------------------
(* Steps of a worker                                                       *)

LEMMA DriverKeeps ==
  ASSUME GoalInv, NEW r \in GoalRuns,
         DriverNext(r) \/ \E s \in {"completed", "failed", "cancelled"} : StepJobEnds(r, s)
  PROVE  GoalInv'
<1>. USE DEF DriverUnchanged, Drives, Errs, goalRows, goalBounds
<1>1. GoalTypes'
  BY DriverTypes
<1>2. GoalRowTypes /\ GoalRunTypes /\ GoalRowTypes' /\ GoalRunTypes'
  BY <1>1 DEF GoalInv, GoalTypes
<1>3. UNCHANGED <<goalRegistry, goalStopped, goalOf>>
  BY DEF DriverNext, DriverEndsRun, DriverSkips, DriverStarts, DriverCannotStart, DriverRecords,
         DriverCancelsJob, DriverPauses, DriverJudges, DriverSaves, DriverEnds, StepJobEnds
<1>4. \A s \in GoalRuns \ {r} : driver'[s] = driver[s] /\ stepAt'[s] = stepAt[s] /\ ending'[s] = ending[s]
  <2>. USE <1>2 DEF GoalRunTypes
  <2>1. CASE DriverEndsRun(r) \/ DriverSkips(r) \/ DriverStarts(r) \/ DriverCannotStart(r) \/ DriverRecords(r)
    BY <2>1 DEF DriverEndsRun, DriverSkips, DriverStarts, DriverCannotStart, DriverRecords
  <2>2. CASE DriverCancelsJob(r) \/ DriverPauses(r) \/ \E p \in BOOLEAN : DriverJudges(r, p)
    BY <2>2 DEF DriverCancelsJob, DriverPauses, DriverJudges, JudgeFails
  <2>3. CASE DriverSaves(r) \/ DriverEnds(r) \/ \E s \in {"completed", "failed", "cancelled"} : StepJobEnds(r, s)
    BY <2>3 DEF DriverSaves, DriverEnds, StepJobEnds
  <2>. QED
    BY <2>1, <2>2, <2>3 DEF DriverNext
<1>5. driver[r] \in Unfinished =>
         \A s \in GoalRuns \ {r} : goalOf[s] = goalOf[r] => driver[s] \notin Unfinished
  BY AloneAtGoal
<1>6. Registered /\ AtStep /\ RestingGoalsRest /\ CompletedIsDone /\ RowsTellDrivers /\ Steps \in Nat
  BY GoalAssumption DEF GoalInv
<1>7. goalOf[r] \in GoalIds /\ stepAt[r] \in 1 .. (Steps + 1)
  BY <1>2 DEF GoalRunTypes
<1>8. Registered'
  <2>. USE <1>2, <1>3, <1>4, <1>5, <1>6, <1>7 DEF Registered, GoalRunTypes, Unfinished, Busy
  <2>1. CASE DriverEndsRun(r)
    BY <2>1 DEF DriverEndsRun
  <2>2. CASE DriverSkips(r)
    BY <2>2 DEF DriverSkips
  <2>3. CASE DriverStarts(r)
    BY <2>3 DEF DriverStarts
  <2>4. CASE DriverCannotStart(r)
    BY <2>4 DEF DriverCannotStart
  <2>5. CASE DriverRecords(r)
    BY <2>5 DEF DriverRecords
  <2>6. CASE DriverCancelsJob(r)
    BY <2>6 DEF DriverCancelsJob, JudgeFails
  <2>7. CASE DriverPauses(r)
    BY <2>7 DEF DriverPauses, JudgeFails
  <2>8. CASE \E p \in BOOLEAN : DriverJudges(r, p)
    BY <2>8 DEF DriverJudges, JudgeFails
  <2>9. CASE DriverSaves(r)
    BY <2>9 DEF DriverSaves
  <2>10. CASE DriverEnds(r)
    BY <2>10 DEF DriverEnds
  <2>11. CASE \E s \in {"completed", "failed", "cancelled"} : StepJobEnds(r, s)
    BY <2>11 DEF StepJobEnds
  <2>. QED
    BY <2>1, <2>2, <2>3, <2>4, <2>5, <2>6, <2>7, <2>8, <2>9, <2>10, <2>11 DEF DriverNext
<1>9. AtStep'
  <2>. USE <1>2, <1>3, <1>4, <1>5, <1>6, <1>7 DEF AtStep, GoalRowTypes, GoalRunTypes, Unfinished, Busy, GoalEnds, SetMilestone, FinishGoal, IsDone, AtEnd
  <2>1. CASE DriverEndsRun(r)
    BY <2>1 DEF DriverEndsRun
  <2>2. CASE DriverSkips(r)
    BY <2>2 DEF DriverSkips
  <2>3. CASE DriverStarts(r)
    BY <2>3 DEF DriverStarts
  <2>4. CASE DriverCannotStart(r)
    BY <2>4 DEF DriverCannotStart
  <2>5. CASE DriverRecords(r)
    BY <2>5 DEF DriverRecords
  <2>6. CASE DriverCancelsJob(r)
    BY <2>6 DEF DriverCancelsJob, JudgeFails
  <2>7. CASE DriverPauses(r)
    BY <2>7 DEF DriverPauses, JudgeFails
  <2>8. CASE \E p \in BOOLEAN : DriverJudges(r, p)
    BY <2>8 DEF DriverJudges, JudgeFails
  <2>9. CASE DriverSaves(r)
    BY <2>9 DEF DriverSaves
  <2>10. CASE DriverEnds(r)
    BY <2>10 DEF DriverEnds
  <2>11. CASE \E s \in {"completed", "failed", "cancelled"} : StepJobEnds(r, s)
    BY <2>11 DEF StepJobEnds
  <2>. QED
    BY <2>1, <2>2, <2>3, <2>4, <2>5, <2>6, <2>7, <2>8, <2>9, <2>10, <2>11 DEF DriverNext
<1>10. ASSUME ~JudgeFails(r), DriverPauses(r) \/ \E p \in BOOLEAN : DriverJudges(r, p)
       PROVE  /\ \E s \in {"pending", "done", "failed"} : OneStepSet(goalOf[r], stepAt[r], s)
              /\ \A g \in GoalIds \ {goalOf[r]} : goal'[g] = goal[g]
              /\ goal'[goalOf[r]] = "completed" => AllDone(milestone'[goalOf[r]])
              /\ goal'[goalOf[r]] \notin {"completed", "active"} => goal'[goalOf[r]] = goal[goalOf[r]]
              /\ stepAt[r] \in 1 .. Steps
              /\ goalRunning' = goalRunning /\ goalUnsaved' = goalUnsaved
              /\ driver[r] = "working" /\ driver'[r] \in {"driving", "saving"}
  <2>1. PICK s \in {"pending", "done", "failed"} : SetMilestone(goalOf[r], stepAt[r], s)
    BY <1>10 DEF DriverPauses, DriverJudges
  <2>2. driver[r] = "working" /\ stepAt[r] \in 1 .. Steps
    BY <1>6, <1>7, <1>10 DEF DriverPauses, DriverJudges, AtStep
  <2>3. /\ goalRunning' = goalRunning /\ goalUnsaved' = goalUnsaved
        /\ driver'[r] \in {"driving", "saving"}
    BY <1>2, <1>10 DEF DriverPauses, DriverJudges, GoalRunTypes
  <2>. QED
    BY <1>2, <1>7, <2>1, <2>2, <2>3, SetMilestoneSets DEF StepStatuses
<1>11. ASSUME DriverRecords(r), milestone' # milestone
       PROVE  /\ OneStepSet(goalOf[r], stepAt[r], "in_progress")
              /\ driver[r] = "recording" /\ driver'[r] = "working"
              /\ goalUnsaved' = goalUnsaved /\ stepAt'[r] = stepAt[r]
              /\ stepAt[r] \in 1 .. Steps /\ milestone[goalOf[r]][stepAt[r]] # "done"
  <2>1. milestone' = [milestone EXCEPT ![goalOf[r]] =
                         [milestone[goalOf[r]] EXCEPT ![stepAt[r]] = "in_progress"]]
    BY <1>11 DEF DriverRecords
  <2>2. driver[r] = "recording" /\ stepAt[r] \in 1 .. Steps /\ milestone[goalOf[r]][stepAt[r]] # "done"
    BY <1>6, <1>7, <1>11 DEF DriverRecords, AtStep
  <2>3. milestone[goalOf[r]] \in [1 .. Steps -> StepStatuses]
    BY <1>2, <1>7 DEF GoalRowTypes, StepStatuses
  <2>4. milestone'[goalOf[r]] = [milestone[goalOf[r]] EXCEPT ![stepAt[r]] = "in_progress"]
    BY <1>2, <1>7, <2>1 DEF GoalRowTypes
  <2>5. OneStepSet(goalOf[r], stepAt[r], "in_progress")
    BY <1>2, <1>7, <2>1, <2>2, <2>3, <2>4 DEF OneStepSet, GoalRowTypes
  <2>6. driver'[r] = "working" /\ goalUnsaved' = goalUnsaved /\ stepAt'[r] = stepAt[r]
    BY <1>2, <1>11 DEF DriverRecords, GoalRunTypes
  <2>. QED
    BY <2>2, <2>5, <2>6
<1>12. RestingGoalsRest' /\ CompletedIsDone'
  <2>. USE <1>2, <1>3, <1>4, <1>5, <1>6, <1>7 DEF RestingGoalsRest, CompletedIsDone, GoalRowTypes, GoalRunTypes, Unfinished, Busy
  <2>1. CASE DriverEndsRun(r)
    BY <2>1 DEF DriverEndsRun
  <2>2. CASE DriverSkips(r)
    BY <2>2 DEF DriverSkips
  <2>3. CASE DriverStarts(r)
    BY <2>3 DEF DriverStarts
  <2>4. CASE DriverCannotStart(r)
    BY <2>4 DEF DriverCannotStart
  <2>5. CASE DriverRecords(r)
    <3>1. RestingGoalsRest' /\ goal' = goal
      BY <2>5 DEF DriverRecords
    <3>2. CompletedIsDone'
      <4>1. CASE milestone' = milestone
        BY <3>1, <4>1
      <4>2. CASE milestone' # milestone
        <5>1. goal[goalOf[r]] # "completed"
          BY <1>11, <2>5, <4>2 DEF AllDone
        <5>. QED
          BY <1>11, <2>5, <3>1, <4>2, <5>1 DEF OneStepSet
      <4>. QED
        BY <4>1, <4>2
    <3>. QED
      BY <3>1, <3>2
  <2>6. CASE DriverCancelsJob(r)
    BY <2>6 DEF DriverCancelsJob, JudgeFails
  <2>7. CASE DriverPauses(r) \/ \E p \in BOOLEAN : DriverJudges(r, p)
    <3>1. CASE JudgeFails(r)
      BY <3>1 DEF JudgeFails
    <3>2. CASE ~JudgeFails(r)
      <4>1. ASSUME NEW g \in GoalIds, goal'[g] = "completed" PROVE AllDone(milestone'[g])
        <5>1. CASE g = goalOf[r]
          BY <1>10, <2>7, <3>2, <4>1, <5>1
        <5>2. CASE g # goalOf[r]
          BY <1>10, <2>7, <3>2, <4>1, <5>2 DEF OneStepSet
        <5>. QED
          BY <5>1, <5>2
      <4>2. ASSUME NEW s \in GoalRuns, goal'[goalOf[s]] \in {"paused", "blocked", "abandoned"}
            PROVE  driver'[s] \notin Busy
        <5>1. CASE goalOf[s] = goalOf[r]
          <6>1. goal[goalOf[r]] \in {"paused", "blocked", "abandoned"} /\ driver[r] = "working"
            BY <1>10, <2>7, <3>2, <4>2, <5>1
          <6>. QED
            BY <6>1
        <5>2. CASE goalOf[s] # goalOf[r]
          BY <1>10, <2>7, <3>2, <4>2, <5>2
        <5>. QED
          BY <5>1, <5>2
      <4>. QED
        BY <4>1, <4>2
    <3>. QED
      BY <3>1, <3>2
  <2>8. CASE DriverSaves(r)
    BY <2>8 DEF DriverSaves, FinishGoal
  <2>9. CASE DriverEnds(r)
    BY <2>9 DEF DriverEnds
  <2>10. CASE \E s \in {"completed", "failed", "cancelled"} : StepJobEnds(r, s)
    BY <2>10 DEF StepJobEnds
  <2>. QED
    BY <2>1, <2>2, <2>3, <2>4, <2>5, <2>6, <2>7, <2>8, <2>9, <2>10 DEF DriverNext
<1>13. RowsTellDrivers'
  <2>. USE <1>2, <1>3, <1>4, <1>5, <1>6, <1>7 DEF RowsTellDrivers, GoalRowTypes, GoalRunTypes, Unfinished, Busy
  <2>1. CASE DriverEndsRun(r)
    BY <2>1 DEF DriverEndsRun
  <2>2. CASE DriverSkips(r)
    BY <2>2 DEF DriverSkips
  <2>3. CASE DriverStarts(r)
    BY <2>3 DEF DriverStarts
  <2>4. CASE DriverCannotStart(r)
    BY <2>4 DEF DriverCannotStart
  <2>5. CASE DriverRecords(r)
    <3>1. CASE milestone' = milestone
      <4>1. driver'[r] \in {"working", "saving"} /\ goalRunning' = goalRunning /\ driver[r] = "recording"
        BY <2>5 DEF DriverRecords
      <4>2. goalUnsaved' = goalUnsaved \/ (goalOf[r] \in goalUnsaved' /\ goalUnsaved \subseteq goalUnsaved')
        BY <2>5 DEF DriverRecords
      <4>3. ASSUME NEW g \in GoalIds \ goalUnsaved', g \in goalRunning
            PROVE \E s \in GoalRuns : goalOf[s] = g /\ driver'[s] \in Busy \cup {"saving"}
        <5>1. PICK s \in GoalRuns : goalOf[s] = g /\ driver[s] \in Busy \cup {"saving"}
          BY <4>2, <4>3
        <5>. QED
          BY <4>1, <5>1
      <4>4. ASSUME NEW g \in GoalIds \ goalUnsaved', NEW i \in 1 .. Steps, milestone'[g][i] = "in_progress"
            PROVE \E s \in GoalRuns : goalOf[s] = g /\ driver'[s] = "working" /\ stepAt'[s] = i
        <5>1. PICK s \in GoalRuns : goalOf[s] = g /\ driver[s] = "working" /\ stepAt[s] = i
          BY <3>1, <4>2, <4>4
        <5>2. s # r
          BY <4>1, <5>1
        <5>. QED
          BY <5>1, <5>2
      <4>. QED
        BY <4>1, <4>3, <4>4
    <3>2. CASE milestone' # milestone
      <4>1. goalRunning' = goalRunning
        BY <2>5 DEF DriverRecords
      <4>2. ASSUME NEW g \in GoalIds \ goalUnsaved', g \in goalRunning
            PROVE \E s \in GoalRuns : goalOf[s] = g /\ driver'[s] \in Busy \cup {"saving"}
        BY <1>11, <2>5, <3>2, <4>2
      <4>3. ASSUME NEW g \in GoalIds \ goalUnsaved', NEW i \in 1 .. Steps, milestone'[g][i] = "in_progress"
            PROVE \E s \in GoalRuns : goalOf[s] = g /\ driver'[s] = "working" /\ stepAt'[s] = i
        <5>1. CASE g = goalOf[r] /\ i = stepAt[r]
          BY <1>11, <2>5, <3>2, <5>1
        <5>2. CASE g # goalOf[r] \/ i # stepAt[r]
          <6>1. milestone[g][i] = "in_progress"
            BY <1>11, <2>5, <3>2, <4>3, <5>2 DEF OneStepSet
          <6>2. PICK s \in GoalRuns : goalOf[s] = g /\ driver[s] = "working" /\ stepAt[s] = i
            BY <1>11, <2>5, <3>2, <6>1
          <6>3. s # r
            BY <1>11, <2>5, <3>2, <6>2
          <6>. QED
            BY <6>2, <6>3
        <5>. QED
          BY <5>1, <5>2
      <4>. QED
        BY <4>1, <4>2, <4>3
    <3>. QED
      BY <3>1, <3>2
  <2>6. CASE DriverCancelsJob(r)
    BY <2>6 DEF DriverCancelsJob, JudgeFails
  <2>7. CASE DriverPauses(r) \/ \E p \in BOOLEAN : DriverJudges(r, p)
    <3>1. CASE JudgeFails(r)
      BY <3>1 DEF JudgeFails
    <3>2. CASE ~JudgeFails(r)
      <4>1. ASSUME NEW g \in GoalIds \ goalUnsaved', g \in goalRunning
            PROVE \E s \in GoalRuns : goalOf[s] = g /\ driver'[s] \in Busy \cup {"saving"}
        <5>1. PICK s \in GoalRuns : goalOf[s] = g /\ driver[s] \in Busy \cup {"saving"}
          BY <1>10, <2>7, <3>2, <4>1
        <5>. QED
          BY <1>10, <2>7, <3>2, <5>1
      <4>2. ASSUME NEW g \in GoalIds \ goalUnsaved', NEW i \in 1 .. Steps, milestone'[g][i] = "in_progress"
            PROVE \E s \in GoalRuns : goalOf[s] = g /\ driver'[s] = "working" /\ stepAt'[s] = i
        <5>1. g # goalOf[r] \/ i # stepAt[r]
          BY <1>10, <2>7, <3>2, <4>2 DEF OneStepSet
        <5>2. milestone[g][i] = "in_progress" /\ g \notin goalUnsaved
          BY <1>10, <2>7, <3>2, <4>2, <5>1 DEF OneStepSet
        <5>3. PICK s \in GoalRuns : goalOf[s] = g /\ driver[s] = "working" /\ stepAt[s] = i
          BY <5>2
        <5>4. s # r
          BY <5>1, <5>3
        <5>. QED
          BY <5>3, <5>4
      <4>3. goalRunning' = goalRunning
        BY <1>10, <2>7, <3>2
      <4>. QED
        BY <4>1, <4>2, <4>3
    <3>. QED
      BY <3>1, <3>2
  <2>8. CASE DriverSaves(r)
    <3>1. driver[r] = "saving" /\ driver'[r] = "saved" /\ milestone' = milestone
      BY <2>8 DEF DriverSaves, FinishGoal
    <3>2. \/ goalRunning' = goalRunning \ {goalOf[r]} /\ goalUnsaved' = goalUnsaved
          \/ goalRunning' = goalRunning /\ goalUnsaved' = goalUnsaved \cup {goalOf[r]}
      BY <2>8 DEF DriverSaves, FinishGoal
    <3>3. stepAt' = stepAt
      BY <2>8 DEF DriverSaves
    <3>4. ASSUME NEW g \in GoalIds \ goalUnsaved', g \in goalRunning'
          PROVE \E s \in GoalRuns : goalOf'[s] = g /\ driver'[s] \in Busy \cup {"saving"}
      <4>1. g \in goalRunning /\ g # goalOf[r] /\ g \notin goalUnsaved
        BY <3>2, <3>4
      <4>2. PICK s \in GoalRuns : goalOf[s] = g /\ driver[s] \in Busy \cup {"saving"}
        BY <4>1
      <4>. QED
        BY <4>1, <4>2
    <3>5. ASSUME NEW g \in GoalIds \ goalUnsaved', NEW i \in 1 .. Steps, milestone'[g][i] = "in_progress"
          PROVE \E s \in GoalRuns : goalOf'[s] = g /\ driver'[s] = "working" /\ stepAt'[s] = i
      <4>1. PICK s \in GoalRuns : goalOf[s] = g /\ driver[s] = "working" /\ stepAt[s] = i
        BY <3>1, <3>2, <3>5
      <4>2. s # r
        BY <3>1, <4>1
      <4>. QED
        BY <3>3, <4>1, <4>2, <1>3, <1>4
    <3>. QED
      BY <3>4, <3>5
  <2>9. CASE DriverEnds(r)
    <3>1. UNCHANGED <<goalRows, goalUnsaved, stepAt>> /\ driver[r] = "saved"
      BY <2>9 DEF DriverEnds
    <3>2. \A s \in GoalRuns : driver[s] # "saved" => driver'[s] = driver[s]
      BY <3>1
    <3>. QED
      BY <3>1, <3>2
  <2>10. CASE \E s \in {"completed", "failed", "cancelled"} : StepJobEnds(r, s)
    BY <2>10 DEF StepJobEnds
  <2>. QED
    BY <2>1, <2>2, <2>3, <2>4, <2>5, <2>6, <2>7, <2>8, <2>9, <2>10 DEF DriverNext
<1>. QED
  BY <1>1, <1>8, <1>9, <1>12, <1>13 DEF GoalInv


-----------------------------------------------------------------------------
(* Steps of requests and of the program                                    *)

\* A request that changes a goal whose run is over, or that has none.
LEMMA RequestKeeps ==
  ASSUME GoalInv, NEW g \in GoalIds,
         \/ StartGoalRefused(g) \/ DeleteGoal(g)
         \/ \E r \in GoalRuns : StartGoal(g, r)
         \/ \E c \in GoalStoppers, to \in {"paused", "abandoned"} : StopGoal(c, g, to)
         \/ \E i \in 1 .. Steps, s \in {"pending", "done"} : EditMilestone(g, i, s)
  PROVE  GoalInv'
<1>. USE DEF goalRows, goalBounds, driverVars
<1>1. GoalTypes'
  BY RequestTypes
<1>2. GoalRowTypes /\ GoalRunTypes /\ GoalRowTypes' /\ GoalRunTypes'
  BY <1>1 DEF GoalInv, GoalTypes
<1>3. Registered /\ AtStep /\ RestingGoalsRest /\ CompletedIsDone /\ RowsTellDrivers /\ Steps \in Nat
  BY GoalAssumption DEF GoalInv
<1>4. \A s \in GoalRuns : driver[s] \in Unfinished => Retained[goalOf[s]] = s
  BY <1>2, <1>3 DEF Retained, Registered, Resting, Unfinished, Busy, GoalRunTypes
<1>5. CASE StartGoalRefused(g)
  <2>1. Registered'
    BY <1>4, <1>5 DEF StartGoalRefused, Registered
  <2>. QED
    BY <1>1, <1>3, <1>5, <2>1 DEF StartGoalRefused, GoalInv, AtStep, RestingGoalsRest, CompletedIsDone,
                                  RowsTellDrivers
<1>6. CASE DeleteGoal(g)
  <2>1. \A s \in GoalRuns : driver[s] \in Unfinished => goalOf[s] # g
    BY <1>6, NobodyAtGoal DEF DeleteGoal
  <2>2. UNCHANGED <<driver, goalOf, stepAt, ending, goalUnsaved>> /\ goalRunning' = goalRunning \ {g}
    BY <1>6 DEF DeleteGoal
  <2>3. /\ goal'[g] = "deleted" /\ goalRegistry'[g] = NoGoalRun
        /\ \A i \in 1 .. Steps : milestone'[g][i] = "pending"
        /\ \A h \in GoalIds \ {g} : /\ goal'[h] = goal[h] /\ milestone'[h] = milestone[h]
                                    /\ goalRegistry'[h] = goalRegistry[h]
    BY <1>2, <1>6 DEF DeleteGoal, GoalRowTypes, GoalRunTypes
  <2>4. Registered' /\ AtStep'
    BY <1>2, <1>3, <2>1, <2>2, <2>3 DEF Registered, AtStep, Unfinished, Busy, GoalRunTypes
  <2>5. RestingGoalsRest' /\ CompletedIsDone'
    BY <1>2, <1>3, <2>2, <2>3 DEF RestingGoalsRest, CompletedIsDone, GoalRunTypes
  <2>6. RowsTellDrivers'
    BY <1>2, <1>3, <2>2, <2>3 DEF RowsTellDrivers
  <2>. QED
    BY <1>1, <2>4, <2>5, <2>6 DEF GoalInv
<1>7. ASSUME NEW r \in GoalRuns, StartGoal(g, r) PROVE GoalInv'
  <2>1. \A s \in GoalRuns : driver[s] \in Unfinished => goalOf[s] # g /\ s # r
    BY <1>7, NobodyAtGoal DEF StartGoal, CanStart, Unfinished, Busy
  <2>2. /\ driver'[r] = "driving" /\ goalOf'[r] = g
        /\ \A s \in GoalRuns \ {r} : driver'[s] = driver[s] /\ goalOf'[s] = goalOf[s]
        /\ UNCHANGED <<stepAt, ending, goalUnsaved>> /\ goalRunning' = goalRunning \cup {g}
    BY <1>2, <1>7 DEF StartGoal, GoalRunTypes
  <2>3. /\ goal'[g] = "active"
        /\ \A i \in 1 .. Steps : milestone'[g][i] # "in_progress"
        /\ \A h \in GoalIds \ {g} : goal'[h] = goal[h] /\ milestone'[h] = milestone[h]
    BY <1>2, <1>7 DEF StartGoal, Begun, GoalRowTypes
  <2>4. /\ goalRegistry'[g] = r
        /\ \A h \in GoalIds \ {g} : goalRegistry'[h] = Retained[h]
    BY <1>2, <1>7 DEF StartGoal, Retained
  <2>5. Registered' /\ AtStep'
    <3>1. Registered'
      BY <1>2, <1>4, <2>1, <2>2, <2>4 DEF Registered, GoalRunTypes
    <3>2. AtStep'
      BY <1>2, <1>3, <2>1, <2>2, <2>3 DEF AtStep, GoalRunTypes, Unfinished, Busy
    <3>. QED
      BY <3>1, <3>2
  <2>6. RestingGoalsRest' /\ CompletedIsDone'
    BY <1>2, <1>3, <2>1, <2>2, <2>3 DEF RestingGoalsRest, CompletedIsDone, GoalRunTypes
  <2>7. RowsTellDrivers'
    <3>1. ASSUME NEW h \in GoalIds \ goalUnsaved', h \in goalRunning'
          PROVE \E s \in GoalRuns : goalOf'[s] = h /\ driver'[s] \in Busy \cup {"saving"}
      <4>1. CASE h = g
        BY <2>2, <4>1 DEF Busy
      <4>2. CASE h # g
        <5>1. PICK s \in GoalRuns : goalOf[s] = h /\ driver[s] \in Busy \cup {"saving"}
          BY <1>3, <2>2, <3>1, <4>2 DEF RowsTellDrivers
        <5>. QED
          BY <2>1, <2>2, <5>1 DEF Unfinished
      <4>. QED
        BY <4>1, <4>2
    <3>2. ASSUME NEW h \in GoalIds \ goalUnsaved', NEW i \in 1 .. Steps, milestone'[h][i] = "in_progress"
          PROVE \E s \in GoalRuns : goalOf'[s] = h /\ driver'[s] = "working" /\ stepAt'[s] = i
      <4>1. milestone[h][i] = "in_progress"
        BY <2>3, <3>2
      <4>2. PICK s \in GoalRuns : goalOf[s] = h /\ driver[s] = "working" /\ stepAt[s] = i
        BY <1>3, <2>2, <4>1 DEF RowsTellDrivers
      <4>. QED
        BY <2>1, <2>2, <4>2 DEF Unfinished, Busy
    <3>. QED
      BY <3>1, <3>2 DEF RowsTellDrivers
  <2>. QED
    BY <1>1, <2>5, <2>6, <2>7 DEF GoalInv
<1>8. ASSUME NEW c \in GoalStoppers, NEW to \in {"paused", "abandoned"}, StopGoal(c, g, to) PROVE GoalInv'
  <2>1. UNCHANGED <<driver, goalOf, stepAt, ending, goalUnsaved, goalRegistry, milestone>>
    BY <1>8 DEF StopGoal
  <2>2. CASE goalRegistry[g] # NoGoalRun
    <3>1. UNCHANGED goalRows
      BY <1>8, <2>2 DEF StopGoal
    <3>. QED
      BY <1>1, <1>3, <2>1, <3>1 DEF GoalInv, Registered, AtStep, RestingGoalsRest, CompletedIsDone,
                                    RowsTellDrivers
  <2>3. CASE goalRegistry[g] = NoGoalRun
    <3>1. \A s \in GoalRuns : driver[s] \in Unfinished => goalOf[s] # g
      BY <2>3, NobodyAtGoal
    <3>2. /\ goal'[g] \in {"paused", "abandoned"} /\ goalRunning' = goalRunning \ {g}
          /\ \A h \in GoalIds \ {g} : goal'[h] = goal[h]
      BY <1>2, <1>8, <2>3 DEF StopGoal, FinishGoal, GoalRowTypes
    <3>3. RestingGoalsRest' /\ CompletedIsDone'
      BY <1>2, <1>3, <2>1, <3>1, <3>2 DEF RestingGoalsRest, CompletedIsDone, GoalRunTypes, Unfinished
    <3>4. Registered' /\ AtStep' /\ RowsTellDrivers'
      BY <1>3, <2>1, <3>2 DEF Registered, AtStep, RowsTellDrivers
    <3>. QED
      BY <1>1, <3>3, <3>4 DEF GoalInv
  <2>. QED
    BY <2>2, <2>3
<1>9. ASSUME NEW i \in 1 .. Steps, NEW s \in {"pending", "done"}, EditMilestone(g, i, s) PROVE GoalInv'
  <2>1. UNCHANGED <<driver, goalOf, stepAt, ending, goalUnsaved, goalRegistry, goalRunning>>
    BY <1>9 DEF EditMilestone
  <2>2. \A r \in GoalRuns : driver[r] \in Unfinished => goalOf[r] # g
    BY <1>9, NobodyAtGoal DEF EditMilestone
  <2>3. /\ OneStepSet(g, i, s)
        /\ \A h \in GoalIds \ {g} : goal'[h] = goal[h]
        /\ goal'[g] = "completed" => AllDone(milestone'[g])
        /\ goal'[g] \notin {"completed", "active"} => goal'[g] = goal[g]
    BY <1>2, <1>9, SetMilestoneSets DEF EditMilestone, StepStatuses
  <2>4. Registered' /\ RestingGoalsRest'
    BY <1>2, <1>3, <2>1, <2>3 DEF Registered, RestingGoalsRest, GoalRunTypes
  <2>5. AtStep'
    BY <1>2, <1>3, <2>1, <2>2, <2>3 DEF AtStep, OneStepSet, GoalRunTypes, Unfinished, Busy
  <2>6. CompletedIsDone'
    <3>1. ASSUME NEW h \in GoalIds, goal'[h] = "completed" PROVE AllDone(milestone'[h])
      <4>1. CASE h = g
        BY <2>3, <3>1, <4>1
      <4>2. CASE h # g
        BY <1>3, <2>3, <3>1, <4>2 DEF OneStepSet, CompletedIsDone
      <4>. QED
        BY <4>1, <4>2
    <3>. QED
      BY <3>1 DEF CompletedIsDone
  <2>7. RowsTellDrivers'
    BY <1>3, <2>1, <2>3 DEF OneStepSet, RowsTellDrivers
  <2>. QED
    BY <1>1, <2>4, <2>5, <2>6, <2>7 DEF GoalInv
<1>. QED
  BY <1>5, <1>6, <1>7, <1>8, <1>9

LEMMA ProgramKeeps ==
  ASSUME GoalInv,
         \/ GoalsClose \/ CancelGoals \/ GoalsRestart
         \/ \E c \in GoalStoppers : StopGoalReturns(c)
  PROVE  GoalInv'
<1>. USE DEF goalRows, goalBounds, driverVars
<1>1. GoalTypes'
  BY ProgramTypes
<1>2. GoalRowTypes /\ GoalRunTypes /\ GoalRowTypes' /\ GoalRunTypes'
  BY <1>1 DEF GoalInv, GoalTypes
<1>3. Registered /\ AtStep /\ RestingGoalsRest /\ CompletedIsDone /\ RowsTellDrivers /\ Steps \in Nat
  BY GoalAssumption DEF GoalInv
<1>4. CASE GoalsClose \/ CancelGoals
  BY <1>1, <1>3, <1>4 DEF GoalsClose, CancelGoals, GoalInv, Registered, AtStep, RestingGoalsRest,
                          CompletedIsDone, RowsTellDrivers
<1>5. CASE GoalsRestart
  <2>1. \A r \in GoalRuns : driver'[r] \in {"none", "over"}
    BY <1>5 DEF GoalsRestart
  <2>2. goalRunning' = {}
    BY <1>5 DEF GoalsRestart
  <2>3. \A g \in GoalIds : /\ milestone'[g] = Recovered(milestone[g])
                           /\ goal'[g] = "completed" => goal[g] = "completed"
    BY <1>5 DEF GoalsRestart
  <2>4. \A g \in GoalIds, i \in 1 .. Steps :
           /\ milestone'[g][i] # "in_progress"
           /\ milestone[g][i] = "done" => milestone'[g][i] = "done"
    <3>. SUFFICES ASSUME NEW g \in GoalIds, NEW i \in 1 .. Steps
                  PROVE  /\ milestone'[g][i] # "in_progress"
                         /\ milestone[g][i] = "done" => milestone'[g][i] = "done"
      OBVIOUS
    <3>1. milestone'[g][i] = IF milestone[g][i] = "in_progress" THEN "pending" ELSE milestone[g][i]
      BY <2>3, Zenon DEF Recovered
    <3>. QED
      BY <3>1
  <2>5. Registered' /\ AtStep' /\ RestingGoalsRest' /\ RowsTellDrivers'
    BY <2>1, <2>2, <2>4 DEF Registered, AtStep, RestingGoalsRest, RowsTellDrivers, Unfinished, Busy
  <2>6. CompletedIsDone'
    BY <1>3, <2>3, <2>4 DEF CompletedIsDone, AllDone
  <2>. QED
    BY <1>1, <2>5, <2>6 DEF GoalInv
<1>6. ASSUME NEW c \in GoalStoppers, StopGoalReturns(c) PROVE GoalInv'
  <2>1. UNCHANGED <<driver, goalOf, stepAt, ending, goalUnsaved, goalRegistry, milestone>>
    BY <1>6 DEF StopGoalReturns
  <2>2. CASE UNCHANGED <<goal, goalRunning>>
    BY <1>1, <1>3, <2>1, <2>2 DEF GoalInv, Registered, AtStep, RestingGoalsRest, CompletedIsDone,
                                  RowsTellDrivers
  <2>3. CASE ~UNCHANGED <<goal, goalRunning>>
    <3>0. stopper[c] \in [pc : {"waiting"}, run : GoalRuns, to : {"paused", "abandoned"}]
      BY <1>6, Zenon DEF StopGoalReturns, GoalInv, GoalTypes
    <3>1. PICK r \in GoalRuns : SameRun(r) /\ driver[r] = "over" /\ FinishGoal(goalOf[r], "abandoned")
      BY <1>6, <2>3, <3>0 DEF StopGoalReturns
    <3>2. \A s \in GoalRuns : driver[s] \in Unfinished => goalOf[s] # goalOf[r]
      BY <1>3, <3>1 DEF SameRun, Registered, Unfinished, Busy
    <3>3. /\ goal' = [goal EXCEPT ![goalOf[r]] = "abandoned"]
          /\ goalRunning' = goalRunning \ {goalOf[r]}
      BY <3>1 DEF FinishGoal
    <3>4. /\ \A h \in GoalIds \ {goalOf[r]} : goal'[h] = goal[h]
          /\ goal'[goalOf[r]] = "abandoned" /\ goalOf[r] \in GoalIds
      <4>1. goalOf[r] \in GoalIds
        BY <1>2 DEF GoalRunTypes
      <4>. QED
        BY <1>2, <3>3, <4>1 DEF GoalRowTypes
    <3>5. RestingGoalsRest' /\ CompletedIsDone'
      BY <1>2, <1>3, <2>1, <3>2, <3>4 DEF RestingGoalsRest, CompletedIsDone, GoalRunTypes, Unfinished
    <3>6. Registered' /\ AtStep' /\ RowsTellDrivers'
      BY <1>3, <2>1, <3>3 DEF Registered, AtStep, RowsTellDrivers
    <3>. QED
      BY <1>1, <3>5, <3>6 DEF GoalInv
  <2>. QED
    BY <2>2, <2>3
<1>. QED
  BY <1>4, <1>5, <1>6

-----------------------------------------------------------------------------
(* The theorems                                                            *)

LEMMA GoalNextInv == GoalInv /\ [GoalsNext]_goalVars => GoalInv'
<1>. SUFFICES ASSUME GoalInv, [GoalsNext]_goalVars PROVE GoalInv'
  OBVIOUS
<1>1. CASE GoalsClose \/ CancelGoals \/ GoalsRestart \/ \E c \in GoalStoppers : StopGoalReturns(c)
  BY <1>1, ProgramKeeps
<1>2. CASE \E r \in GoalRuns :
              DriverNext(r) \/ (\E s \in {"completed", "failed", "cancelled"} : StepJobEnds(r, s))
  BY <1>2, DriverKeeps
<1>3. ASSUME NEW g \in GoalIds,
             \/ StartGoalRefused(g) \/ DeleteGoal(g)
             \/ \E r \in GoalRuns : StartGoal(g, r)
             \/ \E c \in GoalStoppers, to \in {"paused", "abandoned"} : StopGoal(c, g, to)
             \/ \E i \in 1 .. Steps, s \in {"pending", "done"} : EditMilestone(g, i, s)
      PROVE  GoalInv'
  BY <1>3, RequestKeeps
<1>4. CASE UNCHANGED goalVars
  BY <1>4 DEF goalVars, goalRows, driverVars, goalBounds, GoalInv, GoalTypes, GoalRowTypes, GoalRunTypes,
              Registered, AtStep, RestingGoalsRest, CompletedIsDone, RowsTellDrivers
<1>. QED
  BY <1>1, <1>2, <1>3, <1>4 DEF GoalsNext

\* A run that is not over is the registered one, and is at a milestone that is
\* not done (engine/goals.rs start_goal, drive_goal, stop_goal).
THEOREM GoalInvariant == GoalsSpec => []GoalInv
<1>. QED
  BY GoalInitInv, GoalNextInv, PTL DEF GoalsSpec

\* No worker goes on with a goal that rests, a goal is completed only when its
\* milestones are done, and its rows tell where its worker is.
THEOREM GoalsHold == GoalsSpec => []GoalsAgree
<1>1. GoalInv => GoalsAgree
  BY DEF GoalInv, GoalsAgree
<1>. QED
  BY GoalInvariant, <1>1, PTL

\* A step of a worker keeps what is done, and what becomes done is earned.
LEMMA DriverEarns ==
  ASSUME GoalInv, NEW r \in GoalRuns,
         DriverNext(r) \/ \E s \in {"completed", "failed", "cancelled"} : StepJobEnds(r, s),
         NEW g \in GoalIds, NEW i \in 1 .. Steps
  PROVE  /\ milestone[g][i] = "done" => milestone'[g][i] = "done"
         /\ (milestone[g][i] # "done" /\ milestone'[g][i] = "done") =>
              /\ r \notin goalStopped /\ goalOf[r] = g /\ stepAt[r] = i
              /\ driver[r] = "working" /\ stepJob[r] = "completed"
<1>. USE DEF goalRows, Drives, Errs
<1>1. GoalRowTypes /\ GoalRunTypes /\ AtStep /\ Steps \in Nat
  BY GoalAssumption DEF GoalInv, GoalTypes
<1>2. goalOf[r] \in GoalIds /\ stepAt[r] \in 1 .. (Steps + 1)
  BY <1>1 DEF GoalRunTypes
<1>3. driver[r] \in {"recording", "working"} =>
         stepAt[r] \in 1 .. Steps /\ milestone[goalOf[r]][stepAt[r]] # "done"
  BY <1>1, <1>2 DEF AtStep
<1>4. CASE UNCHANGED milestone
  BY <1>4
<1>5. CASE DriverRecords(r) /\ milestone' # milestone
  <2>1. milestone[goalOf[r]] \in [1 .. Steps -> StepStatuses]
    BY <1>1, <1>2 DEF GoalRowTypes, StepStatuses
  <2>2. milestone' = [milestone EXCEPT ![goalOf[r]] =
                         [milestone[goalOf[r]] EXCEPT ![stepAt[r]] = "in_progress"]]
           /\ driver[r] = "recording"
    BY <1>5 DEF DriverRecords
  <2>3. /\ milestone'[goalOf[r]] = [milestone[goalOf[r]] EXCEPT ![stepAt[r]] = "in_progress"]
        /\ g # goalOf[r] => milestone'[g] = milestone[g]
    BY <1>1, <1>2, <2>2 DEF GoalRowTypes
  <2>. QED
    BY <1>3, <2>1, <2>2, <2>3
<1>6. CASE ~JudgeFails(r) /\ DriverPauses(r)
  <2>1. SetMilestone(goalOf[r], stepAt[r], "pending") /\ driver[r] = "working"
    BY <1>6 DEF DriverPauses
  <2>2. OneStepSet(goalOf[r], stepAt[r], "pending")
    BY <1>1, <1>2, <1>3, <2>1, SetMilestoneSets DEF StepStatuses
  <2>. QED
    BY <1>3, <2>1, <2>2 DEF OneStepSet
<1>7. ASSUME NEW p \in BOOLEAN, ~JudgeFails(r), DriverJudges(r, p)
      PROVE  /\ milestone[g][i] = "done" => milestone'[g][i] = "done"
             /\ (milestone[g][i] # "done" /\ milestone'[g][i] = "done") =>
                  /\ r \notin goalStopped /\ goalOf[r] = g /\ stepAt[r] = i
                  /\ driver[r] = "working" /\ stepJob[r] = "completed"
  <2>1. PICK s \in {"done", "failed"} :
           SetMilestone(goalOf[r], stepAt[r], s) /\ (s = "done" => stepJob[r] = "completed")
    BY <1>7 DEF DriverJudges
  <2>2. driver[r] = "working" /\ r \notin goalStopped
    BY <1>7 DEF DriverJudges, Interrupted
  <2>3. OneStepSet(goalOf[r], stepAt[r], s)
    BY <1>1, <1>2, <1>3, <2>1, <2>2, SetMilestoneSets DEF StepStatuses
  <2>4. CASE goalOf[r] = g /\ stepAt[r] = i
    BY <1>3, <2>1, <2>2, <2>3, <2>4 DEF OneStepSet
  <2>5. CASE ~(goalOf[r] = g /\ stepAt[r] = i)
    BY <1>3, <2>2, <2>3, <2>5 DEF OneStepSet
  <2>. QED
    BY <2>4, <2>5
<1>8. CASE JudgeFails(r)
  BY <1>4, <1>8 DEF JudgeFails
<1>9. CASE \/ DriverEndsRun(r) \/ DriverSkips(r) \/ DriverStarts(r) \/ DriverCannotStart(r)
           \/ DriverCancelsJob(r) \/ DriverSaves(r) \/ DriverEnds(r)
           \/ \E s \in {"completed", "failed", "cancelled"} : StepJobEnds(r, s)
  BY <1>4, <1>9 DEF DriverEndsRun, DriverSkips, DriverStarts, DriverCannotStart, DriverCancelsJob,
                    JudgeFails, DriverSaves, DriverEnds, StepJobEnds
<1>. QED
  BY <1>4, <1>5, <1>6, <1>7, <1>8, <1>9 DEF DriverNext

\* A milestone becomes done by a job that completed in a run that was not
\* stopped, or by an edit, and stays done until one (engine/goals.rs
\* drive_goal, store/goals.rs set_milestone).
THEOREM DoneStays == GoalsSpec => DoneIsEarned
<1>. DEFINE Earned(g, i) ==
         \/ goalEdits' # goalEdits \/ goal'[g] = "deleted"
         \/ /\ milestone[g][i] = "done" => milestone'[g][i] = "done"
            /\ (milestone[g][i] # "done" /\ milestone'[g][i] = "done") =>
                 \E r \in GoalRuns \ goalStopped :
                    goalOf[r] = g /\ stepAt[r] = i /\ driver[r] = "working" /\ stepJob[r] = "completed"
<1>1. ASSUME GoalInv, [GoalsNext]_goalVars, NEW g \in GoalIds, NEW i \in 1 .. Steps
      PROVE  Earned(g, i)
  <2>1. GoalRowTypes /\ goalEdits \in Nat
    BY <1>1, Zenon DEF GoalInv, GoalTypes
  <2>2. CASE \E r \in GoalRuns :
                DriverNext(r) \/ (\E s \in {"completed", "failed", "cancelled"} : StepJobEnds(r, s))
    BY <1>1, <2>2, DriverEarns
  <2>3. CASE GoalsRestart
    <3>1. milestone'[g][i] = IF milestone[g][i] = "in_progress" THEN "pending" ELSE milestone[g][i]
      BY <2>3, Zenon DEF GoalsRestart, Recovered
    <3>. QED
      BY <3>1
  <2>4. ASSUME NEW h \in GoalIds, NEW r \in GoalRuns, StartGoal(h, r) PROVE Earned(g, i)
    <3>1. g # h => milestone'[g] = milestone[g]
      BY <2>1, <2>4 DEF StartGoal, GoalRowTypes
    <3>2. g = h => milestone'[g][i] = IF milestone[g][i] \in {"failed", "in_progress"}
                                      THEN "pending" ELSE milestone[g][i]
      BY <2>1, <2>4 DEF StartGoal, Begun, GoalRowTypes
    <3>. QED
      BY <3>1, <3>2
  <2>5. ASSUME NEW h \in GoalIds, DeleteGoal(h) PROVE Earned(g, i)
    <3>1. g # h => milestone'[g] = milestone[g]
      BY <2>1, <2>5 DEF DeleteGoal, GoalRowTypes
    <3>2. g = h => goal'[g] = "deleted"
      BY <2>1, <2>5 DEF DeleteGoal, GoalRowTypes
    <3>. QED
      BY <3>1, <3>2
  <2>6. ASSUME NEW h \in GoalIds, NEW j \in 1 .. Steps, NEW s \in {"pending", "done"}, EditMilestone(h, j, s)
        PROVE  Earned(g, i)
    BY <2>1, <2>6 DEF EditMilestone
  <2>7. CASE UNCHANGED milestone
    BY <2>7
  <2>8. CASE GoalsClose \/ CancelGoals \/ UNCHANGED goalVars
    BY <2>7, <2>8 DEF GoalsClose, CancelGoals, goalVars, goalRows
  <2>9. CASE \E c \in GoalStoppers : StopGoalReturns(c)
    BY <2>7, <2>9 DEF StopGoalReturns
  <2>10. CASE \E h \in GoalIds : \/ StartGoalRefused(h)
                                 \/ \E c \in GoalStoppers, to \in {"paused", "abandoned"} : StopGoal(c, h, to)
    BY <2>7, <2>10 DEF StartGoalRefused, StopGoal, goalRows
  <2>. HIDE DEF Earned
  <2>. QED
    BY <1>1, <2>2, <2>3, <2>4, <2>5, <2>6, <2>8, <2>9, <2>10 DEF GoalsNext
<1>2. GoalInv /\ [GoalsNext]_goalVars =>
         [\A g \in GoalIds, i \in 1 .. Steps :
            /\ goalEdits' = goalEdits
            /\ goal'[g] # "deleted"
            => /\ milestone[g][i] = "done" => milestone'[g][i] = "done"
               /\ (milestone[g][i] # "done" /\ milestone'[g][i] = "done") =>
                    \E r \in GoalRuns \ goalStopped :
                       goalOf[r] = g /\ stepAt[r] = i /\ driver[r] = "working" /\ stepJob[r] = "completed"
         ]_goalVars
  BY <1>1
<1>. QED
  BY GoalInvariant, <1>2, PTL DEF GoalsSpec, DoneIsEarned

=============================================================================
