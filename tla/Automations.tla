----------------------------- MODULE Automations -----------------------------
(***************************************************************************)
(* Scheduled automations: engine/automations.rs, store/automations.rs and  *)
(* the schedule rules of automations.rs.                                   *)
(*                                                                         *)
(* The scheduler's tick and a user's "Run now" launch runs; a registry     *)
(* under a lock lets one run of an automation go at a time; a worker per   *)
(* run starts a job, watches it and records the result.  Users edit,       *)
(* pause, resume and delete meanwhile, each request with a read and a      *)
(* write of its own.  A step is one critical section or one store access.  *)
(*                                                                         *)
(* A schedule is its period: it is due at every multiple of it.  History   *)
(* is not pruned (the code keeps 200 rows, more than the model has runs).  *)
(***************************************************************************)
EXTENDS Naturals

CONSTANTS
    AutomationIds,
    AutomationRuns,     \* ids of history rows
    NoRun,
    NoTime,
    Periods,            \* the schedules a user can choose
    CatchUp,            \* how late a time may still run (catch_up_minutes)
    MaxTime,            \* bound: the clock
    MaxAutomationRestarts,  \* bound: restarts of the program
    AutomationFaults    \* may a database access fail?

ASSUME AutomationAssumption ==
    /\ AutomationIds # {} /\ NoRun \notin AutomationRuns
    /\ NoTime \notin Nat
    /\ Periods \subseteq Nat \ {0}
    /\ CatchUp \in Nat /\ MaxTime \in Nat /\ MaxAutomationRestarts \in Nat
    /\ AutomationFaults \in BOOLEAN

VARIABLES
    clock,
    \* the database
    planned,    \* the automations that have a row
    pausedPlans,
    plan,       \* the row of an automation: its period and its next time
    history,    \* the status of a row of automation_runs, "none" without one
    \* Registry, and Active per run
    registry,   \* the active run of each automation
    stopped,    \* the runs whose token is cancelled
    ofRun,      \* the automation of a run
    dueRun,     \* the time it was scheduled for, NoTime for "Run now"
    runner,     \* where the worker of a run is
    \* requests
    tick,       \* the scheduler: the automations it read and the one it is at
    request,    \* the user's request that is under way
    automationsClosing,
    automationRestarts,
    \* what happened
    unsaved,    \* runs whose result could not be stored
    late        \* automations whose next time was overwritten with one in the past

planVars   == <<planned, pausedPlans, plan>>
rowVars    == <<planVars, history>>
activeVars == <<registry, stopped, ofRun, dueRun, runner>>
requestVars == <<tick, request>>
ghostVars  == <<unsaved, late>>
automationVars == <<clock, rowVars, activeVars, requestVars, automationsClosing,
                    automationRestarts, ghostVars>>

Plan == [every : Periods, next : Nat \cup {NoTime}]
Copy == [id : AutomationIds, every : Periods, due : Nat \cup {NoTime}]
Idle == [pc |-> "idle"]

\* How a run ended (completed, failed, cancelled, timed out, needs approval) is
\* "ended".
RowStatuses == {"none", "running", "ended", "missed", "skipped", "interrupted"}

\* Where a run is in the registry and not finished.
Active == {"reserved", "driving", "watching", "ending", "recorded"}
ActiveRun(r) == runner[r] \in Active

AutomationRowTypes ==
    /\ clock \in Nat
    /\ planned \subseteq AutomationIds /\ pausedPlans \subseteq AutomationIds
    /\ plan \in [AutomationIds -> Plan]
    /\ history \in [AutomationRuns -> RowStatuses]

ActiveRunTypes ==
    /\ registry \in [AutomationIds -> AutomationRuns \cup {NoRun}]
    /\ stopped \subseteq AutomationRuns
    /\ ofRun \in [AutomationRuns -> AutomationIds]
    /\ dueRun \in [AutomationRuns -> Nat \cup {NoTime}]
    /\ runner \in [AutomationRuns -> {"none", "over"} \cup Active]

TickTypes ==
    \/ tick = Idle
    \/ tick \in [pc : {"advance"}, due : SUBSET Copy, now : Nat]
    \/ tick \in [pc : {"decide", "failed"}, due : SUBSET Copy, now : Nat, at : Copy]
    \/ tick \in [pc : {"saving"}, due : SUBSET Copy, now : Nat, at : Copy, run : AutomationRuns]

RequestTypes ==
    \/ request = Idle
    \/ request \in [pc : {"launch"}, at : Copy]
    \/ request \in [pc : {"saving"}, run : AutomationRuns]
    \/ request \in [pc : {"edit", "resume"}, id : AutomationIds, every : Periods,
                    next : Nat \cup {NoTime}]

AutomationTypes ==
    /\ AutomationRowTypes /\ ActiveRunTypes /\ TickTypes /\ RequestTypes
    /\ automationsClosing \in BOOLEAN
    /\ automationRestarts \in Nat
    /\ unsaved \subseteq AutomationRuns
    /\ late \subseteq AutomationIds

\* Cron::next_after, next_run: the first time of the schedule strictly after now.
NextRun(every, now) == ((now \div every) + 1) * every

AutomationsInit ==
    /\ clock = 0
    /\ planned = AutomationIds /\ pausedPlans = {}
    /\ plan \in [AutomationIds -> {[every |-> p, next |-> NextRun(p, 0)] : p \in Periods}]
    /\ history = [r \in AutomationRuns |-> "none"]
    /\ registry = [a \in AutomationIds |-> NoRun]
    /\ stopped = {}
    /\ ofRun = [r \in AutomationRuns |-> CHOOSE a \in AutomationIds : TRUE]
    /\ dueRun = [r \in AutomationRuns |-> NoTime]
    /\ runner = [r \in AutomationRuns |-> "none"]
    /\ tick = Idle /\ request = Idle
    /\ automationsClosing = FALSE /\ automationRestarts = 0
    /\ unsaved = {} /\ late = {}

CopyOf(a) == [id |-> a, every |-> plan[a].every, due |-> plan[a].next]

\* A history row is written; a later version replaces it.
SaveRow(r, status) == history' = [history EXCEPT ![r] = status]

\* An id nothing has used: no row, no place in the registry, no token.
Unused(r) == runner[r] = "none" /\ history[r] = "none" /\ r \notin stopped

-----------------------------------------------------------------------------
(* Users change automations                                                *)

Passes ==
    /\ clock < MaxTime
    /\ clock' = clock + 1
    /\ UNCHANGED <<rowVars, activeVars, requestVars, automationsClosing, automationRestarts, ghostVars>>

\* An edit reads whether the automation is paused and computes the next time.
EditReads(a, p) ==
    /\ request = Idle
    /\ a \in planned
    /\ request' = [pc |-> "edit", id |-> a, every |-> p,
                  next |-> IF a \in pausedPlans THEN NoTime ELSE NextRun(p, clock)]
    /\ UNCHANGED <<clock, rowVars, activeVars, tick, automationsClosing,
                   automationRestarts, ghostVars>>

\* A resume reads the schedule.
ResumeReads(a) ==
    /\ request = Idle
    /\ a \in planned
    /\ request' = [pc |-> "resume", id |-> a, every |-> plan[a].every,
                  next |-> NextRun(plan[a].every, clock)]
    /\ UNCHANGED <<clock, rowVars, activeVars, tick, automationsClosing,
                   automationRestarts, ghostVars>>

\* update_automation keeps the paused column and writes the schedule,
\* set_automation_paused the other way round; both write the next time.
ChangeWrites ==
    LET a == request.id IN
    /\ request.pc \in {"edit", "resume"}
    /\ request' = Idle
    /\ plan' = [plan EXCEPT ![a] = IF a \notin planned THEN @
                                  ELSE [every |-> IF request.pc = "edit" THEN request.every ELSE @.every,
                                        next |-> request.next]]
    /\ pausedPlans' = IF request.pc = "edit" THEN pausedPlans ELSE pausedPlans \ {a}
    /\ late' = IF request.next # NoTime /\ request.next <= clock THEN late \cup {a} ELSE late
    /\ UNCHANGED <<clock, planned, history, activeVars, tick, automationsClosing,
                   automationRestarts, unsaved>>

PausePlan(a) ==
    /\ a \in planned
    /\ pausedPlans' = pausedPlans \cup {a}
    /\ plan' = [plan EXCEPT ![a].next = NoTime]
    /\ UNCHANGED <<clock, planned, history, activeVars, requestVars, automationsClosing,
                   automationRestarts, ghostVars>>

\* The registry has no unfinished run of the automation.
Free(a) == \A r \in AutomationRuns : registry[a] = r => runner[r] = "over"

\* delete_automation holds the registry's lock; the history goes with the row.
DeletePlan(a) ==
    /\ a \in planned
    /\ Free(a)
    /\ planned' = planned \ {a}
    /\ history' = [r \in AutomationRuns |-> IF ofRun[r] = a THEN "none" ELSE history[r]]
    /\ UNCHANGED <<clock, pausedPlans, plan, activeVars, requestVars, automationsClosing,
                   automationRestarts, ghostVars>>

-----------------------------------------------------------------------------
(* Launching a run                                                         *)

\* Mutant: an automation is free when no row of it says running.
FreeByRow(a) == \A r \in AutomationRuns : registry[a] = r => history[r] # "running"

\* Mutant: launching asks the history instead of the registry.
AdmitsByRow(a) == ~automationsClosing /\ FreeByRow(a)

\* launch_automation is refused while the program closes.
Admits(a) == ~automationsClosing /\ Free(a)

\* Under the registry's lock the run takes the place of its automation.
Takes(r, copy, due) ==
    /\ Unused(r)
    /\ Admits(copy.id)
    /\ registry' = [registry EXCEPT ![copy.id] = r]
    /\ ofRun' = [ofRun EXCEPT ![r] = copy.id]
    /\ dueRun' = [dueRun EXCEPT ![r] = due]
    /\ runner' = [runner EXCEPT ![r] = "reserved"]

\* The running row is stored and the worker spawned.
Spawns(r) ==
    /\ SaveRow(r, "running")
    /\ runner' = [runner EXCEPT ![r] = "driving"]
    /\ UNCHANGED registry

\* The row cannot be stored: the place is given back.
Releases(r) ==
    /\ AutomationFaults
    /\ registry' = [registry EXCEPT ![ofRun[r]] = NoRun]
    /\ runner' = [runner EXCEPT ![r] = "none"]
    /\ UNCHANGED history

NowUnchanged == UNCHANGED <<clock, planVars, stopped,
                            automationsClosing, automationRestarts, ghostVars>>

\* run_automation_now reads the automation, and launches what it read.
RunNowReads(a) ==
    /\ request = Idle
    /\ a \in planned
    /\ request' = [pc |-> "launch", at |-> CopyOf(a)]
    /\ UNCHANGED <<rowVars, registry, ofRun, dueRun, runner, tick>> /\ NowUnchanged

RunNowTakes(r) ==
    /\ request.pc = "launch"
    /\ Takes(r, request.at, NoTime)
    /\ request' = [pc |-> "saving", run |-> r]
    /\ UNCHANGED <<history, tick>> /\ NowUnchanged

RunNowRefused ==
    /\ request.pc = "launch"
    /\ ~Admits(request.at.id)
    /\ request' = Idle
    /\ UNCHANGED <<rowVars, registry, ofRun, dueRun, runner, tick>> /\ NowUnchanged

RunNowSaves ==
    /\ request.pc = "saving"
    /\ Spawns(request.run) \/ Releases(request.run)
    /\ request' = Idle
    /\ UNCHANGED <<ofRun, dueRun, tick>> /\ NowUnchanged

-----------------------------------------------------------------------------
(* The scheduler's tick                                                    *)

TickUnchanged == UNCHANGED <<clock, stopped, request,
                             automationsClosing, automationRestarts, ghostVars>>

\* due_automations
IsDue(a) == a \in planned \ pausedPlans /\ plan[a].next # NoTime /\ plan[a].next <= clock

TickReads ==
    /\ tick = Idle
    /\ ~automationsClosing
    /\ \E a \in AutomationIds : IsDue(a)
    /\ tick' = [pc |-> "advance", due |-> {CopyOf(a) : a \in {b \in AutomationIds : IsDue(b)}},
                now |-> clock]
    /\ UNCHANGED <<rowVars, registry, ofRun, dueRun, runner>> /\ TickUnchanged

\* The tick goes on with the next due automation, or is over.
TickGoesOn ==
    LET rest == tick.due \ {tick.at}
    IN tick' = IF rest = {} THEN Idle ELSE [pc |-> "advance", due |-> rest, now |-> tick.now]

\* Mutant: the next time is left to the end of the run.
AdvanceLater(c) == plan' = plan

\* The next time is written first, from the schedule that was read.
Advance(c) ==
    plan' = IF c.id \in planned THEN [plan EXCEPT ![c.id].next = NextRun(c.every, tick.now)]
            ELSE plan

TickAdvances ==
    /\ tick.pc = "advance"
    /\ \E c \in tick.due :
          /\ Advance(c)
          /\ tick' = [pc |-> "decide", due |-> tick.due, now |-> tick.now, at |-> c]
    /\ UNCHANGED <<planned, pausedPlans, history, registry, ofRun, dueRun, runner>> /\ TickUnchanged

\* decide: too late, and the time is recorded as missed.
TooLate == tick.at.due + CatchUp < tick.now

\* A store failure ends the tick; what is still due waits for the next one.
TickFails ==
    /\ AutomationFaults
    /\ \/ tick.pc = "advance"
       \/ tick.pc = "decide" /\ TooLate
       \/ tick.pc = "decide" /\ ~Admits(tick.at.id)
    /\ tick' = Idle
    /\ UNCHANGED <<rowVars, registry, ofRun, dueRun, runner>> /\ TickUnchanged

\* The tick records a time without a run of it.
TickRecords(r, status) ==
    /\ Unused(r)
    /\ SaveRow(r, status)
    /\ ofRun' = [ofRun EXCEPT ![r] = tick.at.id]
    /\ dueRun' = [dueRun EXCEPT ![r] = tick.at.due]
    /\ TickGoesOn
    /\ UNCHANGED <<planVars, registry, runner>> /\ TickUnchanged

TickMisses(r) == tick.pc = "decide" /\ TooLate /\ TickRecords(r, "missed")

TickTakes(r) ==
    /\ tick.pc = "decide"
    /\ ~TooLate
    /\ Takes(r, tick.at, tick.at.due)
    /\ tick' = [pc |-> "saving", due |-> tick.due, now |-> tick.now, at |-> tick.at, run |-> r]
    /\ UNCHANGED rowVars /\ TickUnchanged

\* The previous run still goes, or the program closes.
TickSkips(r) ==
    /\ tick.pc = "decide"
    /\ ~TooLate
    /\ ~Admits(tick.at.id)
    /\ TickRecords(r, IF automationsClosing THEN "ended" ELSE "skipped")

TickSpawns ==
    /\ tick.pc = "saving"
    /\ Spawns(tick.run)
    /\ TickGoesOn
    /\ UNCHANGED <<planVars, ofRun, dueRun>> /\ TickUnchanged

\* The failed launch is recorded as a run that failed, if that can be stored.
TickReleases ==
    /\ tick.pc = "saving"
    /\ Releases(tick.run)
    /\ tick' \in {Idle, [pc |-> "failed", due |-> tick.due, now |-> tick.now, at |-> tick.at]}
    /\ UNCHANGED <<planVars, ofRun, dueRun>> /\ TickUnchanged

TickRecordsFailure(r) == tick.pc = "failed" /\ TickRecords(r, "ended")

-----------------------------------------------------------------------------
(* The worker of a run                                                     *)

RunnerUnchanged == UNCHANGED <<clock, planVars, registry, ofRun, dueRun, requestVars,
                               automationsClosing, automationRestarts, late>>

RunnerMoves(r, to) == runner' = [runner EXCEPT ![r] = to]

\* The run ends with an error: no trust, no model, no worktree, no job; or a job
\* that started and could not be recorded, and goes on without the run.
RunnerFails(r) ==
    /\ runner[r] = "driving"
    /\ RunnerMoves(r, "ending")
    /\ UNCHANGED <<history, stopped, unsaved>> /\ RunnerUnchanged

\* start_automation_job: a session, the job, and both in the run's row.
RunnerStarts(r) ==
    /\ runner[r] = "driving"
    /\ ~automationsClosing
    /\ RunnerMoves(r, "watching")
    /\ UNCHANGED <<history, stopped, unsaved>> /\ RunnerUnchanged

\* The job ended, or is cancelled and waited for: the user or a shutdown stops
\* the run, the time is up, or the job asks for an approval it may not wait for.
RunnerSees(r) ==
    /\ runner[r] = "watching"
    /\ RunnerMoves(r, "ending")
    /\ UNCHANGED <<history, stopped, unsaved>> /\ RunnerUnchanged

RunnerRecords(r) ==
    /\ runner[r] = "ending"
    /\ RunnerMoves(r, "recorded")
    /\ \/ SaveRow(r, "ended") /\ UNCHANGED unsaved
       \/ AutomationFaults /\ unsaved' = unsaved \cup {r} /\ UNCHANGED history
    /\ UNCHANGED stopped /\ RunnerUnchanged

\* finished, after the result and the event; nobody reads the token any more.
RunnerEnds(r) ==
    /\ runner[r] = "recorded"
    /\ RunnerMoves(r, "over")
    /\ stopped' = stopped \ {r}
    /\ UNCHANGED <<history, unsaved>> /\ RunnerUnchanged

\* stop_automation
StopRun(a) ==
    /\ ~Free(a)
    /\ stopped' = stopped \cup {registry[a]}
    /\ UNCHANGED <<history, runner, unsaved>> /\ RunnerUnchanged

-----------------------------------------------------------------------------
(* Shutdown and restart                                                    *)

\* closing is set, and a little later cancel_all runs.
AutomationsClose ==
    /\ ~automationsClosing
    /\ automationsClosing' = TRUE
    /\ UNCHANGED <<clock, rowVars, activeVars, requestVars, automationRestarts, ghostVars>>

CancelAllRuns ==
    /\ automationsClosing
    /\ stopped' = stopped \cup {r \in AutomationRuns : ActiveRun(r)}
    /\ UNCHANGED <<history, runner, unsaved>> /\ RunnerUnchanged

\* recover_automation_runs
RecoverRuns == [r \in AutomationRuns |-> IF history[r] = "running" THEN "interrupted" ELSE history[r]]

\* The program ends, by itself or not, and is started again.
AutomationsRestart ==
    /\ automationRestarts < MaxAutomationRestarts
    /\ automationRestarts' = automationRestarts + 1
    /\ automationsClosing' = FALSE
    /\ history' = RecoverRuns
    /\ registry' = [a \in AutomationIds |-> NoRun]
    /\ runner' = [r \in AutomationRuns |-> "none"]
    /\ stopped' = {} /\ unsaved' = {}
    /\ tick' = Idle /\ request' = Idle
    /\ UNCHANGED <<clock, planVars, ofRun, dueRun, late>>

\* A launch that has its place in the registry goes on to its row.
LaunchNext == RunNowSaves \/ TickSpawns \/ TickReleases

RunnerNext(r) ==
    \/ RunnerFails(r) \/ RunnerStarts(r) \/ RunnerSees(r)
    \/ RunnerRecords(r) \/ RunnerEnds(r)

TickNext ==
    \/ TickReads \/ TickAdvances \/ TickFails
    \/ \E r \in AutomationRuns : TickMisses(r) \/ TickTakes(r) \/ TickSkips(r) \/ TickRecordsFailure(r)

AutomationsNext ==
    \/ Passes \/ ChangeWrites \/ RunNowRefused
    \/ TickNext \/ LaunchNext
    \/ AutomationsClose \/ CancelAllRuns \/ AutomationsRestart
    \/ \E a \in AutomationIds :
          \/ ResumeReads(a) \/ PausePlan(a) \/ DeletePlan(a) \/ RunNowReads(a) \/ StopRun(a)
          \/ \E p \in Periods : EditReads(a, p)
    \/ \E r \in AutomationRuns :
          RunnerNext(r) \/ RunNowTakes(r)

AutomationsSpec == AutomationsInit /\ [][AutomationsNext]_automationVars

-----------------------------------------------------------------------------
(* What automations promise                                                *)

\* At most one run of an automation goes at a time, whatever the scheduler and
\* the user launch, from copies of the automation that may be stale
\* (engine/automations.rs launch_automation).
OneRunEach ==
    \A r, s \in AutomationRuns :
        (ActiveRun(r) /\ ActiveRun(s) /\ ofRun[r] = ofRun[s]) => r = s

\* A scheduled time has at most one row: it is run, missed, skipped or failed
\* once, also when the program stops in between; unless an edit or a resume
\* that took long wrote a time that had passed (automation_tick).
TimesFireOnce ==
    \A r, s \in AutomationRuns :
        (/\ history[r] # "none" /\ history[s] # "none"
         /\ ofRun[r] = ofRun[s] /\ dueRun[r] = dueRun[s] /\ dueRun[r] # NoTime
         /\ ofRun[r] \notin late) => r = s

\* The history says running only of a run whose worker goes on, unless its
\* result could not be stored in this session (save_run, recover_automation_runs).
RowsTellRuns ==
    \A r \in AutomationRuns : history[r] = "running" =>
        runner[r] \in {"driving", "watching", "ending"} \/ r \in unsaved

\* The registry, the history and the workers agree on what runs.
RunsAgree == AutomationTypes /\ OneRunEach /\ RowsTellRuns

\* A run that is stopped ends (stop_automation, shutdown).
StoppedRunEnds ==
    \A r \in AutomationRuns : (r \in stopped) ~> ~ActiveRun(r)
=============================================================================
