# ShadowCode: a TLA+ verification of its engine

ShadowCode (`src/`) is a desktop coding agent.  One engine process per profile,
written in Rust on a multi-threaded tokio runtime (`native/core`), runs the
user's tasks: it queues them per project, asks for approvals, pauses and steers
them, keeps checkpoints, and records everything in SQLite.  The desktop window,
the command line, an MCP gateway, an ACP server and a remote web client all
drive the same engine.  This directory models the parts of the engine where
correctness depends on the order of things: locks taken one after another,
tasks that race, writes that fail, processes that stop.

## 1. Inventory

Paths are under `src/native/core/src/` unless they start otherwise.

| Component | State it keeps | Operations | Interacts with | Hard behaviour |
|---|---|---|---|---|
| Job scheduler (`engine.rs`, `store.rs` job rows) | `QueueState` (jobs, lanes per workspace, manual reservations) behind one lock; per job a `Running` with its record lock, token and finished flag; the row in `desktop_jobs`; the slot semaphore; worker handles | start, cancel, cancel queued, wait, reserve a workspace, drain, run, finish, shutdown, recovery | every front end, approvals, steering, background processes, store | a start appending to a lane whose worker is leaving; cancel against begin and finish; the two locks are never held together; writes that fail; restart with unfinished rows |
| Steering (`steering.rs`, `engine.rs` pause/steer/resume/rewind) | per job: paused and parked flags, steer queue, edit hashes, rewind note, a `Notify` | pause, resume, steer, note an edit, rewind, park and unpark in the task | scheduler (record lock), checkpoints | pause and resume change two structures under two locks; a wake-up sent before the task waits; rewind while the task is parked |
| Approvals (`approvals.rs`) | pending prompts, grants for the rest of a task | ask, answer, cancel of the asking tool, deny a task | scheduler (finish), subagents, remote policy | an answer racing a cancel, a deadline and the end of the task; a grant that outlives its task |
| Local model runtime (`local_runtime.rs`) | the slot (a tokio mutex) with the one llama-server process, its lease count, a snapshot, the abort token | acquire, drop of a lease, unload, stop, cancel of loads | agent loop, `local_engine.rs` | a load aborted half way; unload while leased |
| Agent loop and retry (`engine.rs` run_with_tools, `retry.rs`, `autonomy.rs`) | messages, budgets, retry attempts, runaway counters | model turn, tool call, compaction, retry | models, tools, approvals, steering | retry after partial output; loops that make no progress |
| Subagents and child jobs (`subagents.rs`, `engine/child.rs`, `agents.rs`) | child rows, a counter per task, a semaphore, worktrees of writers | spawn, run, dispose of the worktree, report, cancel with the parent | agent loop, scheduler's register, approvals | the children live inside the parent's future: a parent whose loop returns drops them where they are |
| Job ownership (`engine/owner.rs`, `control/owned.rs`) | per connection a token and the ids of its jobs | submit, register, reply, close, drop | scheduler, MCP gateway, ACP server | a connection that ends while a start is in flight |
| Background processes (`background.rs`, `tools/background.rs`, `store/background.rs`) | a registry under one lock, a worker and a row per process, workspaces reserved for a rewind | start, stop, read, reserve, shutdown | rewind, shutdown, agent loop | an exit racing a stop; a start racing a reservation; writes that fail |
| Automations (`automations.rs`, `engine/automations.rs`, `store/automations.rs`, `service/automations.rs`) | schedule and next time per automation, run history, a registry of active runs | tick, run now, edit, pause, resume, delete, stop, recover | scheduler, store | missed and doubled runs around a restart; copies of an automation that are old when used |
| Goals (`engine/goals.rs`, `store/goals.rs`) | milestones and status in rows, a registry of runs | start, pause, abandon, edit, delete, recover | scheduler | a pause racing a finished milestone; an abandon that waits while the goal is resumed |
| Compare and worktree tasks (`compare.rs`, `worktree_tasks.rs`, `worktrees.rs`, `parallel.rs`) | a record per comparison and per task, a scoreboard, worktrees and branches on disk | start, refresh, keep, apply, discard, cancel | scheduler (jobs, reservations), Git | worktrees and records change one after the other and either may fail; two processes save one record |
| Checkpoints and review (`checkpoint.rs`, `checkpoint/capture.rs`, `review.rs`) | `file_changes`: per task (or rewind) and file what was there first and two hashes; the rewinds that can be undone | journal, capture, record, rewind, undo a rewind or a single change | tools, steering, `service/review.rs` | files and rows change one after the other and either may fail; the user's editor changes files meanwhile |
| Store (`store.rs`, `store/*`) | SQLite: sessions, jobs, events, messages, meta documents | create, save, finish, recover, migrate | everything | one transaction or several; revision checks |
| Vendor CLI agents (`cli_agent/*`) | a child process, a protocol state, resume ids | start, stream, approve, steer, stop | scheduler, approvals, steering | a stream that ends in the middle; a limit reported late |
| Language servers (`lsp/*`) | a slot per project and language under an asynchronous lock; a process and a pipe each | start, request, make room, stop idle ones, stop all | tools, settings | a call that is dropped at an await; a server that exits, hangs or breaks its protocol |
| MCP client and gateway (`mcp.rs`, `mcp/*`) | activations, owned jobs | activate, call, expose | tools, ownership | content changing after activation |
| Remote access (`remote.rs`, `remote/*`) | tokens, pairing codes, failed attempts, streams | pair, revoke, request, stream | service | a one-time code used twice; a stream outliving its token |
| Control transport (`control.rs`, `control/view.rs`, `engine/command.rs`) | leases, connections | attach, detach, call | service | EOF against an answer |
| Terminals, preview, dictation (`terminal.rs`, `preview/*`, `voice/*`) | processes, listeners, an audio buffer | open, close, record | desktop | device and process I/O |
| Tools and policy (`tools.rs`, `permissions.rs`, `sandbox*`, `hooks.rs`, `web.rs`, `patch.rs`) | none between calls | classify, run | approvals, checkpoints | mostly pure or I/O |
| Code intelligence (`symbol_index.rs`, `code_intel/*`) | an SQLite index | refresh, search | tools | index against file changes |
| Configuration, catalogues, text handling (`config.rs`, `routing.rs`, `models.rs`, `openrouter.rs`, `gguf.rs`, ...) | files | parse, resolve | service | sequential |
| Service routes (`service/*`) | none of its own | one route per command | all | a thin layer |
| Desktop shell and UI (`src/src-tauri`, `src/ui`) | view state | show | service | rendering |

What makes the modelled components correct:

* **Scheduler.**  One user of a workspace at a time; every accepted job ends
  exactly once, with one completion event; no queued job is stranded and no lane
  drained twice; a job cancelled before it starts never starts; a final row stays
  final; a shutdown that reports success leaves nothing running; what is cancelled
  ends.
* **Steering.**  A paused task parks and a resumed one continues: no wake-up is
  lost; files are rewound only while the task is parked; an accepted
  instruction is kept until it is delivered; edits made while paused are noticed.
* **Approvals.**  A prompt has one answer, seen by the tool that asked; a grant
  covers only the task it was given for, and none outlives that task.
* **Checkpoints.**  What a task wrote can be taken back, to what was there before the
  task, also after a stop half way; what the user wrote since is never replaced; what
  a rewind replaced can be put back.
* **Local runtime.**  One server process at a time; no lease points at a server
  that has been stopped; unloading waits for the leases.
* **Automations.**  One run of an automation at a time; a scheduled time is run at
  most once, also around a stop of the program; a run that is stopped ends.
* **Goals.**  A goal at rest has no worker; a milestone becomes done only by a job
  that completed in a run nobody stopped, and stays done.
* **Subagents.**  Children end with their parent and leave no row, job or worktree;
  both limits hold.
* **Comparisons and worktree tasks.**  The record tells which worktrees exist; the
  scoreboard counts a comparison once; a worktree stays within reach of a record; a
  result is applied with nobody working beside it.
* **Background processes.**  Nothing runs in a reserved workspace; the end of a
  process is stored once and for all; a shutdown that is over left none.
* **Job ownership.**  No job outlives its connection unstopped; who is told
  "closed" has no live job.
* **Language servers.**  A project and language has at most one server at a time;
  a slot keeps no server that was stopped; a deliberate stop is no crash.

## 2. How the project is built

| Module | Properties and abstract specification | Proofs | Checked by |
|---|---|---|---|
| `JobQueue` | `JobQueueProps`; implements `JobService` | `JobQueueProofs` | `MCJobQueue`, three runs; progress in `MCEngine` |
| `Steering` | `SteeringProps` | `RewindsProofs` | `MCRewinds`; `Steering_rewind` (`MCSteering`); liveness in `MCServices` |
| `Checkpoints` | at the end of it | `RewindsProofs` | `MCRewinds`; `Rewinds_review` |
| `LocalRuntime` | `LocalRuntimeProps`; implements `ModelSlot` | `LocalRuntimeProofs` | `MCEngine`; `LocalRuntime_stop` (`MCLocalRuntime`) |
| `Approvals` | `ApprovalsProps` | `ApprovalsProofs` | `MCServices` |
| `Automations`, `Goals` | at the end of each | `AutomationsProofs`, `GoalsProofs` | `MCServices` |
| `Children`, `Owners` | at the end of each | `ParallelWorkProofs` | `MCServices` |
| `Background`, `LanguageServers` | at the end of each | `BackgroundProofs` | `MCServices`; `LanguageServers_shutdown` |
| `Compare`, `WorktreeTasks` | at the end of each | `ParallelWorkProofs` | `MCServices`; `Compare_discard` |

`MCRewinds` puts pausing and checkpoints, `MCEngine` the scheduler and the model
runtime, and `MCServices` the components around the scheduler, into one specification
each.  The variable `focus` is chosen at the beginning: the component a behaviour is
about takes its steps, the others stay in their initial states.  The modules share no
variables, so the reachable states are those of each component by itself, and few
runs ask every question.  In each component the parts that interact are present: the
stopped task behind its prompts, the parent around its children, the job behind a
milestone, the turns beside a comparison.  What the scheduler does for them (a job
waits in a lane, is cancelled at the front or behind, ends, is recovered) is written
again in these modules, only as far as they can see it, from the same lines of
`engine.rs`.

## 3. What is modelled, and how it corresponds to the code

An action is one critical section of a lock, or one step between two awaits that
another thread can see.  What the code does between two of them is a program
counter; the values a request carries over an await (and that may be stale then)
are variables of their own.  Each name below is an action of the module.
Every module that has a database may refuse each of its writes (`StoreFaults` and the
constants that end in `Faults`), and `Restart`-like actions stop the program at any
step and run the recovery of the next start.

### JobQueue: the scheduler

| Code | Actions |
|---|---|
| `start_with_context` | `StartCheck` (checks before the lock), `StartAdmit`, `StartRefuse`, `StartOrphan` (row stored, then a store failure), `StartSpawn`, `StartPush` (handle registered after the worker runs) |
| `reserve_workspace`, `WorkspaceReservation::drop` | `Reserve`, `Release` |
| `request_cancel_if`, `cancel`, `cancel_queued` | `CancelLookup`, `CancelMark`, `CancelRefuse`, `CancelFront`, `CancelFinish`, `CancelFinishFails` |
| `wait` | `WaitBegin`, `WaitReturn` |
| `pause_job`, `resume_job` (the row) | `Pause`, `Resume` |
| `drain`, `run`, `finish` | `WorkerPick`, `AcquireSlot`, `AbandonSlot`, `BeginRun`, `RunEnds`, `RunLosesEvent`, `EndBody`, `WorkerFinish`, `WorkerFinishFails`, `WorkerRemove` |
| `shutdown` | `ShutdownBegin`, `ShutdownCancel`, `ShutdownDrained`, `ShutdownDone`, `ShutdownTimeout` |
| `Store::recover_jobs` at the next start | `Restart` |

State: `registered`, `lanes`, `manual` are `QueueState`; `status`, `cancelled`,
`finished` are `Running`; `db` is the row; `worker`, `current`, `outcome` are the
drain tasks, each named by the job whose start spawned it, so that two workers of
one lane can be expressed.  Abstracted: what a turn does, texts, usage, sessions.

### Steering: one task that is paused, steered and rewound

| Code | Actions |
|---|---|
| `pause_job` with `SteerControl::pause` | `PauseCheck` (before the record lock), `Pause`, `PauseRefused` |
| `resume_job` | `ResumeSteer` (steer lock), `ResumeRecord` (record lock) |
| `steer_job`, `note_job_edit` | `SteerCheck`, `SteerSet`, `NoteCheck`, `NoteEdit` |
| `rewind_job`, `SteerControl::rewind`, `checkpoint::restore` | `Rewind`, with `Restore` |
| `await_steering` | `TurnBegins`, `TaskStops`, `TaskParks`, `TaskHashes`, `TaskTests`, `TaskArms`, `TaskRefreshes`, `TaskConsumes`, `TaskLeaves`, `TaskCancelled` |
| the tools of the task | `TaskRead`, `TaskWrite`, `TaskForgets` |

`permit` is the one permit a tokio `Notify` stores: `notify_one` (resume) leaves
it, `notify_waiters` (pause) does not.  A file's content is who wrote it last.

### Checkpoints: what tasks change, and rewinds

| Code | Actions |
|---|---|
| a task's turn | `CpTaskStarts`, `CpTaskEnds` |
| `commit_changes` (tools) | `CommitBegins`, `CommitJournals` (every row before any file), `CommitWrites`, `CommitStops` |
| `capture::before`, the command or vendor turn, `capture::after` | `CommandBegins` (with a capture, or blind), `CommandWrites`, `CommandEnds`, `CommandRecords`, `CommandUncovered` |
| `checkpoint::restore` | `RestoreChecks` (all files), `RestorePuts`, `RestoreMarks`, `RestoreFails` |
| `review::rewind` of a finished task | `RewindBegins`, `RewindKeeps`, `RewindCloses`, `RewindGivesUp` |
| `Engine::rewind_job` | `JobRewindBegins`, `JobRewindReturns` |
| `review::undo_rewind` | `UndoBegins`, `UndoRestored`, `UndoMovesBack`, `UndoForgets`, `UndoEnds` |
| `review::undo` | `ReviewWrites`, `ReviewMoves` |
| a statement that fails, the end of the program, the user's editor | `OperationBreaks`, `CpCrash`, `UserEdits` |

The undo of a single change reverts it in the file as it is (`ReviewResults`).  If the
user has edited the file, what he wrote elsewhere in it stays: the result is a content of
his that is nowhere else, and `author` becomes `"mixed"`.  The row is then moved to this
content like to any other.  Which changes a file has is left open.

A step is one statement or one replaced file.  A hash stands for its content, so a
row is three contents: what was there first, what the task left, what it saw.  The
last look at a file and the rename that replaces it are one step: `workspace.rs`
looks again before it renames, and `EditsSurvive` is not about edits in between.  What a user
wrote is told from what agents write (`UserTexts`), and `author` says who wrote a
file last; an edit while nothing works in the project (`"user"`) is told from one
that races an operation (`"typing"`).

### Approvals: prompts and grants

| Code | Actions |
|---|---|
| `ApprovalHub::ask` and its callers | `Ask`, `AskGranted`, `AskUncovered`, `AskPrompts`, `AskAnnounced`, `AskAnswered`, `AskGivesUp`, `AskReturns`, `AskRecorded`, `Run` |
| `ApprovalHub::answer` | `Answer`, `Deadline` (the clock) |
| `deny_task` from a cancel, a shutdown, and `finish` | `CancelDenies`, `CancelRevokes`, `FinishDenies`, `FinishRevokes`, `FinishFails` |

A scope is what a grant covers (a kind of tool with a command prefix).  Previews,
the wording of prompts and the warning before the deadline change no state.

### LocalRuntime: the one llama-server

| Code | Actions |
|---|---|
| the tokio mutex `slot` | `Enqueue`, `Locked`, `GiveUp` |
| `acquire`, `launch_with_fallback`, `launch` | `Acquire`, `Share`, `Refuse`, `Replace`, `Replaced`, `SlotIsFree`, `Launch`, `LaunchFails`, `LoadExited`, `LoadFails`, `LoadReady`, `LoadAbandoned`, `Abandoned`, `Publish` |
| `Lease::drop` | `DropLease` |
| `unload`, `cancel_loads`, `stop` | `Unload`, `CancelLoads`, `UnloadTakes`, `UnloadReturns`, `Unloaded`, `Stop`, `StopTakes`, `StopClears`, `Stopped` |
| a task that is stopped, a server that dies | `CancelTask`, `Crash` |

The mutex is fair, so its waiters are a sequence.  `Server::stop` waits for the
process (SIGTERM, then SIGKILL), which is taken as its end.  While a server loads,
`LoadAbandoned` stands for the two tokens, the timeout and a wrong context size.

### Automations: schedules, runs and their history

| Code | Actions |
|---|---|
| `automation_tick` | `TickReads`, `TickGoesOn`, `TickAdvances` (the next time, before the run), `TickFails`, `TickRecords` with `TickMisses`, `TickTakes`, `TickSkips`, `TickSpawns`, `TickReleases`, `TickRecordsFailure` |
| `run_automation_now` | `RunNowReads`, `RunNowTakes`, `RunNowRefused`, `RunNowSaves` |
| the worker of a run | `RunnerStarts`, `RunnerFails`, `RunnerSees`, `RunnerRecords`, `RunnerEnds` |
| edit, pause, resume, delete, stop | `EditReads`, `ResumeReads`, `ChangeWrites`, `PausePlan`, `DeletePlan`, `StopRun` |
| shutdown, the next start | `AutomationsClose`, `CancelAllRuns`, `AutomationsRestart` with `RecoverRuns` |

A launch works with a copy of the automation that may be old (`Copy`); the registry
(`Active`) is what keeps two runs apart.  A schedule is its period: it is due at the
multiples of it, after a clock (`Passes`).  Cron expressions, time zones, the pruning
of the history after 200 rows and the worktree of a run are left out.

### Goals: milestones worked off one by one

| Code | Actions |
|---|---|
| `start_goal` | `StartGoal`, `StartGoalRefused` |
| `drive_goal` | `DriverSkips`, `DriverStarts`, `DriverCannotStart`, `DriverRecords`, `StepJobEnds`, `DriverCancelsJob`, `DriverPauses`, `DriverJudges`, `DriverSaves`, `DriverEnds` |
| `stop_goal` (pause, abandon) | `StopGoal`, `StopGoalReturns` (by then the goal may have another run) |
| edit, delete, shutdown, the next start | `EditMilestone`, `DeleteGoal`, `GoalsClose`, `CancelGoals`, `GoalsRestart` |

A run is an `Arc<GoalRun>`: two runs of one goal are different values, which is what
`stop_goal` compares (`SameRun`).

### Children: subagents inside their parent's future

| Code | Actions |
|---|---|
| `SubagentHost::try_run` | `CallSpawns`, `CallGivesUp`, `CallTakesSlot`, `CallPrepares` (worktree), `CallDisposes`, `CallReports` |
| `run_child_inner` | `ChildStored`, `ChildRegisters`, `ChildEnds` |
| the parent's loop | `ParentEnds` (a whole group is over), `ParentFails` (a store failure drops the others) |
| stop, shutdown | `StopParent`, `ChildrenClose`, `ShutdownStopsParent` |

### Compare: a comparison of models

| Code | Actions |
|---|---|
| `start` | `CompareStart`, `CreatesTree`, `LaunchesTurn`, `UndoesLaunch` |
| `get`, `list`, `keep`, `discard`, `cancel` | `CompareLoads`, `RefreshesLane`, `KeepApplies`, `StopsLanes`, `AwaitsLane`, `RemovesLane`, `CompareSaves` |
| another process, the conversations of the lanes | `OtherSaves`, `FollowUp`, `LaneTurnRuns`, `LaneTurnEnds` |

The record an operation works with is a copy (`compareOp`); `SavesOver` is the rule
by which `save` merges it with what is stored, and the scoreboard moves with it.

### WorktreeTasks: one task in a worktree of its own

| Code | Actions |
|---|---|
| `prepare`, the route, `started`, `abandon` | `TaskPrepares`, `TaskTreeCreated`, `TaskRecorded`, `TaskLaunched`, `TaskNoted`, `TaskAbandoned` |
| `get`, `list`, `apply`, `keep_branch`, `discard` | `TreeOpLoads`, `TaskViewed`, `TaskReserves`, `TaskWorks`, `TaskTurnStops`, `TaskStopped` |
| `close` and the `save` after it | `TaskTreeRemoved` (Git removes the worktree), `TaskBranchPruned` (the branch, the worktree's own record), `TalkMoved` (the conversation goes back), `TaskClosed` (the record is saved) |
| turns, other tasks, deletion, stop of the program | `TreeFollowUp`, `TreeTurnRuns`, `TreeTurnEnds`, `ProjectTask`, `TalkDeleted`, `TasksCrash` |

The program may stop, or a write fail, between any two steps of a close.  The record is
then still open and its worktree gone, its branch perhaps too; `cutShort` remembers what
the close was to record.  Such a task can only be discarded: `apply` and `keep_branch`
refuse without a worktree (`TaskReserves`).

### Background: processes that outlive a tool call

| Code | Actions |
|---|---|
| `start_inner`, `run` | `ProcStarts`, `ProcHasPid`, `ProcReports`, `ProcBreaks`, `ProcExits`, `ProcEndStored`, `ProcFinishes` |
| `stop` | `StopsProc`, `StopMarks` (a second lock, a process may have ended), `StopReturns` |
| `reserve_idle_workspace` | `PlaceReserved`, `PlaceReleased` |
| shutdown, stop of the program | `ProcsClose`, `ProcsAreDown`, `ProcsCrash` |

### Owners: jobs that end with their connection

| Code | Actions |
|---|---|
| `serve` | `Submits`, `StartFailsEarly`, `OwnedStart` (registered before it is in a lane), `Replies`, `ClientCloses`, `ConnectionBreaks` |
| `JobOwner::close` | `Closes`, `CloseLooks`, `CloseCancels`, `CloseWaits` (a future per job), `CloseReturns` |
| `Owned::drop`, an abort of the task | `OwnerDropped`, `ServeAborted` |
| the jobs, other clients | `OwnJobRuns`, `OwnJobEnds`, `StoppedJobEnds`, `OwnJobCancelled`, `OwnJobDeleted` |

A job whose row is stored while a later write of its start fails is an `orphan`: it is
in no queue, so it is not live, and the owner keeps its id.

### LanguageServers: a pool of processes

| Code | Actions |
|---|---|
| `Pool::client`, `make_room`, `Client::start` | `ToolWants`, `ToolLocks`, `RoomNext`, `ServerStarts`, `ServerReady`, `StartFails` |
| requests | `UseEnds`, `PipeFills` |
| `Client::shutdown` | `StopAsks`, `StopSaysExit`, `StopKills` |
| `stop_idle`, `stop_all` | `SweepBegins`, `ReaperLooks`, `StopperPicks`, `StopperLocks`, `SweepEnds` |
| dropped futures, processes | `AgentCancelled`, `ServerExits`, `ServerHangs`, `ServerGoesOn`, `ReaderFails`, `BackoffPasses` |

An agent is one future with what it holds: a lock, a reference to a client.  When a
future is dropped both go, and a client nobody refers to kills its process
(`Processes`).  `max_servers` is no bound on the processes: `make_room` passes over
slots that are busy, so two starts at once do not count each other
(`lsp/mod.rs:177`), although `lsp/mod.rs:9` and `docs/CODE_INTELLIGENCE.md:73` say "at
most".

## 4. The runs

Passing runs:

| Run | Instance | Shows |
|---|---|---|
| `JobQueue_safety` | 2 jobs in one lane, 2 requests, 1 slot, shutdown, 1 restart | `RowsMatchMemory`, `CompletedOnce`, `ExclusiveWorkspace`, `LaneServedOnce`, `ShutdownQuiesces`, `CancelledNeverStarts`, `FinalRowsStay`; `JobQueue` implements `JobService` |
| `JobQueue_slots` | 2 jobs in 2 workspaces, 1 slot, every write may fail, no shutdown | the inductive invariant `IInv`, `QueuedEnds` |
| `Rewinds_safety` | Steering: 2 requests, 2 instructions, 1 file.  Checkpoints: 1 task, 2 files, 1 undo, 2 calls of tools, of which a failure or a stop of the program takes the place of one | `ParkingAgrees`, `ChangesReported`, `InstructionsKept`; `CheckpointsAgree`, `EditsSurvive` |
| `Engine_progress` | Scheduler: 2 jobs in one lane, 1 request, shutdown.  Model runtime: 2 callers, 2 models, 2 servers, shutdowns | `CancelledEnds`, `ShutdownEnds`; `RuntimeInv`, `OneServer`, `OperationsEnd`; `LocalRuntime` implements `ModelSlot` |
| `Services_safety` | nine components, one at a time; see below | one or two properties of each |
| `Services_liveness` | nine components, one at a time; see below | `PromptsEnd`, `PausesEnd`, `StopsAreHeard`, `CompareOpsEnd` |

The instances of the two `Services` runs:

| Component | `Services_safety` | `Services_liveness` |
|---|---|---|
| Approvals | 1 task, 2 asks, 2 scopes, faults | 1 task, 1 ask, 1 scope, faults |
| Steering | (`Rewinds_safety`) | 2 requests, 1 instruction, no files |
| Automations | 1 automation, 2 runs, times up to 2, 1 restart, no write fails | 1 run, times up to 1, 1 restart, faults |
| Goals | 1 goal of 2 milestones, 2 runs, 1 stop, 1 restart, faults | 1 milestone, 1 run, 1 edit, faults |
| Children | 3 calls, one a writer; 1 at once, 2 per task; faults | 2 calls |
| Compare | 2 lanes, 1 turn each, 4 operations, 1 save of another process, faults | 2 turns each, 2 operations, faults |
| WorktreeTasks | 2 turns, 1 stop of the program, faults | (no liveness is asked) |
| Background | 2 processes of one name, 1 workspace, 1 stop of the program, faults | 1 process |
| Owners | 2 jobs, faults | 1 job, faults |
| LanguageServers | 2 keys, 2 tools, the reaper, room for 1 server | 1 key, 1 tool, the reaper, 1 change of settings; servers may hang |

What the properties of the `Services` runs say, and what they leave out:

* `RunsWithConsent`, `AnsweredOnce`, `PromptsAreHeard`, `EndsWithTask`: approvals;
  the last is about tasks that `finish` completed.  When `finish` fails on reading
  events (`engine.rs:1271`), `drain` marks the job finished without `deny_task`, and
  its grants stay in the hub.
* `TimesFireOnce`: a scheduled time has at most one row in the history.  An edit or
  a resume that read the automation before a tick and writes after it can set the
  next time back to one that was used (`late`, `service/automations.rs:140`); these
  automations are excepted.  The run has a stop of the program between the write of the
  next time and the run; that a write fails there is left to the proof (`TimesHold`).
* `RunsAgree`: at most one run of an automation goes at a time, and the history says
  running only of a run whose worker goes on, except where its end could not be
  stored (in the proof `RunsHold`; the safety run has no write that fails).
* `GoalsAgree`: no worker goes on with a goal that is paused, blocked or abandoned;
  a completed goal has all its milestones done; the rows say running only while a
  worker is at it.  Goals with a failed write in this session are excepted.
* `DoneIsEarned`: a milestone becomes done by a job that completed in a run nobody
  stopped, or by the user's edit, and stays done otherwise.
* `ChildrenAgree`: a child ends before its parent and leaves no live job, running row
  or worktree behind; at most `MaxPerTask` are started and `MaxParallel` go at once.
  Excepted are children whose parent's loop failed under them (`abandoned`): when a
  call of a parallel group cannot store its event, the loop returns and drops the
  other calls where they are (`engine.rs:2317`), against `docs/SUBAGENTS.md:32`.
* `ComparisonsAgree`: `BoardCountsOnce` (the scoreboard has one run of a comparison
  that finished and one win of its winner, whichever process saves) and
  `LanesAccounted` (a lane marked removed is gone, an open comparison has all its
  worktrees, a closed one either marked them or still has them).
* `TreesAgree`: a worktree that is there has a record that names it and does not call it
  removed; the conversation of an open task runs in its worktree; a kept branch stays,
  also when the close that kept it was cut off before its record was saved; and nothing
  runs in the project or the worktree while a result is applied.  Excepted are starts
  that were cut off, changes that were not stored (a first turn whose record could not be
  stored stays at "starting", `worktree_tasks.rs:307`, which no operation takes further),
  and, for conversation and worktree of an open task, closes that were cut off.
* `BackgroundAgrees`, `EndsAreKept`: nothing lives in a reserved workspace, names and
  limits hold, a finished shutdown left nothing, an end is stored, unless the write
  failed, and is never written over.
* `OwnedAgree`: while the connection lasts its owner knows every live job; an
  acknowledged close leaves none; after any other end each live one is signalled.
  A row whose start failed half way (`orphan`) is in no queue and counts as not live.
* `ServersAgree`: a slot holds a server of its own key, never one that was stopped on
  purpose and never one beside a backoff; a start holds the lock of an empty slot.
* `ParkingAgrees`, `ChangesReported`, `InstructionsKept` (of `Rewinds_safety`): no wake-up
  is lost and a queued task is not marked; files are restored only inside
  `await_steering`, and when a task collects its notes it is told of exactly the files
  that, as it read them on waking, differ from what it saw; an instruction is kept until
  it is heard or replaced.  What is restored after the notes were collected is not told
  (`Steering_rewind` below).
* `CheckpointsAgree`: what a task put into a file is recognised by its row (also after
  a stop between the row and the file); the row's original is the file at the task's
  start; and as long as a rewind can be undone, all it replaced can be put back.
  Files the user edited during the turn, and those a command without a capture
  changed, are excepted from the second part.
* `EditsSurvive`: a file the user edited while nothing worked in the project is
  replaced by no rewind and no undo of one, unless a single change of it was undone in
  the review after the edit (`Rewinds_review` below).
* `PausesEnd`: a resumed task goes on unless it is paused again, and a cancelled one
  ends, also while it is paused.
* `StopsAreHeard`: a stopped run of an automation ends; the stop of a goal and of a
  process returns; a stopped parent ends with its children; the jobs of a closed
  connection end and the close returns; what uses or stops a language server
  returns, unless a server is stuck (next table).
* `CompareOpsEnd`: every operation of a comparison returns, the ones that wait for
  turns, too.

Runs that TLC finds violated, each a place where the code does not do what a
comment or a document says:

| Run | Property | What happens |
|---|---|---|
| `JobQueue_waiters` | `WaitersSeeRemoval` | `finish` wakes the waiters before `drain` takes the queue lock; on the multi-threaded runtime a waiter returns while the job is still registered (comment at `engine.rs:1065`). |
| `Steering_rewind` | `RewindNoticed` | after the task has collected its notes and before its `Parked` guard is dropped, a pause and a rewind restore files the task is not told about (comment at `engine.rs:845`). |
| `Rewinds_review` | `RewindRefuses` | the undo of one change leaves the user's edit in the file and makes the mixture what the task left (`review.rs:263`); the next rewind recognises it and replaces the edit (`docs/USER_GUIDE.md:214`). |
| `LocalRuntime_stop` | `OneAlways` | `stop` gives the slot free before it terminates the server; a load meanwhile starts a second one (`local_runtime.rs:1`). |
| `Compare_discard` | `DiscardStops` | a lane has a turn that runs and a follow-up behind it; `stop_lanes` cancels the latest job only, which ends at once, and the worktree is removed under the turn that works in it (`docs/COMPARE.md:64`). |
| `LanguageServers_shutdown` | `ShutdownMakesSure` | a write to a server that stopped to read has no time limit, so `shutdown` never reaches its `kill`, and holds the slot (comment at `lsp/client.rs:814`). |

The models also show, in steps that are easy to follow by hand, why some properties
of the first modules are stated with an exception:

* `EditsTold` excludes a second pause.  A pause of a task that is already parked
  empties `pause_hashes` (`engine.rs:776`), which is filled once per parking, and an
  edit made meanwhile is not reported.
* `InstructionsKept` does not say when an instruction is heard.  Pause, steer and
  resume before the task's next boundary, and `await_steering` returns at once
  (`engine.rs:1642`): the instruction stays until a later pause.
* No property relates `status` to `paused`.  A pause between the two locks of a
  resume (`engine.rs:811`) leaves a paused task with the status running.
* `UndoKeepsAll` says nothing of a rewind that stopped half way: its error path deletes
  the undo rows of the files already restored, too (`review.rs:313`).  And an undo that
  stops after its files are back and before the task's rows are (`review.rs:380`) finds
  no unrestored row when it is tried again, and forgets itself: the task cannot be
  rewound after that, against `docs/API_CONTRACT_0.28.md:746`.
* `EditsSurvive` excludes files one change of which was undone since they were edited,
  for the reason `Rewinds_review` shows.
* `OneServer` excludes a server a shutdown has taken out of the slot, for the reason
  `LocalRuntime_stop` shows.

**Why these bounds are enough.**  The hazards of the scheduler involve two jobs of a
lane (the front and the next one), one competitor for a slot or a workspace, and two
requests; a lane with a middle is left to the proofs.  Two requests are enough for
every pair of operations on a task to overlap.  For the slot of the local runtime, two
callers give a holder and a waiter, a loader and a shutdown, or a user of a lease and
an unload.  `LocalRuntime_stop` has a third server for its two and a crash.

Around the scheduler, the instance has what the hazard needs twice: two runs of one
automation or goal (the old one that ends and the new one), two times of a schedule,
three calls of subagents against room for one and a limit of two, two lanes whose turns are launched one after the other, with four operations and
another process's save (the turn behind the one that runs is in the liveness run and in
`Compare_discard`), two processes of one name in one place, two jobs of a connection
whose futures of `close` interleave, two slots and two calls against room for one
server.  Grants and prompts interact inside one task: two asks with two scopes give a
grant, its use, and an action outside it.

Two files are enough for one that is written and one that is not yet; two calls of
tools make a row that is written again; after a stop everything can be tried again.

The bounds that end the runs are `MaxCalls`, `MaxBreaks`, `MaxJobs`, `MaxRestarts`, `MaxAsks`, `MaxTime`,
`MaxAutomationRestarts`, `MaxGoalEdits`, `MaxGoalRestarts`, `MaxTurns`, `MaxOps`,
`MaxOtherSaves`, `MaxTaskTurns`, `MaxTaskCrashes`, `MaxProcCrashes`, `MaxOwned` and
the sets of runs and processes; a restart from any state is a restart from every
state the run reaches.  `JobQueue_slots` leaves the shutdown out by the action
constraint `NoShutdown`: what it asks is about jobs that run.  `RunSymmetry`, the
runs of automations and goals being told apart only by when they begin, is used in
the safety run alone.  The liveness run has no files, which wake-ups do not depend
on.  The proofs of section 6 do not depend on these sizes.

Deadlock is not checked: jobs, actions and restarts are used up, and a system with
no work left is meant to stop.

## 5. Fairness

Safety runs assume none.  The liveness runs assume what tokio gives: a future that
is ready is polled, so every step a worker, a task or a request can do by itself is
weakly fair; users need never act.  Waiting in a `select!` whose branches are ready
again and again (the cancelled branch of a paused task) is strongly fair, because
`select!` picks a ready branch at random.  Timeouts fire (`Deadline`,
`LoadAbandoned`).  `QueuedEnds` makes an exception for paused jobs: a paused job
keeps its slot for as long as the user leaves it so.

`FairServices` is the conjunction for the components of `MCServices`, each taken
while it is in focus: asking tools and their deadlines, the steps of a steered task and
of its requests, the workers of automations, goals and processes, the stops that
wait, the futures of subagents, the operation that holds the lock of the
comparisons, the futures of `close`.  What a job, a child or a process does by itself
may take for ever; only when it is stopped must its loop look at its token
(`StoppedParentEnds`, `ChildStops`, `CancelledTurnEnds`, `CancelledProcExits`,
`StoppedJobEnds`).  Tools and stops of language servers are strongly fair, since the
lock they wait for is taken and given back by others: tokio's mutex serves its waiters
in order.  A language server owes nothing; requests end by their timeout
(`UseEnds`), which begins when the write is done, and a stop kills after its polls
(`StopKills`).  `FairLanguageServers` assumes the same in the run of this module
alone, where the counterexample needs a server that neither reads nor ends.

## 6. What is proved

The proofs are checked by TLAPS for every value of the constants, from the
assumptions the modules name (`JobQueueAssumption`, `SteeringAssumption`,
`ApprovalAssumption`, `RuntimeAssumption`, `AutomationAssumption`, `GoalAssumption`,
`ChildAssumption`, `CompareAssumption`, `WorktreeTasksAssumption`, `CheckpointsAssumption`, `BackgroundAssumption`, `OwnersAssumption`, `LspAssumption`), none
stronger than what the code has: finite sets where the code counts, bounds that are
natural numbers, and values that stand for "none" being no members.

* **JobQueueProofs.**  `IInv` is inductive.  `LaneServedOnce` alone is not: that a
  worker leaves only an empty lane rests on it working on the head of the lane
  (`WorksOnHead`), on one start at a time being about to spawn (`SpawnsOnce`) and on
  jobs lying in the lane of their workspace (`LanesOwn`).  `CompletedOnce` needs
  that a request finishes a job only when no body of it runs (`FinishesCancelled`)
  and that a job that runs is not finished (`RunsUnfinished`); `KnownJobs` ties
  memory to rows.  From it follow `ServedOnce`, `CompletesOnce`, `Exclusion` and the
  action properties `FinalStays` and `CancelledStays`, store faults and restarts
  included.  What the scheduler promises only while no database write fails is proved
  under `~StoreFaults`, from `FaultlessInv`: rows and memory agree
  (`RowsMatchMemory`), a worker removes only a job that has finished
  (`RemovesFinished`), and a shutdown registers nothing behind its snapshot and joins
  only when all it saw have finished (`ShutdownSees`).  It gives `RowsMatch`,
  `Quiesces`, and the refinement `ServiceKept`: each step of the scheduler is one of
  `JobService` or none.  The refinement needs that jobs and clients are told apart
  (`JobQueueAssumption`), because the abstract workspace names either as its user.
  TLC checked `FaultlessInv` on the instance of `JobQueue_safety` before the proof.
* **RewindsProofs: steering.**  The wake-up is safe because a task between the test of the
  flag and its wait is either still paused or finds a permit; rewinds are safe
  because the parked flag is set only inside `await_steering`.  `ReportsHold` rests on
  `HashesOfPause`: the hashes a parked task compares with are empty or those it saw.
* **RewindsProofs: checkpoints.**  `CheckpointsAgree` and `EditsSurvive` speak of rows and
  files at rest; the ten other parts of `CheckpointsInv` say what an operation carries
  from one to the other.  For `TaskIsCovered`: what a commit is about to write is in
  its row (`Journalled`), and a file that an operation has looked at is as it was seen,
  unless a command or the user's typing has changed it since (`Fresh`): a
  file put back and not yet marked is what its row says.  For `FirstIsKept`: a file
  without a row is as it was when the task started (`UnchangedYet`).  For `UndoKeepsAll`: a
  rewind keeps rows only of files its task has rows of (`UndoRows`), a row for every file it
  will replace (`KeepsWhatItReplaces`), in rows that stay unrestored until the undo puts
  them back (`ReplacedKept`), and an undo forgets its rows when it has put back all
  (`UndoPutsAll`).  `EditsSurvive` rests on `EditsKnown`: a row that recognises what the user
  wrote has it as the content to put back, unless one change of the file was undone since
  (its author is `"mixed"` then).  That is the one way a restore touches such
  a file, and it changes nothing.  The names of tasks are told apart from the other
  authors, which are words of the model (`CheckpointsAssumption`).  TLC found the
  invariant to hold with one file, two tasks, two rewinds, two calls and one break
  (5,845,539 states), before it was proved.
* **ApprovalsProofs.**  An action that runs has an accepted answer behind it: the
  invariant carries that through the channel (`ConsentBehind`), the grants
  (`GrantsGiven`) and the order of prompt and answer (`AnswersFollow`,
  `AnswersClose`).  `EndedHoldsNothing` adds that a prompt listed for a task keeps
  it from being over, so an answer after its end finds none.
* **LocalRuntimeProofs.**  `OneServer` follows from `SlotInv`: the holder of the mutex
  is the one caller inside its critical section (`HolderInside`), and a server that
  runs is in the slot or belongs to one operation (`ServersOwned`).  A server leaves
  the slot before it is stopped and enters it when it is ready, so a handover never
  leaves one unowned; the invariant holds with crashes, cancellations and shutdowns.
  `RuntimeInv` adds the rest: the queue of the mutex holds each waiter once
  (`QueueHoldsWaiters`), where a caller is tells what it does (`OpsAgree`) and that an
  acquire before a launch has one left (`LaunchesLeft`), the count at a server is the
  number of its leases, which is 0 while it starts (`LeasesCounted`, `NewUnleased`;
  here the callers must be finitely many), and a server in use leaves the slot only
  by a crash or a shutdown (`LeasedIsLoaded`).  From it follows the refinement
  `SlotKept`: a load is the abstract `Load`, a server is replaced or unloaded only as
  `Evict` allows, and only a shutdown takes a model from its users.
* **AutomationsProofs.**  Two facts carry everything.  `Registered`: a run that is not
  over holds the place of its automation in the registry, so two such runs are one;
  `LaunchesHold` says so of a launch that is still storing its row.  `Times` orders
  the instants: those with a row, then the copies the tick holds, then the next times
  in the rows, then, when it is written, the future.  A restart drops the copies, so
  the order survives it; only a late write of an edit breaks it, and only for its
  automation.  `RowsKnown` keeps a place from being taken for a row.
* **GoalsProofs.**  Every unfinished run is the one the registry names for its goal
  (`Registered`), which is what `stop_goal` relies on when it compares pointers after
  its wait; and the milestone a run is at is not done (`AtStep`), so nobody earns a
  milestone twice.
* **ParallelWorkProofs: subagents and owned jobs.**  `ChildInv` tells from where a call is what its child has
  (`CallsTell`), keeps calls in flight inside a working parent (`InParent`), and bounds
  what got past the counter (`LimitsKept`): the counter is only raised, so it bounds
  the calls however they end.  `OwnedInv` adds to `OwnedAgree` where the future of
  each job stands (`CloserKnows`): a future that ended has seen its job end, and no job
  is registered after `close` began, so when all have ended none is live.
* **ParallelWorkProofs: comparisons.**  `ComparisonsAgree` is about the record at rest, but an
  operation works on a copy over many awaits, and another process may save meanwhile.
  `CopyAtStage` says what a copy may hold at each stage of each operation: a copy that
  is counted and still running belongs to a discard that waits, one that is applied to a
  keep behind its apply.  `CopyFollows` says how far a copy that can still be saved is
  ahead of the record, which is why the scoreboard is never told twice.  `TreesFollow`
  ties the worktrees to the two: what is marked removed is gone, while a start creates
  exactly the lanes before its own are there, and until something is unstored an open
  comparison has them all.  TLC checked `CompareInv` with two lanes and with one turn and
  four operations, or two turns and three, before it was proved.
* **ParallelWorkProofs: worktree tasks.**  `TaskOpKnows` says that an operation that goes on
  after its reservation finds the record as open as it loaded it and nothing running
  where it works, that a close is at a removed worktree exactly as far as its stage says,
  and that only an open task can have a close that was cut off.  `TaskStartKnows` says
  what there is of a task while it is started, when no operation can load it, and
  `TreeHasBranch` that a worktree has its branch, without which a branch that is to be
  kept could be gone before the close.  From these follows `TreesAgree`, whose exceptions
  (section 4) are in its statement.
* **BackgroundProofs.**  `ProcInv` ties where the worker of a process is to its status
  in memory and in the database (`WorkerKnows`): a process is stoppable exactly until
  its worker has its end, so a stop cannot overwrite one.  `LspInv` says who holds
  which slot: a tool keeps the lock of the slot it starts for, and the slot is empty
  (`ToolHolds`); who stops a server keeps the lock of the slot it was in, and only the
  reaper leaves it there meanwhile (`StopHolds`), which is harmless because the reaper
  alone is never cancelled.

Every safety invariant, action property and refinement that a passing run checks is the
statement of a theorem.  Only model-checked: the liveness properties (TLAPS cannot prove
fairness arguments or reason about ENABLED), and the counterexamples of the runs that
expect a violation.

## 7. What is not modelled

* What a model answers, what tools do to the outside, formats and texts.
* Poisoned locks: a panic inside a critical section makes the code return errors.
* Vendor tasks' own way of pausing (`cli_agent/runner.rs` `wait_for_steer`), and the
  protocols of the four vendor programs, which this repository does not specify.
* Checkpoints: how a review finds the changes of a file, its Git baseline, capture refs and their pruning,
  file modes, and what Git ignores: a capture sees every file here, so a command that
  changes the ignore rules is not modelled.
* Sessions, their forks, message tapes and usage.  Each writing operation of the store
  is one transaction under one lock, so the modules see it as a step that happens or
  fails; its SQL is left to the unit tests.
* The agent loop's retry and compaction: budgets of one sequential loop.
* The arithmetic of cron expressions and time zones; `parallel.rs`; documents and diagnostics of language servers.
* Pairing and HTTP of remote access, MCP servers' own protocols, control connections
  other than the owned ones: one request and one reply each, or a view that only reads.
* Terminals, preview and dictation: devices.  Parsers, catalogues, configuration,
  routing, code intelligence, service routes, the desktop shell and the UI: sequential
  or without state of their own, and most of the code by lines.
