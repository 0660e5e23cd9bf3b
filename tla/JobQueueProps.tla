--------------------------- MODULE JobQueueProps ---------------------------
(* What the job scheduler promises; JobQueue is the scheduler itself. *)
EXTENDS JobQueue

-----------------------------------------------------------------------------
(* Safety                                                                  *)

Runs(k, w) == worker[k] = "running" /\ wsOf[k] = w

\* At any time at most one job body runs in a workspace, it is the job that
\* was queued there first, and none runs while a manual change holds the
\* workspace (engine.rs reserve_workspace, start_with_context and drain share
\* the queue lock, but the finished flags they read are written outside it).
ExclusiveWorkspace ==
    \A w \in Workspaces, k \in Jobs : Runs(k, w) =>
        /\ manual[w] = NoClient
        /\ lanes[w] # <<>> /\ current[k] = Head(lanes[w])
        /\ \A l \in Jobs : Runs(l, w) => l = k

Spawning(c, k) == cpc[c] = "spawn" /\ cjob[c] = k

\* The worker, or the start about to spawn it, that serves the lane.
Serves(k, w) ==
    /\ wsOf[k] = w
    /\ worker[k] \notin {"none", "done"} \/ \E c \in Clients : Spawning(c, k)

\* A lane with jobs has exactly one worker and an empty lane none: no queued
\* job is stranded when a worker leaves while a start appends, and no lane
\* is drained twice (engine.rs drain, start_with_context).
LaneServedOnce ==
    \A w \in Workspaces :
        IF lanes[w] = <<>>
        THEN ~\E k \in Jobs : Serves(k, w)
        ELSE \E k \in Jobs : Serves(k, w) /\ \A l \in Jobs : Serves(l, w) => l = k

\* A job has one agent.completed event when its row is final and none
\* before, whichever of worker, canceller and recovery ends it (engine.rs
\* finish, store.rs recover_jobs).
CompletedOnce ==
    \A j \in Jobs : completions[j] = IF db[j] \in Terminal THEN 1 ELSE 0

\* When no database write fails, a row is unfinished exactly as long as this
\* process still owes the job its end: nothing is lost between the queue,
\* the record and the table (engine.rs start_with_context, finish, drain).
RowsMatchMemory ==
    \A j \in Jobs : (db[j] \in Live) <=> (j \in registered /\ ~finished[j])

\* After a shutdown that reported success every job has its final row and
\* no job body is running: no start slipped past the closing flag
\* (engine.rs shutdown).
ShutdownQuiesces ==
    shutdown = "done" => \A j \in Jobs : db[j] \notin Live /\ worker[j] # "running"

\* A job cancelled before it started never starts (engine.rs run: "a stale
\* queue button can never cancel a task that has already transitioned").
CancelledNeverStarts ==
    [][\A j \in Jobs :
         (cancelled[j] /\ status[j] \in {"queued", "cancelling"})
             => status'[j] # "running"]_vars

\* A final row is never overwritten, by a late pause, resume, cancel, worker
\* or recovery (engine.rs pause_job, resume_job, request_cancel_if, finish).
FinalRowsStay ==
    [][\A j \in Jobs : db[j] \in Terminal => db'[j] = db[j]]_vars

\* The comment at the call of finish in engine.rs drain: "waiters see the job
\* finished only together with its removal from the queue below".  Stated
\* for jobs that ended by themselves.
WaitersSeeRemoval ==
    [][\A c \in Clients :
         (WaitReturn(c) /\ ~cancelled[cjob[c]]) => cjob[c] \notin registered]_vars

-----------------------------------------------------------------------------
(***************************************************************************)
(* The inductive invariant behind ExclusiveWorkspace, LaneServedOnce,      *)
(* CompletedOnce and FinalRowsStay.                                        *)
(***************************************************************************)

\* A worker that has picked a job.
Serving == {"slot", "begin", "running", "finish", "remove"}

\* A start that found no lane is the only one to spawn that lane's worker.
SpawnsOnce ==
    /\ \A c, d \in Clients, k \in Jobs : Spawning(c, k) /\ Spawning(d, k) => c = d
    /\ \A c \in Clients, k \in Jobs : Spawning(c, k) => worker[k] = "none"

\* A request past its first step knows its job or its workspace, and a
\* manual change is recorded in the queue.
RequestsOwn ==
    \A c \in Clients :
        /\ cpc[c] \in {"spawn", "push", "mark", "front", "finish", "wait"} => cjob[c] \in Jobs
        /\ cpc[c] \in {"start", "manual"} => cws[c] \in Workspaces

\* This process has seen the job in a start.
Known(j) ==
    \/ j \in registered
    \/ worker[j] # "none"
    \/ \E w \in Workspaces : InLane(j, w)
    \/ \E c \in Clients : cjob[c] = j

\* A known job has a row and a workspace, and when its row is final it has
\* finished; a job whose status in memory is live has a live row.
KnownJobs ==
    \A j \in Jobs :
        /\ Known(j) => /\ wsOf[j] \in Workspaces
                       /\ db[j] # "none"
                       /\ db[j] \in Terminal => finished[j]
        /\ status[j] \in Live => db[j] \in Live /\ ~finished[j]
        /\ finished[j] => db[j] # "none"

LanesOwn ==
    \A w \in Workspaces : \A i \in 1..Len(lanes[w]) : wsOf[lanes[w][i]] = w

\* A serving worker works on the first job of its lane.
WorksOnHead ==
    \A k \in Jobs : worker[k] \in Serving =>
        /\ lanes[wsOf[k]] # <<>>
        /\ current[k] = Head(lanes[wsOf[k]])

\* A request finishes only a job that was cancelled, and no body of it runs.
FinishesCancelled ==
    \A c \in Clients :
        /\ cpc[c] \in {"front", "finish"} => cancelled[cjob[c]]
        /\ cpc[c] = "finish" =>
               \A k \in Jobs : worker[k] = "running" => current[k] # cjob[c]

\* A body that runs is of an unfinished job, and a job that was finished
\* while its worker waited is known to be cancelled.
RunsUnfinished ==
    \A k \in Jobs :
        /\ worker[k] = "running" => ~finished[current[k]]
        /\ worker[k] \in {"slot", "begin"} =>
               (finished[current[k]] => cancelled[current[k]])

\* A manual change holds a workspace whose queued jobs have all finished.
ManualIsAlone ==
    \A w \in Workspaces : manual[w] # NoClient =>
        \A i \in 1..Len(lanes[w]) : finished[lanes[w][i]]

IInv ==
    /\ TypeOK
    /\ LaneServedOnce /\ SpawnsOnce
    /\ RequestsOwn /\ KnownJobs /\ LanesOwn
    /\ WorksOnHead /\ FinishesCancelled /\ RunsUnfinished
    /\ ManualIsAlone
    /\ CompletedOnce

-----------------------------------------------------------------------------
(***************************************************************************)
(* What IInv lacks for RowsMatchMemory, ShutdownQuiesces and the           *)
(* refinement below.                                                       *)
(***************************************************************************)

\* A worker takes off its lane only a job that has finished.
RemovesFinished == \A k \in Jobs : worker[k] = "remove" => finished[current[k]]

\* While a shutdown runs nothing is registered that it has not seen, and it
\* joins the workers only when every job it saw has finished.
ShutdownSees ==
    /\ shutdown \in {"closing", "drain", "join", "done"} => closing
    /\ shutdown \in {"drain", "join", "done"} => registered \subseteq snapshot
    /\ shutdown \in {"join", "done"} => \A j \in snapshot : finished[j]

\* The inductive invariant when no database write fails.
FaultlessInv == IInv /\ RemovesFinished /\ ShutdownSees /\ RowsMatchMemory

-----------------------------------------------------------------------------
(* The scheduler implements JobService                                     *)

BodyOf(w) == {current[k] : k \in {l \in Jobs : Runs(l, w)}}

Spent(j) == \E k \in Jobs : current[k] = j /\ worker[k] \in {"running", "finish"}

\* How far the job is, and who uses the workspace.
RowOf(j) ==
    CASE db[j] = "none" -> "none"
      [] db[j] \in Terminal -> "ended"
      [] db[j] \in Live -> IF Spent(j) THEN "spent" ELSE "open"

HolderOf(w) ==
    IF manual[w] # NoClient THEN manual[w]
    ELSE IF BodyOf(w) # {} THEN CHOOSE j \in BodyOf(w) : TRUE
    ELSE NoClient

Service == INSTANCE JobService WITH
    Nobody <- NoClient,
    row <- [j \in Jobs |-> RowOf(j)],
    holder <- [w \in Workspaces |-> HolderOf(w)]

\* When no database write fails, the scheduler keeps the promise of
\* JobService: every accepted job ends once, its body runs at most once and
\* never after the job has ended, and one user at a time has a workspace
\* (engine.rs start_with_context, drain, run, finish, request_cancel_if).
ImplementsService == Service!Spec

-----------------------------------------------------------------------------
(* Liveness                                                                *)

\* When no database write fails, a cancelled job ends, also one queued behind
\* a job that stays paused for ever (engine.rs request_cancel_if).
CancelledEnds ==
    \A j \in Jobs : (j \in registered /\ cancelled[j])
                        ~> (finished[j] \/ j \notin registered)

\* A queued job ends, unless some job is paused and so keeps its lane or its
\* slot (engine.rs drain).
QueuedEnds ==
    \A j \in Jobs : j \in registered
                        ~> (j \notin registered \/ \E k \in Jobs : status[k] = "paused")

\* A shutdown that does not time out comes to an end (engine.rs shutdown).
ShutdownEnds == (shutdown = "closing") ~> (shutdown \in {"done", "failed", "no"})
=============================================================================
