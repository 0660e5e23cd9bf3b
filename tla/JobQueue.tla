------------------------------ MODULE JobQueue ------------------------------
(***************************************************************************)
(* The job scheduler of native/core/src/engine.rs.                         *)
(*                                                                         *)
(* Every workspace has a lane: the queue of its jobs, of which the first   *)
(* one is worked on by the lane's worker (Engine::drain).  Any number of   *)
(* requests run beside the workers, on a multi-threaded runtime: they      *)
(* start, cancel and wait for jobs, or reserve a workspace for a manual    *)
(* change.  Two locks matter: the queue lock (registered, lanes, manual)   *)
(* and one lock per job record (status, db).  A step of this module is one *)
(* critical section of one of them; what the code does between two         *)
(* critical sections is a program counter.                                 *)
(*                                                                         *)
(* A worker is named by the job whose start spawned it, so that two        *)
(* workers serving one lane are representable.                             *)
(***************************************************************************)
EXTENDS Naturals, FiniteSets, Sequences

CONSTANTS
    Jobs,         \* job identifiers; each is used by at most one start
    Workspaces,
    Clients,      \* concurrent requests: desktop, CLI, goals, MCP, the
                  \* follow-up that continues a job stopped by a plan limit
    NoJob, NoClient, NoWorkspace,
    Slots,        \* Inner::slots, 4 in the code
    MaxJobs,      \* 64 in the code
    MaxRestarts,  \* bound: how often the process is restarted
    StoreFaults   \* may a database write fail?

ASSUME JobQueueAssumption ==
    /\ NoJob \notin Jobs
    /\ NoClient \notin Clients
    /\ NoWorkspace \notin Workspaces
    /\ Jobs \cap (Clients \cup {NoClient}) = {}
    /\ IsFiniteSet(Jobs)
    /\ Slots \in Nat /\ MaxJobs \in Nat /\ MaxRestarts \in Nat
    /\ StoreFaults \in BOOLEAN

VARIABLES
    \* QueueState, behind the queue lock
    registered,   \* QueueState::jobs, the jobs held in memory
    lanes,        \* QueueState::lanes; an absent lane is the empty sequence
    wsOf,         \* Job::workspace, fixed when the job enters its lane
    manual,       \* QueueState::manual: the client reserving each workspace
    \* Running, behind the job's record lock
    status,       \* Job::status in memory
    cancelled,    \* Running::cancel
    finished,     \* Running::finished
    db,           \* status of the desktop_jobs row
    completions,  \* number of agent.completed events of the job
    \* the drain workers
    worker,       \* program counter of the worker spawned by each job
    current,      \* the job that worker is working on
    outcome,      \* how the body of that job ended
    permits,      \* workers holding a permit of Inner::slots
    \* requests
    cpc, cjob, cws,
    \* shutdown and restart
    closing,      \* Inner::closing
    shutdown, snapshot, joining,
    handles,      \* Inner::workers, the handles shutdown joins
    restarts

queueVars    == <<registered, lanes, wsOf, manual>>
recordVars   == <<status, cancelled, finished, db, completions>>
workerVars   == <<worker, current, outcome, permits>>
clientVars   == <<cpc, cjob, cws>>
shutdownVars == <<closing, shutdown, snapshot, joining, handles, restarts>>
vars == <<queueVars, recordVars, workerVars, clientVars, shutdownVars>>

Live     == {"queued", "running", "paused", "cancelling"}
Terminal == {"completed", "failed", "cancelled", "limit_reached", "interrupted"}
Statuses == Live \cup Terminal \cup {"none"}
Outcomes == {"ok", "err", "limit"}

WorkerPC == {"none", "pick", "slot", "begin", "running", "finish", "remove", "done"}
ClientPC == {"idle", "start", "spawn", "push", "manual",
             "mark", "front", "finish", "wait"}

QueueTypeOK ==
    /\ registered \subseteq Jobs
    /\ lanes \in [Workspaces -> Seq(Jobs)]
    /\ wsOf \in [Jobs -> Workspaces \cup {NoWorkspace}]
    /\ manual \in [Workspaces -> Clients \cup {NoClient}]

RecordTypeOK ==
    /\ status \in [Jobs -> Statuses]
    /\ cancelled \in [Jobs -> BOOLEAN]
    /\ finished \in [Jobs -> BOOLEAN]
    /\ db \in [Jobs -> Statuses]
    /\ completions \in [Jobs -> Nat]

WorkerTypeOK ==
    /\ worker \in [Jobs -> WorkerPC]
    /\ current \in [Jobs -> Jobs \cup {NoJob}]
    /\ outcome \in [Jobs -> Outcomes]
    /\ permits \subseteq Jobs

ClientTypeOK ==
    /\ cpc \in [Clients -> ClientPC]
    /\ cjob \in [Clients -> Jobs \cup {NoJob}]
    /\ cws \in [Clients -> Workspaces \cup {NoWorkspace}]

ShutdownTypeOK ==
    /\ closing \in BOOLEAN
    /\ shutdown \in {"no", "closing", "drain", "join", "done", "failed"}
    /\ snapshot \subseteq Jobs
    /\ joining \subseteq Jobs
    /\ handles \subseteq Jobs
    /\ restarts \in Nat

TypeOK == QueueTypeOK /\ RecordTypeOK /\ WorkerTypeOK /\ ClientTypeOK /\ ShutdownTypeOK

Init ==
    /\ registered = {}
    /\ lanes = [w \in Workspaces |-> <<>>]
    /\ wsOf = [j \in Jobs |-> NoWorkspace]
    /\ manual = [w \in Workspaces |-> NoClient]
    /\ status = [j \in Jobs |-> "none"]
    /\ cancelled = [j \in Jobs |-> FALSE]
    /\ finished = [j \in Jobs |-> FALSE]
    /\ worker = [j \in Jobs |-> "none"]
    /\ current = [j \in Jobs |-> NoJob]
    /\ outcome = [j \in Jobs |-> "ok"]
    /\ permits = {}
    /\ cpc = [c \in Clients |-> "idle"]
    /\ cjob = [c \in Clients |-> NoJob]
    /\ cws = [c \in Clients |-> NoWorkspace]
    /\ closing = FALSE
    /\ shutdown = "no"
    /\ snapshot = {}
    /\ joining = {}
    /\ handles = {}
    /\ db = [j \in Jobs |-> "none"]
    /\ completions = [j \in Jobs |-> 0]
    /\ restarts = 0

-----------------------------------------------------------------------------
(* Shared helpers                                                          *)

InLane(j, w) == \E i \in 1..Len(lanes[w]) : lanes[w][i] = j

\* Mutant: only the first job of the lane is looked at.
BusyFront(w) == lanes[w] # <<>> /\ ~finished[Head(lanes[w])]

\* The lane holds a job that has not finished.
Busy(w) == \E j \in Jobs : InLane(j, w) /\ ~finished[j]

\* Mutant: a lane whose jobs have all finished counts as no lane.
HasLaneIfBusy(w) == Busy(w)

\* The lane exists, so it has a worker.
HasLane(w) == lanes[w] # <<>>

\* Mutant: every cancelled job is left to a worker.
IsFrontAlways(j) == TRUE

\* The job is the one its lane's worker serves.
IsFront(j) == lanes[wsOf[j]] # <<>> /\ Head(lanes[wsOf[j]]) = j

\* Mutant: off by one.
LastInLaneOrTwo(w) == Len(lanes[w]) <= 2

\* Taking the first job off the lane empties it.
LastInLane(w) == Len(lanes[w]) = 1

\* Mutant: shutdown is only checked before the lock.
AdmitsLate(w, queue) ==
    /\ Cardinality(registered) < MaxJobs
    /\ manual[w] = NoClient
    /\ ~Busy(w) \/ queue

\* What a start checks under the queue lock.
Admits(w, queue) ==
    /\ ~closing
    /\ Cardinality(registered) < MaxJobs
    /\ manual[w] = NoClient
    /\ ~Busy(w) \/ queue

\* A client's request is over.
Return(c) ==
    /\ cpc' = [cpc EXCEPT ![c] = "idle"]
    /\ cjob' = [cjob EXCEPT ![c] = NoJob]
    /\ cws' = [cws EXCEPT ![c] = NoWorkspace]

Goto(c, pc) == cpc' = [cpc EXCEPT ![c] = pc] /\ UNCHANGED <<cjob, cws>>

FinalStatus(j, how) ==
    IF cancelled[j] THEN "cancelled"
    ELSE CASE how = "ok" -> "completed"
           [] how = "limit" -> "limit_reached"
           [] how = "err" -> "failed"

\* Mutant: the finished flag is not checked again.
FinishAgain(j, how) ==
    /\ status' = [status EXCEPT ![j] = FinalStatus(j, how)]
    /\ db' = [db EXCEPT ![j] = FinalStatus(j, how)]
    /\ completions' = [completions EXCEPT ![j] = @ + 1]
    /\ finished' = [finished EXCEPT ![j] = TRUE]
    /\ UNCHANGED cancelled

\* Engine::finish: the final status, its row and its completion event are
\* written in one transaction, and only then is the job finished.
Finish(j, how) ==
    IF finished[j]
    THEN UNCHANGED recordVars
    ELSE /\ status' = [status EXCEPT ![j] = FinalStatus(j, how)]
         /\ db' = [db EXCEPT ![j] = FinalStatus(j, how)]
         /\ completions' = [completions EXCEPT ![j] = @ + 1]
         /\ finished' = [finished EXCEPT ![j] = TRUE]
         /\ UNCHANGED cancelled

\* A status change that is saved under the record lock: memory first, then
\* the row, which keeps its old status when the write fails.
SaveStatus(j, new) ==
    /\ status' = [status EXCEPT ![j] = new]
    /\ db' = [db EXCEPT ![j] = new]

SaveFails(j, new) ==
    /\ StoreFaults
    /\ status' = [status EXCEPT ![j] = new]
    /\ UNCHANGED db

-----------------------------------------------------------------------------
(* Starting a job: Engine::start_with_context                              *)

\* Everything checked before the queue lock: shutdown, trust, routing.
StartCheck(c, w) ==
    /\ cpc[c] = "idle"
    /\ ~closing
    /\ cpc' = [cpc EXCEPT ![c] = "start"]
    /\ cws' = [cws EXCEPT ![c] = w]
    /\ UNCHANGED <<queueVars, recordVars, workerVars, shutdownVars, cjob>>

\* Under the queue lock.  The worker is spawned after the lock is released,
\* by the start that found no lane.
StartAdmit(c, j, queue) ==
    LET w == cws[c] IN
    /\ cpc[c] = "start"
    /\ db[j] = "none"
    /\ Admits(w, queue)
    /\ registered' = registered \cup {j}
    /\ lanes' = [lanes EXCEPT ![w] = Append(@, j)]
    /\ wsOf' = [wsOf EXCEPT ![j] = w]
    /\ SaveStatus(j, "queued")
    /\ IF HasLane(w)
       THEN Return(c)
       ELSE /\ cpc' = [cpc EXCEPT ![c] = "spawn"]
            /\ cjob' = [cjob EXCEPT ![c] = j]
            /\ UNCHANGED cws
    /\ UNCHANGED <<manual, cancelled, finished, completions, workerVars, shutdownVars>>

\* One of the checks under the lock fails.  Besides the conditions StartAdmit
\* names, the session, the vendor, the owner or the store can refuse in any
\* state.
StartRefuse(c) ==
    /\ cpc[c] = "start"
    /\ Return(c)
    /\ UNCHANGED <<queueVars, recordVars, workerVars, shutdownVars>>

\* The row was written but recording the image consent failed: the error
\* leaves the function before the job reaches the registry.
StartOrphan(c, j, queue) ==
    /\ StoreFaults
    /\ cpc[c] = "start"
    /\ db[j] = "none"
    /\ Admits(cws[c], queue)
    /\ db' = [db EXCEPT ![j] = "queued"]
    /\ Return(c)
    /\ UNCHANGED <<queueVars, status, cancelled, finished, completions,
                   workerVars, shutdownVars>>

StartSpawn(c) ==
    /\ cpc[c] = "spawn"
    /\ worker' = [worker EXCEPT ![cjob[c]] = "pick"]
    /\ Goto(c, "push")
    /\ UNCHANGED <<queueVars, recordVars, current, outcome, permits, shutdownVars>>

\* The handle is recorded under the worker registry's own lock; finished
\* workers are dropped from it.
StartPush(c) ==
    /\ cpc[c] = "push"
    /\ handles' = {h \in handles : worker[h] # "done"} \cup {cjob[c]}
    /\ Return(c)
    /\ UNCHANGED <<queueVars, recordVars, workerVars,
                   closing, shutdown, snapshot, joining, restarts>>

-----------------------------------------------------------------------------
(* Manual changes: Engine::reserve_workspace and WorkspaceReservation      *)

Reserve(c, w) ==
    /\ cpc[c] = "idle"
    /\ ~closing
    /\ manual[w] = NoClient
    /\ ~Busy(w)
    /\ manual' = [manual EXCEPT ![w] = c]
    /\ cpc' = [cpc EXCEPT ![c] = "manual"]
    /\ cws' = [cws EXCEPT ![c] = w]
    /\ UNCHANGED <<registered, lanes, wsOf, recordVars, workerVars, shutdownVars, cjob>>

Release(c) ==
    /\ cpc[c] = "manual"
    /\ manual' = [manual EXCEPT ![cws[c]] = NoClient]
    /\ Return(c)
    /\ UNCHANGED <<registered, lanes, wsOf, recordVars, workerVars, shutdownVars>>

-----------------------------------------------------------------------------
(* Cancelling and waiting: request_cancel_if, cancel, cancel_queued, wait  *)

CancelLookup(c, j) ==
    /\ cpc[c] = "idle"
    /\ j \in registered
    /\ cpc' = [cpc EXCEPT ![c] = "mark"]
    /\ cjob' = [cjob EXCEPT ![c] = j]
    /\ UNCHANGED <<queueVars, recordVars, workerVars, shutdownVars, cws>>

\* Under the record lock.  A failed save leaves the token cancelled and ends
\* the request with the error.
CancelMark(c, onlyQueued) ==
    LET j == cjob[c] IN
    /\ cpc[c] = "mark"
    /\ onlyQueued => status[j] = "queued"
    /\ cancelled' = [cancelled EXCEPT ![j] = TRUE]
    /\ IF status[j] \in {"queued", "running"}
       THEN \/ SaveStatus(j, "cancelling") /\ Goto(c, "front")
            \/ SaveFails(j, "cancelling") /\ Return(c)
       ELSE Goto(c, "front") /\ UNCHANGED <<status, db>>
    /\ UNCHANGED <<queueVars, finished, completions, workerVars, shutdownVars>>

\* cancel_queued on a task that has already left the queue.
CancelRefuse(c) ==
    /\ cpc[c] = "mark"
    /\ status[cjob[c]] # "queued"
    /\ Return(c)
    /\ UNCHANGED <<queueVars, recordVars, workerVars, shutdownVars>>

\* Under the queue lock: the front job is finished by its worker, any other
\* job by this request.
CancelFront(c) ==
    /\ cpc[c] = "front"
    /\ Goto(c, IF IsFront(cjob[c]) THEN "wait" ELSE "finish")
    /\ UNCHANGED <<queueVars, recordVars, workerVars, shutdownVars>>

CancelFinish(c) ==
    /\ cpc[c] = "finish"
    /\ Finish(cjob[c], "err")
    /\ Goto(c, "wait")
    /\ UNCHANGED <<queueVars, workerVars, shutdownVars>>

\* The completion transaction failed: only the status in memory has changed,
\* the job is not finished and the request ends with the error.
CancelFinishFails(c) ==
    /\ cpc[c] = "finish"
    /\ ~finished[cjob[c]]
    /\ SaveFails(cjob[c], FinalStatus(cjob[c], "err"))
    /\ Return(c)
    /\ UNCHANGED <<queueVars, cancelled, finished, completions, workerVars, shutdownVars>>

WaitBegin(c, j) ==
    /\ cpc[c] = "idle"
    /\ j \in registered
    /\ cpc' = [cpc EXCEPT ![c] = "wait"]
    /\ cjob' = [cjob EXCEPT ![c] = j]
    /\ UNCHANGED <<queueVars, recordVars, workerVars, shutdownVars, cws>>

\* wait: the job has finished, or was no longer registered when the waiting
\* began (then its row is returned).
WaitReturn(c) ==
    /\ cpc[c] = "wait"
    /\ finished[cjob[c]] \/ cjob[c] \notin registered
    /\ Return(c)
    /\ UNCHANGED <<queueVars, recordVars, workerVars, shutdownVars>>

-----------------------------------------------------------------------------
(* Pausing: the record's side of Engine::pause_job and resume_job          *)

\* The token and the finished flag are read before the record lock is taken,
\* so only the status still holds when the record changes.
Pause(j) ==
    /\ status[j] \in {"running", "paused"}
    /\ SaveStatus(j, "paused") \/ SaveFails(j, "paused")
    /\ UNCHANGED <<queueVars, cancelled, finished, completions, workerVars,
                   clientVars, shutdownVars>>

\* Mutant: the status is not checked.
ResumeUnchecked(j) ==
    /\ j \in registered
    /\ SaveStatus(j, "running") \/ SaveFails(j, "running")
    /\ UNCHANGED <<queueVars, cancelled, finished, completions, workerVars,
                   clientVars, shutdownVars>>

Resume(j) ==
    /\ status[j] = "paused"
    /\ SaveStatus(j, "running") \/ SaveFails(j, "running")
    /\ UNCHANGED <<queueVars, cancelled, finished, completions, workerVars,
                   clientVars, shutdownVars>>

-----------------------------------------------------------------------------
(* The lane worker: Engine::drain and run                                  *)

\* The worker's workspace is that of the job whose start spawned it.
\* The job's finished flag is read right after the lock is released.
WorkerPick(k) ==
    LET lane == lanes[wsOf[k]] IN
    /\ worker[k] = "pick"
    /\ IF lane = <<>>
       THEN /\ worker' = [worker EXCEPT ![k] = "done"]
            /\ UNCHANGED current
       ELSE /\ current' = [current EXCEPT ![k] = Head(lane)]
            /\ worker' = [worker EXCEPT ![k] =
                              IF finished[Head(lane)] THEN "remove" ELSE "slot"]
    /\ UNCHANGED <<queueVars, recordVars, outcome, permits, clientVars, shutdownVars>>

AcquireSlot(k) ==
    /\ worker[k] = "slot"
    /\ Cardinality(permits) < Slots
    /\ permits' = permits \cup {k}
    /\ worker' = [worker EXCEPT ![k] = "begin"]
    /\ UNCHANGED <<queueVars, recordVars, current, outcome, clientVars, shutdownVars>>

\* The job was cancelled while it waited for a slot.
AbandonSlot(k) ==
    /\ worker[k] = "slot"
    /\ cancelled[current[k]]
    /\ outcome' = [outcome EXCEPT ![k] = "err"]
    /\ worker' = [worker EXCEPT ![k] = "finish"]
    /\ UNCHANGED <<queueVars, recordVars, current, permits, clientVars, shutdownVars>>

\* The body has returned: its permit is dropped before the job is finished.
EndBody(k, how) ==
    /\ outcome' = [outcome EXCEPT ![k] = how]
    /\ worker' = [worker EXCEPT ![k] = "finish"]
    /\ permits' = permits \ {k}

\* Mutant: the token is not checked under the record lock.
BeginRunUnchecked(k) ==
    /\ worker[k] = "begin"
    /\ SaveStatus(current[k], "running")
    /\ worker' = [worker EXCEPT ![k] = "running"]
    /\ UNCHANGED <<queueVars, cancelled, finished, completions, current, outcome,
                   permits, clientVars, shutdownVars>>

\* Under the record lock: a cancelled job does not start.
BeginRun(k) ==
    LET j == current[k] IN
    /\ worker[k] = "begin"
    /\ IF cancelled[j]
       THEN EndBody(k, "err") /\ UNCHANGED <<status, db>>
       ELSE \/ /\ SaveStatus(j, "running")
               /\ worker' = [worker EXCEPT ![k] = "running"]
               /\ UNCHANGED <<outcome, permits>>
            \/ SaveFails(j, "running") /\ EndBody(k, "err")
    /\ UNCHANGED <<queueVars, cancelled, finished, completions, current,
                   clientVars, shutdownVars>>

\* The body ends: an answer, an error, or the vendor's plan limit.
RunEnds(k, how) ==
    /\ worker[k] = "running"
    /\ EndBody(k, how)
    /\ UNCHANGED <<queueVars, recordVars, current, clientVars, shutdownVars>>

\* Storing a streamed event failed: the body cancels its own token.
RunLosesEvent(k) ==
    /\ StoreFaults
    /\ worker[k] = "running"
    /\ cancelled' = [cancelled EXCEPT ![current[k]] = TRUE]
    /\ EndBody(k, "err")
    /\ UNCHANGED <<queueVars, status, finished, db, completions, current,
                   clientVars, shutdownVars>>

WorkerFinish(k) ==
    /\ worker[k] = "finish"
    /\ Finish(current[k], outcome[k])
    /\ worker' = [worker EXCEPT ![k] = "remove"]
    /\ UNCHANGED <<queueVars, current, outcome, permits, clientVars, shutdownVars>>

\* The completion transaction failed: the job is finished in memory only.
WorkerFinishFails(k) ==
    /\ worker[k] = "finish"
    /\ ~finished[current[k]]
    /\ SaveFails(current[k], "failed")
    /\ finished' = [finished EXCEPT ![current[k]] = TRUE]
    /\ worker' = [worker EXCEPT ![k] = "remove"]
    /\ UNCHANGED <<queueVars, cancelled, completions, current, outcome,
                   permits, clientVars, shutdownVars>>

\* Under the queue lock: the job leaves the registry and its lane, and the
\* worker of an emptied lane ends with it.
WorkerRemove(k) ==
    LET w == wsOf[k] IN
    /\ worker[k] = "remove"
    /\ registered' = registered \ {current[k]}
    /\ lanes' = [lanes EXCEPT ![w] = Tail(@)]
    /\ worker' = [worker EXCEPT ![k] = IF LastInLane(w) THEN "done" ELSE "pick"]
    /\ current' = [current EXCEPT ![k] = NoJob]
    /\ outcome' = [outcome EXCEPT ![k] = "ok"]
    /\ UNCHANGED <<wsOf, manual, recordVars, permits, clientVars, shutdownVars>>

-----------------------------------------------------------------------------
(* Shutdown and restart: Engine::shutdown, Engine::open, recover_jobs      *)

ShutdownBegin ==
    /\ shutdown \in {"no", "failed"}
    /\ closing' = TRUE
    /\ shutdown' = "closing"
    /\ UNCHANGED <<queueVars, recordVars, workerVars, clientVars,
                   snapshot, joining, handles, restarts>>

\* Mutant: the tokens are not cancelled.
ShutdownCancelNone ==
    /\ shutdown = "closing"
    /\ shutdown' = "drain"
    /\ snapshot' = registered
    /\ UNCHANGED <<queueVars, recordVars, workerVars,
                   clientVars, closing, joining, handles, restarts>>

\* The registered jobs are copied under the queue lock, then each token is
\* cancelled.
ShutdownCancel ==
    /\ shutdown = "closing"
    /\ shutdown' = "drain"
    /\ snapshot' = registered
    /\ cancelled' = [j \in Jobs |-> cancelled[j] \/ j \in registered]
    /\ UNCHANGED <<queueVars, status, finished, db, completions, workerVars,
                   clientVars, closing, joining, handles, restarts>>

\* Every manual operation and every job of the snapshot is over: the worker
\* handles are taken.
ShutdownDrained ==
    /\ shutdown = "drain"
    /\ \A w \in Workspaces : manual[w] = NoClient
    /\ \A j \in snapshot : finished[j]
    /\ shutdown' = "join"
    /\ joining' = handles
    /\ handles' = {}
    /\ UNCHANGED <<queueVars, recordVars, workerVars, clientVars, closing,
                   snapshot, restarts>>

ShutdownDone ==
    /\ shutdown = "join"
    /\ \A h \in joining : worker[h] = "done"
    /\ shutdown' = "done"
    /\ UNCHANGED <<queueVars, recordVars, workerVars, clientVars, closing,
                   snapshot, joining, handles, restarts>>

\* The 15 seconds are over; the caller may try again.
ShutdownTimeout ==
    /\ shutdown \in {"drain", "join"}
    /\ shutdown' = "failed"
    /\ UNCHANGED <<queueVars, recordVars, workerVars, clientVars, closing,
                   snapshot, joining, handles, restarts>>

\* The process ends, in any state, and Engine::open runs again: memory is
\* lost and every unfinished row becomes "interrupted".
Restart ==
    /\ restarts < MaxRestarts
    /\ restarts' = restarts + 1
    /\ registered' = {}
    /\ lanes' = [w \in Workspaces |-> <<>>]
    /\ wsOf' = [j \in Jobs |-> NoWorkspace]
    /\ manual' = [w \in Workspaces |-> NoClient]
    /\ status' = [j \in Jobs |-> "none"]
    /\ cancelled' = [j \in Jobs |-> FALSE]
    /\ finished' = [j \in Jobs |-> FALSE]
    /\ worker' = [j \in Jobs |-> "none"]
    /\ current' = [j \in Jobs |-> NoJob]
    /\ outcome' = [j \in Jobs |-> "ok"]
    /\ permits' = {}
    /\ cpc' = [c \in Clients |-> "idle"]
    /\ cjob' = [c \in Clients |-> NoJob]
    /\ cws' = [c \in Clients |-> NoWorkspace]
    /\ closing' = FALSE
    /\ shutdown' = "no"
    /\ snapshot' = {}
    /\ joining' = {}
    /\ handles' = {}
    /\ db' = [j \in Jobs |-> IF db[j] \in Live THEN "interrupted" ELSE db[j]]
    /\ completions' = [j \in Jobs |-> IF db[j] \in Live THEN completions[j] + 1
                                      ELSE completions[j]]

-----------------------------------------------------------------------------
\* A new request arrives.
ClientRequest(c) ==
    \/ \E w \in Workspaces : StartCheck(c, w) \/ Reserve(c, w)
    \/ \E j \in Jobs : CancelLookup(c, j) \/ WaitBegin(c, j)

\* A request goes on.
ClientStep(c) ==
    \/ \E j \in Jobs, q \in BOOLEAN : StartAdmit(c, j, q) \/ StartOrphan(c, j, q)
    \/ StartRefuse(c) \/ StartSpawn(c) \/ StartPush(c)
    \/ Release(c)
    \/ \E q \in BOOLEAN : CancelMark(c, q)
    \/ CancelRefuse(c) \/ CancelFront(c)
    \/ CancelFinish(c) \/ CancelFinishFails(c)
    \/ WaitReturn(c)

\* Everything the worker does that waits for nobody.
WorkerStep(k) ==
    \/ WorkerPick(k) \/ AbandonSlot(k) \/ BeginRun(k)
    \/ WorkerFinish(k) \/ WorkerFinishFails(k) \/ WorkerRemove(k)

RunStep(k) == (\E how \in Outcomes : RunEnds(k, how)) \/ RunLosesEvent(k)

ShutdownStep == ShutdownCancel \/ ShutdownDrained \/ ShutdownDone

Next ==
    \/ \E c \in Clients : ClientRequest(c) \/ ClientStep(c)
    \/ \E j \in Jobs : Pause(j) \/ Resume(j)
    \/ \E k \in Jobs : WorkerStep(k) \/ AcquireSlot(k) \/ RunStep(k)
    \/ ShutdownBegin \/ ShutdownStep \/ ShutdownTimeout
    \/ Restart

Spec == Init /\ [][Next]_vars

(***************************************************************************)
(* Fairness.  A worker and a request that has begun are tasks of the tokio *)
(* runtime, which polls every ready task: weak fairness of their steps.    *)
(* The slot semaphore is first-in first-out, so a worker is not overtaken  *)
(* for ever: strong fairness of AcquireSlot.  A job body ends by itself    *)
(* unless it is paused; a cancelled body ends even then.                   *)
(***************************************************************************)
BodyMayEnd(k) ==
    /\ worker[k] = "running"
    /\ cancelled[current[k]] \/ status[current[k]] # "paused"
    /\ RunStep(k)

Fairness ==
    /\ \A c \in Clients : WF_vars(ClientStep(c))
    /\ \A k \in Jobs : WF_vars(WorkerStep(k)) /\ SF_vars(AcquireSlot(k))
                       /\ WF_vars(BodyMayEnd(k))
    /\ WF_vars(ShutdownStep)

FairSpec == Spec /\ Fairness
=============================================================================
