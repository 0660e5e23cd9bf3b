---------------------------- MODULE LocalRuntime ----------------------------
(***************************************************************************)
(* The one llama-server process of the engine: local_runtime.rs.           *)
(*                                                                         *)
(* slot is a tokio mutex, which serves its waiters in order and is held    *)
(* across awaits: a whole load is one critical section, but other callers  *)
(* read the snapshot, drop leases and cancel loads meanwhile, and the      *)
(* server may crash at any time.  A server that is gone and not leased is  *)
(* the same as one that was never started, so its number is used again.    *)
(***************************************************************************)
EXTENDS Naturals, Sequences, FiniteSets

CONSTANTS
    Callers,    \* tasks and requests
    Models,     \* launch specifications
    Servers,    \* numbers for server processes
    NoServer, NoCaller, NoModel,
    Shutdown    \* does the engine call stop?

ASSUME RuntimeAssumption ==
    /\ NoServer \notin Servers /\ NoCaller \notin Callers /\ NoModel \notin Models
    /\ IsFiniteSet(Callers)
    /\ Shutdown \in BOOLEAN

VARIABLES
    \* LocalRuntime
    holder,     \* who holds the mutex of the slot
    queue,      \* who waits for it
    slot,       \* the server in the slot
    shown,      \* the server the snapshot shows
    \* server processes
    proc,       \* not running, starting or up
    model,
    leases,     \* Server::leases
    \* callers
    pc,
    op,
    want,       \* the model to acquire
    tries,      \* launches left: one more on the CPU after the GPU
    aborted,    \* is the task's token, or the abort token it took, cancelled?
    mine,       \* the server the caller starts or stops
    lease       \* the server of the caller's Lease

lockVars == <<holder, queue>>
slotVars == <<slot, shown>>
serverVars == <<proc, model, leases>>
requestVars == <<op, want, aborted>>
runtimeVars == <<lockVars, slotVars, serverVars, requestVars, pc, tries, mine, lease>>

\* Where a caller is inside an operation.
Inside == {"asked", "queued", "holding", "replacing", "launch", "loading", "ready",
           "abandoning", "unloading", "clearing", "stopping"}

RuntimeTypes ==
    /\ holder \in Callers \cup {NoCaller}
    /\ queue \in Seq(Callers)
    /\ slot \in Servers \cup {NoServer} /\ shown \in Servers \cup {NoServer}
    /\ proc \in [Servers -> {"gone", "starting", "up"}]
    /\ model \in [Servers -> Models \cup {NoModel}]
    /\ leases \in [Servers -> Nat]
    /\ pc \in [Callers -> {"idle", "checked", "using"} \cup Inside]
    /\ op \in [Callers -> {"none", "acquire", "unload", "stop"}]
    /\ want \in [Callers -> Models \cup {NoModel}]
    /\ tries \in [Callers -> 0..2]
    /\ aborted \in [Callers -> BOOLEAN]
    /\ mine \in [Callers -> Servers \cup {NoServer}]
    /\ lease \in [Callers -> Servers \cup {NoServer}]

LocalRuntimeInit ==
    /\ holder = NoCaller /\ queue = <<>>
    /\ slot = NoServer /\ shown = NoServer
    /\ proc = [s \in Servers |-> "gone"] /\ model = [s \in Servers |-> NoModel]
    /\ leases = [s \in Servers |-> 0]
    /\ pc = [c \in Callers |-> "idle"] /\ op = [c \in Callers |-> "none"]
    /\ want = [c \in Callers |-> NoModel] /\ tries = [c \in Callers |-> 0]
    /\ aborted = [c \in Callers |-> FALSE]
    /\ mine = [c \in Callers |-> NoServer] /\ lease = [c \in Callers |-> NoServer]

Running(s) == proc[s] # "gone"

\* It waits for the mutex to load a model.
Waiting(c) == op[c] = "acquire" /\ pc[c] \in {"asked", "queued"}

\* The operation goes on at label l.
Goes(c, l) == pc' = [pc EXCEPT ![c] = l]

\* The operation is over; what it worked with is dropped.
Forget(c, l) ==
    /\ Goes(c, l)
    /\ op' = [op EXCEPT ![c] = "none"]
    /\ want' = [want EXCEPT ![c] = NoModel]
    /\ tries' = [tries EXCEPT ![c] = 0]
    /\ aborted' = [aborted EXCEPT ![c] = FALSE]
    /\ mine' = [mine EXCEPT ![c] = NoServer]

\* It returns and its guard of the slot is dropped.
Returns(c, l) == Forget(c, l) /\ holder' = NoCaller

\* A server that was waited for.
Gone(s) ==
    /\ proc' = [proc EXCEPT ![s] = "gone"]
    /\ model' = [model EXCEPT ![s] = NoModel]

-----------------------------------------------------------------------------
(* The slot's mutex                                                        *)

Enqueue(c) ==
    /\ pc[c] = "asked"
    /\ queue' = Append(queue, c)
    /\ Goes(c, "queued")
    /\ UNCHANGED <<holder, slotVars, serverVars, requestVars, tries, mine, lease>>

\* From here on LoadAbandoned stands for the tokens.
Locked(c) ==
    /\ pc[c] = "queued"
    /\ holder = NoCaller /\ queue # <<>> /\ Head(queue) = c
    /\ queue' = Tail(queue)
    /\ holder' = c
    /\ aborted' = [aborted EXCEPT ![c] = FALSE]
    /\ Goes(c, "holding")
    /\ UNCHANGED <<slotVars, serverVars, op, want, tries, mine, lease>>

\* The queue without its i-th waiter.
Without(i) == SubSeq(queue, 1, i - 1) \o SubSeq(queue, i + 1, Len(queue))

\* An acquire that waits for the mutex gives up when its task is cancelled or
\* the model is unloaded.
GiveUp(c) ==
    /\ pc[c] = "queued"
    /\ op[c] = "acquire"
    /\ aborted[c]
    /\ \E i \in 1..Len(queue) : queue[i] = c /\ queue' = Without(i)
    /\ Forget(c, "idle")
    /\ UNCHANGED <<holder, slotVars, serverVars, lease>>

-----------------------------------------------------------------------------
(* acquire                                                                 *)

\* The abort token is taken before the mutex.
Acquire(c, m, gpu) ==
    /\ pc[c] = "idle"
    /\ op' = [op EXCEPT ![c] = "acquire"]
    /\ want' = [want EXCEPT ![c] = m]
    /\ tries' = [tries EXCEPT ![c] = IF gpu THEN 2 ELSE 1]
    /\ aborted' = [aborted EXCEPT ![c] = FALSE]
    /\ Goes(c, "asked")
    /\ UNCHANGED <<lockVars, slotVars, serverVars, mine, lease>>

\* The loaded model is shared.
Share(c) ==
    /\ pc[c] = "holding" /\ op[c] = "acquire"
    /\ slot # NoServer
    /\ Running(slot) /\ model[slot] = want[c]
    /\ leases' = [leases EXCEPT ![slot] = @ + 1]
    /\ lease' = [lease EXCEPT ![c] = slot]
    /\ Returns(c, "using")
    /\ UNCHANGED <<queue, slotVars, proc, model>>

\* Mutant: a model that is in use is replaced.
ServerBusyNever(c) == FALSE

\* Another task uses another model.
ServerBusy(c) == Running(slot) /\ model[slot] # want[c] /\ leases[slot] > 0

\* Mutant: the error path keeps the mutex.
RefuseKeepsLock(c) ==
    /\ pc[c] = "holding" /\ op[c] = "acquire"
    /\ slot # NoServer
    /\ ServerBusy(c)
    /\ Forget(c, "idle")
    /\ UNCHANGED <<lockVars, slotVars, serverVars, lease>>

Refuse(c) ==
    /\ pc[c] = "holding" /\ op[c] = "acquire"
    /\ slot # NoServer
    /\ ServerBusy(c)
    /\ Returns(c, "idle")
    /\ UNCHANGED <<queue, slotVars, serverVars, lease>>

\* A server that crashed, or that nobody uses, is taken out and stopped first.
Replace(c) ==
    /\ pc[c] = "holding" /\ op[c] = "acquire"
    /\ slot # NoServer
    /\ ~ServerBusy(c) /\ ~(Running(slot) /\ model[slot] = want[c])
    /\ mine' = [mine EXCEPT ![c] = slot]
    /\ slot' = NoServer /\ shown' = NoServer
    /\ Goes(c, "replacing")
    /\ UNCHANGED <<lockVars, serverVars, requestVars, tries, lease>>

\* Mutant: the old server is not waited for.
ReplacedUnwaited(c) ==
    /\ pc[c] = "replacing"
    /\ Goes(c, "launch")
    /\ mine' = [mine EXCEPT ![c] = NoServer]
    /\ UNCHANGED <<lockVars, slotVars, serverVars, requestVars, tries, lease>>

\* Server::stop waits until the process is gone.
Replaced(c) ==
    /\ pc[c] = "replacing"
    /\ Gone(mine[c])
    /\ Goes(c, "launch")
    /\ mine' = [mine EXCEPT ![c] = NoServer]
    /\ UNCHANGED <<lockVars, slotVars, leases, requestVars, tries, lease>>

SlotIsFree(c) ==
    /\ pc[c] = "holding" /\ op[c] = "acquire"
    /\ slot = NoServer
    /\ Goes(c, "launch")
    /\ UNCHANGED <<lockVars, slotVars, serverVars, requestVars, tries, mine, lease>>

\* A number of no running and no leased server.
Unused(s) == ~Running(s) /\ leases[s] = 0 /\ slot # s /\ \A c \in Callers : mine[c] # s

\* launch starts a process.
Launch(c, s) ==
    /\ pc[c] = "launch"
    /\ Unused(s)
    /\ proc' = [proc EXCEPT ![s] = "starting"]
    /\ model' = [model EXCEPT ![s] = want[c]]
    /\ mine' = [mine EXCEPT ![c] = s]
    /\ tries' = [tries EXCEPT ![c] = @ - 1]
    /\ Goes(c, "loading")
    /\ UNCHANGED <<lockVars, slotVars, leases, requestVars, lease>>

\* A file is missing or the process does not start.
LaunchFails(c) ==
    /\ pc[c] = "launch"
    /\ Returns(c, "idle")
    /\ UNCHANGED <<queue, slotVars, serverVars, lease>>

\* The process exited before it was ready: once more on the CPU, if the GPU was
\* tried.
LoadExited(c) ==
    /\ pc[c] = "loading"
    /\ ~Running(mine[c])
    /\ tries[c] > 0
    /\ Goes(c, "launch")
    /\ mine' = [mine EXCEPT ![c] = NoServer]
    /\ UNCHANGED <<lockVars, slotVars, serverVars, requestVars, tries, lease>>

LoadFails(c) ==
    /\ pc[c] = "loading"
    /\ ~Running(mine[c])
    /\ tries[c] = 0
    /\ Returns(c, "idle")
    /\ UNCHANGED <<queue, slotVars, serverVars, lease>>

\* The server answers the health check.
LoadReady(c) ==
    /\ pc[c] = "loading"
    /\ Running(mine[c])
    /\ proc' = [proc EXCEPT ![mine[c]] = "up"]
    /\ Goes(c, "ready")
    /\ UNCHANGED <<lockVars, slotVars, model, leases, requestVars, tries, mine, lease>>

\* The load is cancelled or takes longer than STARTUP_TIMEOUT, or the
\* server reports another context size than it was given.
LoadAbandoned(c) ==
    /\ pc[c] \in {"loading", "ready"}
    /\ Goes(c, "abandoning")
    /\ UNCHANGED <<lockVars, slotVars, serverVars, requestVars, tries, mine, lease>>

Abandoned(c) ==
    /\ pc[c] = "abandoning"
    /\ Gone(mine[c])
    /\ Returns(c, "idle")
    /\ UNCHANGED <<queue, slotVars, leases, lease>>

\* The server goes into the slot with its first lease.
Publish(c) ==
    /\ pc[c] = "ready"
    /\ slot' = mine[c] /\ shown' = mine[c]
    /\ leases' = [leases EXCEPT ![mine[c]] = 1]
    /\ lease' = [lease EXCEPT ![c] = mine[c]]
    /\ Returns(c, "using")
    /\ UNCHANGED <<queue, proc, model>>

\* Lease::drop, without a lock.
DropLease(c) ==
    /\ pc[c] = "using"
    /\ leases' = [leases EXCEPT ![lease[c]] = @ - 1]
    /\ lease' = [lease EXCEPT ![c] = NoServer]
    /\ Goes(c, "idle")
    /\ UNCHANGED <<lockVars, slotVars, proc, model, requestVars, tries, mine>>

-----------------------------------------------------------------------------
(* unload and stop                                                         *)

\* unload looks at the snapshot first; with a lease it is refused at once.
Unload(c) ==
    /\ pc[c] = "idle"
    /\ shown # NoServer => leases[shown] = 0
    /\ op' = [op EXCEPT ![c] = "unload"]
    /\ Goes(c, "checked")
    /\ UNCHANGED <<lockVars, slotVars, serverVars, want, aborted, tries, mine, lease>>

Stop(c) ==
    /\ Shutdown
    /\ pc[c] = "idle"
    /\ op' = [op EXCEPT ![c] = "stop"]
    /\ Goes(c, "checked")
    /\ UNCHANGED <<lockVars, slotVars, serverVars, want, aborted, tries, mine, lease>>

\* cancel_loads cancels the token every acquire under way has taken; later
\* ones take a new token.
CancelLoads(c) ==
    /\ pc[c] = "checked"
    /\ aborted' = [d \in Callers |-> aborted[d] \/ Waiting(d)]
    /\ Goes(c, "asked")
    /\ UNCHANGED <<lockVars, slotVars, serverVars, op, want, tries, mine, lease>>

\* Mutant: the leases are not looked at again under the mutex.
UnloadUnchecked(c) ==
    /\ pc[c] = "holding" /\ op[c] = "unload"
    /\ slot # NoServer
    /\ mine' = [mine EXCEPT ![c] = slot]
    /\ slot' = NoServer /\ shown' = NoServer
    /\ Goes(c, "unloading")
    /\ UNCHANGED <<lockVars, serverVars, requestVars, tries, lease>>

UnloadTakes(c) ==
    /\ pc[c] = "holding" /\ op[c] = "unload"
    /\ slot # NoServer
    /\ leases[slot] = 0
    /\ mine' = [mine EXCEPT ![c] = slot]
    /\ slot' = NoServer /\ shown' = NoServer
    /\ Goes(c, "unloading")
    /\ UNCHANGED <<lockVars, serverVars, requestVars, tries, lease>>

\* Nothing is loaded, or it is in use by now.
UnloadReturns(c) ==
    /\ pc[c] = "holding" /\ op[c] = "unload"
    /\ slot # NoServer => leases[slot] > 0
    /\ shown' = IF slot = NoServer THEN NoServer ELSE shown
    /\ Returns(c, "idle")
    /\ UNCHANGED <<queue, slot, serverVars, lease>>

Unloaded(c) ==
    /\ pc[c] = "unloading"
    /\ Gone(mine[c])
    /\ Returns(c, "idle")
    /\ UNCHANGED <<queue, slotVars, leases, lease>>

\* stop takes the server whoever uses it; its guard is a temporary that is
\* dropped with the statement.
StopTakes(c) ==
    /\ pc[c] = "holding" /\ op[c] = "stop"
    /\ mine' = [mine EXCEPT ![c] = slot]
    /\ slot' = NoServer
    /\ holder' = NoCaller
    /\ Goes(c, "clearing")
    /\ UNCHANGED <<queue, shown, serverVars, requestVars, tries, lease>>

StopClears(c) ==
    /\ pc[c] = "clearing"
    /\ shown' = NoServer
    /\ Goes(c, "stopping")
    /\ UNCHANGED <<lockVars, slot, serverVars, requestVars, tries, mine, lease>>

Stopped(c) ==
    /\ pc[c] = "stopping"
    /\ IF mine[c] = NoServer THEN UNCHANGED <<proc, model>> ELSE Gone(mine[c])
    /\ Forget(c, "idle")
    /\ UNCHANGED <<lockVars, slotVars, leases, lease>>

-----------------------------------------------------------------------------
(* The environment                                                         *)

CancelTask(c) ==
    /\ Waiting(c)
    /\ ~aborted[c]
    /\ aborted' = [aborted EXCEPT ![c] = TRUE]
    /\ UNCHANGED <<lockVars, slotVars, serverVars, op, want, pc, tries, mine, lease>>

Crash(s) ==
    /\ Running(s)
    /\ proc' = [proc EXCEPT ![s] = "gone"]
    /\ UNCHANGED <<lockVars, slotVars, model, leases, requestVars, pc, tries, mine, lease>>

-----------------------------------------------------------------------------
\* An operation goes on.
Step(c) ==
    \/ Enqueue(c) \/ Locked(c) \/ GiveUp(c)
    \/ Share(c) \/ Refuse(c) \/ Replace(c) \/ Replaced(c) \/ SlotIsFree(c)
    \/ (\E s \in Servers : Launch(c, s)) \/ LaunchFails(c)
    \/ LoadExited(c) \/ LoadFails(c) \/ LoadReady(c) \/ LoadAbandoned(c) \/ Abandoned(c)
    \/ Publish(c)
    \/ CancelLoads(c) \/ UnloadTakes(c) \/ UnloadReturns(c) \/ Unloaded(c)
    \/ StopTakes(c) \/ StopClears(c) \/ Stopped(c)

LocalRuntimeNext ==
    \/ \E c \in Callers :
        \/ Step(c) \/ DropLease(c) \/ CancelTask(c) \/ Unload(c) \/ Stop(c)
        \/ \E m \in Models, gpu \in BOOLEAN : Acquire(c, m, gpu)
    \/ \E s \in Servers : Crash(s)

LocalRuntimeSpec == LocalRuntimeInit /\ [][LocalRuntimeNext]_runtimeVars

\* Every operation under way is polled; the timeouts bound each wait.
FairRuntime == LocalRuntimeSpec /\ \A c \in Callers : WF_runtimeVars(Step(c))
=============================================================================
