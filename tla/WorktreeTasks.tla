----------------------------- MODULE WorktreeTasks -----------------------------
(***************************************************************************)
(* A task that runs in a new worktree (worktree_tasks.rs), with the route  *)
(* that starts it (service/jobs.rs), the worktree itself (worktrees.rs)    *)
(* and the reservations of engine.rs.                                      *)
(*                                                                         *)
(* The operations run one at a time under LOCK, the start only in parts.   *)
(* A step is what happens between two awaits.                              *)
(***************************************************************************)
EXTENDS Naturals, Sequences

CONSTANTS
    MaxTaskTurns,   \* bound: turns of the task's conversation in its worktree
    MaxTaskCrashes, \* bound: stops of the program
    TaskFaults      \* may a write fail, of the database or of a file?

ASSUME WorktreeTasksAssumption ==
    /\ MaxTaskTurns \in Nat \ {0} /\ MaxTaskCrashes \in Nat
    /\ TaskFaults \in BOOLEAN

VARIABLES
    taskRecord,     \* the stored record
    taskTree,       \* the worktree
    taskBranch,     \* does its branch exist?
    talk,           \* where the conversation's next turn would run
    taskTurns,      \* the jobs of the conversation in the worktree, oldest first
    projectBusy,    \* does another task run in the project's main checkout?
    taskHeld,       \* workspaces under a reservation: "project", "tree"
    taskStart,      \* where the request that starts the task is
    treeOp,         \* the operation that holds LOCK, with its copy of the record
    taskCrashes,
    \* what happened
    strayed,        \* a start that was cut off, or a change that was not stored
    cutShort        \* what a close had to record when it was cut off or not stored

worktreeVars == <<taskRecord, taskTree, taskBranch, talk, taskTurns, projectBusy, taskHeld,
              taskStart, treeOp, taskCrashes, strayed, cutShort>>

RecordStates == {"none", "starting", "running", "done", "applied", "branch", "discarded"}
Closable == {"running", "done"}
Closed == {"applied", "branch", "discarded"}
NoTreeOp == [kind |-> "none", stage |-> "none", state |-> "none", active |-> FALSE, turn |-> 0,
             removed |-> FALSE]

\* Where an operation closes the task; in the last three it may have removed the worktree.
Ending == {"pruning", "moving", "saving"}
Closing == {"closing"} \cup Ending

WorktreeTaskTypes ==
    /\ taskRecord \in [state : RecordStates, removed : BOOLEAN]
    /\ taskTree \in {"none", "there", "gone"} /\ taskBranch \in BOOLEAN
    /\ talk \in {"none", "tree", "project", "deleted"}
    /\ taskTurns \in Seq({"queued", "running", "cancelling", "ended"})
    /\ Len(taskTurns) <= MaxTaskTurns
    /\ projectBusy \in BOOLEAN /\ taskHeld \subseteq {"project", "tree"}
    /\ taskStart \in {"none", "create", "record", "launch", "note", "abandon"}
    /\ treeOp \in [kind : {"none", "view", "apply", "branch", "discard"},
                   stage : {"none", "loaded", "waiting", "working"} \cup Closing,
                   state : RecordStates, active : BOOLEAN, turn : Nat, removed : BOOLEAN]
    /\ taskCrashes \in 0 .. MaxTaskCrashes /\ strayed \in BOOLEAN
    /\ cutShort \in {"none"} \cup Closed

WorktreeTasksInit ==
    /\ taskRecord = [state |-> "none", removed |-> FALSE]
    /\ taskTree = "none" /\ taskBranch = FALSE
    /\ talk = "none" /\ taskTurns = <<>>
    /\ projectBusy = FALSE /\ taskHeld = {}
    /\ taskStart = "none" /\ treeOp = NoTreeOp
    /\ taskCrashes = 0 /\ strayed = FALSE /\ cutShort = "none"

-----------------------------------------------------------------------------
(* Turns in the worktree and in the project                                *)

TreeFront == {i \in 1 .. Len(taskTurns) :
                 /\ taskTurns[i] # "ended"
                 /\ \A j \in 1 .. i - 1 : taskTurns[j] = "ended"}
TreeIdle == TreeFront = {}
LatestIsActive == taskTurns # <<>> /\ taskTurns[Len(taskTurns)] # "ended"

TurnsOnly == UNCHANGED <<taskRecord, taskTree, taskBranch, talk, taskHeld, taskStart, treeOp,
                         taskCrashes, strayed, cutShort>>

\* A reserved workspace starts nothing.
TreeFollowUp ==
    /\ talk = "tree" /\ taskTree = "there" /\ "tree" \notin taskHeld
    /\ taskTurns # <<>> /\ Len(taskTurns) < MaxTaskTurns
    /\ taskTurns' = Append(taskTurns, "queued")
    /\ TurnsOnly /\ UNCHANGED projectBusy

TreeTurnRuns ==
    /\ \E i \in TreeFront : /\ taskTurns[i] = "queued"
                            /\ taskTurns' = [taskTurns EXCEPT ![i] = "running"]
    /\ TurnsOnly /\ UNCHANGED projectBusy

TreeTurnEnds ==
    /\ \E i \in TreeFront : /\ taskTurns[i] # "queued"
                            /\ taskTurns' = [taskTurns EXCEPT ![i] = "ended"]
    /\ TurnsOnly /\ UNCHANGED projectBusy

ProjectTask ==
    /\ projectBusy \/ "project" \notin taskHeld
    /\ projectBusy' = ~projectBusy
    /\ TurnsOnly /\ UNCHANGED taskTurns

-----------------------------------------------------------------------------
(* The start: prepare under LOCK, the first turn without it, started under *)
(* it again.  abandon takes no lock.                                       *)

StartOnly == UNCHANGED <<projectBusy, taskHeld, treeOp, taskCrashes, cutShort>>

TaskPrepares ==
    /\ taskStart = "none" /\ treeOp = NoTreeOp
    /\ taskRecord.state = "none" /\ taskTree = "none"
    /\ taskStart' = "create"
    /\ UNCHANGED <<taskRecord, taskTree, taskBranch, talk, taskTurns, strayed>> /\ StartOnly

TaskTreeCreated ==
    /\ taskStart = "create"
    /\ \/ taskTree' = "there" /\ taskBranch' = TRUE /\ taskStart' = "record"
       \/ taskStart' = "none" /\ UNCHANGED <<taskTree, taskBranch>>
    /\ UNCHANGED <<taskRecord, talk, taskTurns, strayed>> /\ StartOnly

\* The conversation and the record, or the worktree is given up.
TaskRecorded ==
    /\ taskStart = "record"
    /\ \/ /\ taskRecord' = [state |-> "starting", removed |-> FALSE]
          /\ talk' = "tree" /\ taskStart' = "launch"
       \/ taskStart' = "abandon" /\ UNCHANGED <<taskRecord, talk>>
    /\ UNCHANGED <<taskTree, taskBranch, taskTurns, strayed>> /\ StartOnly

TaskLaunched ==
    /\ taskStart = "launch"
    /\ \/ talk = "tree" /\ taskTurns' = <<"queued">> /\ taskStart' = "note"
       \/ taskStart' = "abandon" /\ UNCHANGED taskTurns
    /\ UNCHANGED <<taskRecord, taskTree, taskBranch, talk, strayed>> /\ StartOnly

\* started: when this is not stored the record stays at "starting".
TaskNoted ==
    /\ taskStart = "note" /\ treeOp = NoTreeOp
    /\ \/ taskRecord' = [state |-> "running", removed |-> FALSE] /\ UNCHANGED strayed
       \/ TaskFaults /\ strayed' = TRUE /\ UNCHANGED taskRecord
    /\ taskStart' = "none"
    /\ UNCHANGED <<taskTree, taskBranch, talk, taskTurns>> /\ StartOnly

\* Errors are ignored; a worktree that could not be removed stays behind.
TaskAbandoned ==
    /\ taskStart = "abandon"
    /\ \/ taskTree' = "gone" /\ taskBranch' = FALSE /\ UNCHANGED strayed
       \/ strayed' = TRUE /\ UNCHANGED <<taskTree, taskBranch>>
    /\ taskRecord' = [state |-> "none", removed |-> FALSE]
    /\ talk' = IF talk = "tree" THEN "deleted" ELSE talk
    /\ taskStart' = "none"
    /\ UNCHANGED taskTurns /\ StartOnly

-----------------------------------------------------------------------------
(* get, apply, keep_branch and discard                                     *)

OpOnly == UNCHANGED <<projectBusy, taskStart, taskCrashes, cutShort>>
TreeOpReturns == treeOp' = NoTreeOp /\ taskHeld' = {}

\* refresh: running and done follow the conversation's latest job, which is one in the
\* project when the conversation has moved there.
LatestMayBeActive ==
    {LatestIsActive} \cup (IF talk = "project" /\ projectBusy THEN {TRUE} ELSE {})

RefreshedState(s, active) ==
    IF active THEN "running" ELSE IF s = "running" THEN "done" ELSE s

\* Only an open task that has started is refreshed or closed; discarding a
\* closed one tries again to remove its worktree.
TreeOpLoads(kind) ==
    /\ treeOp = NoTreeOp /\ taskStart \notin {"create", "record"}
    /\ LET s == taskRecord.state IN
       \/ /\ s \in Closable
          /\ \E active \in LatestMayBeActive :
                treeOp' = [NoTreeOp EXCEPT !.kind = kind, !.stage = "loaded",
                              !.state = RefreshedState(s, active), !.active = active,
                              !.turn = IF LatestIsActive THEN Len(taskTurns) ELSE 0]
       \/ /\ kind = "discard" /\ s \in Closed /\ ~taskRecord.removed
          /\ treeOp' = [NoTreeOp EXCEPT !.kind = kind, !.stage = "closing", !.state = s]
    /\ UNCHANGED <<taskRecord, taskTree, taskBranch, talk, taskTurns, taskHeld, strayed>> /\ OpOnly

RecordSaved(rec) ==
    \/ taskRecord' = rec /\ UNCHANGED strayed
    \/ TaskFaults /\ strayed' = TRUE /\ UNCHANGED taskRecord

TaskViewed ==
    /\ treeOp.kind = "view"
    /\ RecordSaved([taskRecord EXCEPT !.state = treeOp.state])
    /\ TreeOpReturns
    /\ UNCHANGED <<taskTree, taskBranch, talk, taskTurns>> /\ OpOnly

\* Engine::reserve_workspace, for the project and the worktree in this order.
Reservable(places) ==
    /\ "project" \in places => ~projectBusy
    /\ "tree" \in places => TreeIdle

\* apply holds the project and the worktree, keep_branch only the worktree.
TaskReserves ==
    /\ treeOp.kind \in {"apply", "branch"} /\ treeOp.stage = "loaded"
    /\ LET places == IF treeOp.kind = "apply" THEN {"project", "tree"} ELSE {"tree"}
       IN \/ /\ ~treeOp.active /\ taskTree = "there" /\ Reservable(places)
             /\ taskHeld' = places
             /\ treeOp' = [treeOp EXCEPT !.stage = "working"]
          \/ /\ treeOp.active \/ taskTree # "there" \/ ~Reservable(places)
             /\ TreeOpReturns
    /\ UNCHANGED <<taskRecord, taskTree, taskBranch, talk, taskTurns, strayed>> /\ OpOnly

\* The result is committed on its branch and applied; a patch the project refuses
\* leaves everything in place.
TaskWorks ==
    /\ treeOp.stage = "working"
    /\ \/ treeOp' = [treeOp EXCEPT !.stage = "closing",
                                   !.state = IF treeOp.kind = "apply" THEN "applied" ELSE "branch"]
          /\ UNCHANGED <<taskHeld, taskRecord, strayed>>
       \/ TreeOpReturns /\ UNCHANGED <<taskRecord, strayed>>
       \/ /\ treeOp.kind = "apply"
          /\ RecordSaved([taskRecord EXCEPT !.state = treeOp.state])
          /\ TreeOpReturns
    /\ UNCHANGED <<taskTree, taskBranch, talk, taskTurns>> /\ OpOnly

\* discard cancels the latest job and waits for it, at most 60 seconds.
TaskTurnStops ==
    /\ treeOp.kind = "discard" /\ treeOp.stage = "loaded"
    /\ taskTurns' = IF treeOp.turn # 0 /\ taskTurns[treeOp.turn] # "ended"
                    THEN [taskTurns EXCEPT ![treeOp.turn] =
                             IF treeOp.turn \in TreeFront THEN "cancelling" ELSE "ended"]
                    ELSE taskTurns
    /\ treeOp' = [treeOp EXCEPT !.stage = IF treeOp.active THEN "waiting" ELSE "closing",
                                !.state = "discarded"]
    /\ UNCHANGED <<taskRecord, taskTree, taskBranch, talk, taskHeld, strayed>> /\ OpOnly

TaskStopped ==
    /\ treeOp.stage = "waiting"
    /\ \/ /\ treeOp.turn # 0 => taskTurns[treeOp.turn] = "ended"
          /\ treeOp' = [treeOp EXCEPT !.stage = "closing"] /\ UNCHANGED taskHeld
       \/ /\ treeOp.turn # 0 => taskTurns[treeOp.turn] # "ended"
          /\ TreeOpReturns
    /\ UNCHANGED <<taskRecord, taskTree, taskBranch, talk, taskTurns, strayed>> /\ OpOnly

\* Mutant: closing always removes the branch.
KeepsNoBranch(state) == FALSE

\* release keeps the branch, dispose removes it.
KeepsBranch(state) == state = "branch"

\* close: Git removes the worktree, or what was left of it, if it can.
TaskTreeRemoved ==
    /\ treeOp.stage = "closing"
    /\ \/ taskTree' = "gone" /\ treeOp' = [treeOp EXCEPT !.stage = "pruning"]
       \/ treeOp' = [treeOp EXCEPT !.stage = "moving"] /\ UNCHANGED taskTree
    /\ UNCHANGED <<taskRecord, taskBranch, talk, taskTurns, taskHeld, strayed>> /\ OpOnly

\* The branch goes or, by choice or by failure, stays; that the worktree is removed is
\* known when its own record says so.
TaskBranchPruned ==
    /\ treeOp.stage = "pruning"
    /\ taskBranch' \in {taskBranch, taskBranch /\ KeepsBranch(treeOp.state)}
    /\ \E told \in {TRUE, ~TaskFaults} :
          treeOp' = [treeOp EXCEPT !.stage = "moving", !.removed = told]
    /\ UNCHANGED <<taskRecord, taskTree, talk, taskTurns, taskHeld, strayed>> /\ OpOnly

\* The conversation moves back to the project, if it is still there.
TalkMoved ==
    /\ treeOp.stage = "moving"
    /\ \/ talk' = IF talk = "tree" THEN "project" ELSE talk
       \/ TaskFaults /\ UNCHANGED talk
    /\ treeOp' = [treeOp EXCEPT !.stage = "saving"]
    /\ UNCHANGED <<taskRecord, taskTree, taskBranch, taskTurns, taskHeld, strayed>> /\ OpOnly

\* What a close records, when it is cut off here.
CutShort == IF taskRecord.state \in Closed THEN cutShort ELSE treeOp.state

\* save: the record follows last, and the reservations end.
TaskClosed ==
    /\ treeOp.stage = "saving"
    /\ \/ /\ taskRecord' = [state |-> treeOp.state, removed |-> treeOp.removed]
          /\ cutShort' = "none"
       \/ TaskFaults /\ cutShort' = CutShort /\ UNCHANGED taskRecord
    /\ TreeOpReturns
    /\ UNCHANGED <<taskTree, taskBranch, talk, taskTurns, strayed>>
    /\ UNCHANGED <<projectBusy, taskStart, taskCrashes>>

-----------------------------------------------------------------------------
(* Deleting the conversation, and a stop of the program                    *)

\* ensure_deletable: a task that is starting does not keep its conversation.
Deletable == taskRecord.state \notin Closable

TalkDeleted ==
    /\ talk \in {"tree", "project"}
    /\ TreeIdle /\ taskHeld = {}
    /\ Deletable
    /\ talk' = "deleted"
    /\ strayed' = (strayed \/ taskRecord.state = "starting")
    /\ UNCHANGED <<taskRecord, taskTree, taskBranch, taskTurns, taskHeld, treeOp>>
    /\ UNCHANGED <<projectBusy, taskStart, taskCrashes, cutShort>>

\* Nothing goes over the records when the program starts again.
TasksCrash ==
    /\ taskCrashes < MaxTaskCrashes
    /\ taskCrashes' = taskCrashes + 1
    /\ strayed' = (strayed \/ taskStart # "none")
    /\ cutShort' = IF treeOp.stage \in Ending THEN CutShort ELSE cutShort
    /\ taskStart' = "none" /\ treeOp' = NoTreeOp /\ taskHeld' = {}
    /\ taskTurns' = [i \in 1 .. Len(taskTurns) |-> "ended"]
    /\ projectBusy' = FALSE
    /\ UNCHANGED <<taskRecord, taskTree, taskBranch, talk>>

WorktreeTasksNext ==
    \/ TreeFollowUp \/ TreeTurnRuns \/ TreeTurnEnds \/ ProjectTask
    \/ TaskPrepares \/ TaskTreeCreated \/ TaskRecorded \/ TaskLaunched \/ TaskNoted
    \/ TaskAbandoned
    \/ \E kind \in {"view", "apply", "branch", "discard"} : TreeOpLoads(kind)
    \/ TaskViewed \/ TaskReserves \/ TaskWorks \/ TaskTurnStops \/ TaskStopped
    \/ TaskTreeRemoved \/ TaskBranchPruned \/ TalkMoved \/ TaskClosed
    \/ TalkDeleted \/ TasksCrash

WorktreeTasksSpec == WorktreeTasksInit /\ [][WorktreeTasksNext]_worktreeVars

-----------------------------------------------------------------------------
(* What worktree tasks promise                                             *)

\* A worktree can be reached: while it is there some record names it and does not
\* call it removed, and the conversation of an open task still runs in it.  A branch
\* that was kept stays, also when the clean-up is tried again, and also when the
\* program stops before the record says that it was kept, unless the task is closed
\* another way.  Exceptions are starts that were cut off, changes that were not
\* stored, conversations deleted while their task was starting and, for the open
\* task, a close that was cut off between the worktree and the record
\* (worktree_tasks.rs prepare, close, ensure_deletable, worktrees.rs
\* dispose_checkout; docs/API_CONTRACT_0.28.md:989-1010).
TreesReachable ==
    /\ taskRecord.removed => taskTree = "gone"
    /\ taskRecord.state = "branch" => taskBranch
    /\ cutShort = "branch" /\ treeOp.stage \notin Ending => taskBranch
    /\ ~strayed /\ taskStart = "none" =>
          /\ taskTree = "there" => taskRecord.state # "none" /\ ~taskRecord.removed
          /\ taskRecord.state \in Closable /\ cutShort = "none" /\ treeOp.stage \notin Ending =>
                talk = "tree" /\ taskTree = "there"

\* While a result is committed and applied, no task runs in the project or in the
\* worktree (worktree_tasks.rs apply).
AppliesAlone ==
    treeOp.kind = "apply" /\ treeOp.stage \in {"working"} \cup Closing =>
        TreeIdle /\ ~projectBusy

\* A worktree task neither loses what it made nor mixes it with other work.
TreesAgree == WorktreeTaskTypes /\ TreesReachable /\ AppliesAlone
=============================================================================
