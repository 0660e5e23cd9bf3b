------------------------------- MODULE Children -------------------------------
(***************************************************************************)
(* Subagents: the child jobs a task starts with the spawn_agent tool       *)
(* (subagents.rs, engine/child.rs, and the loop of engine.rs that runs     *)
(* tool calls in parallel).                                                *)
(*                                                                         *)
(* One parent task; each call of the tool runs one child inside the        *)
(* parent's own future, outside the lanes of the scheduler.  A child that  *)
(* may write gets a worktree first.  A step is what happens between two    *)
(* awaits.                                                                 *)
(***************************************************************************)
EXTENDS Naturals, FiniteSets

CONSTANTS
    Calls,          \* the spawn_agent calls of the parent
    Writers,        \* those whose child may write
    MaxParallel,    \* subagents.max_parallel
    MaxPerTask,     \* subagents.max_per_task
    ChildFaults     \* may a database access fail?

ASSUME ChildAssumption ==
    /\ Writers \subseteq Calls
    /\ MaxParallel \in Nat \ {0} /\ MaxPerTask \in Nat
    /\ ChildFaults \in BOOLEAN

VARIABLES
    parent,         \* the parent's job
    parentStopped,  \* its token, which the children's tokens hang on
    childrenClosing,\* the engine's closing flag
    spawned,        \* SubagentHost::spawned
    call,           \* where a call is
    childRow,       \* the row of its child's job
    childListed,    \* the children in queues.jobs that are not finished
    childTree,      \* the worktree of its child
    runRecord,      \* the RunRecord of the call
    \* what happened
    abandoned,      \* calls whose future was dropped with the parent's
    unended         \* calls whose child ended and could not be stored

childVars == <<parent, parentStopped, childrenClosing, spawned, call, childRow, childListed,
               childTree, runRecord, abandoned, unended>>

\* Where a call holds one of the slots.
Slotted == {"preparing", "storing", "registering", "running", "disposing", "reporting"}
InFlight == Slotted \cup {"asking"}

ChildTypes ==
    /\ parent \in {"working", "ended", "failed"}
    /\ parentStopped \in BOOLEAN /\ childrenClosing \in BOOLEAN
    /\ spawned \in Nat
    /\ call \in [Calls -> {"none", "refused", "returned"} \cup InFlight]
    /\ childRow \in [Calls -> {"none", "running", "ended"}]
    /\ childListed \subseteq Calls
    /\ childTree \in [Calls -> {"none", "there", "removed", "kept"}]
    /\ runRecord \in [Calls -> {"none", "running", "ended"}]
    /\ abandoned \subseteq Calls /\ unended \subseteq Calls

ChildrenInit ==
    /\ parent = "working"
    /\ parentStopped = FALSE /\ childrenClosing = FALSE
    /\ spawned = 0
    /\ call = [c \in Calls |-> "none"]
    /\ childRow = [c \in Calls |-> "none"]
    /\ childListed = {}
    /\ childTree = [c \in Calls |-> "none"]
    /\ runRecord = [c \in Calls |-> "none"]
    /\ abandoned = {} /\ unended = {}

CallMoves(c, to) == call' = [call EXCEPT ![c] = to]

CallUnchanged == UNCHANGED <<parent, parentStopped, childrenClosing, abandoned, unended>>

-----------------------------------------------------------------------------
(* One call: try_run                                                       *)

\* The counter grows with refused calls, too: over the limit, or a child that is
\* not allowed to write or has no model.
CallSpawns(c) ==
    /\ call[c] = "none"
    /\ parent = "working" /\ ~parentStopped
    /\ spawned' = spawned + 1
    /\ \/ spawned < MaxPerTask /\ CallMoves(c, "asking")
       \/ CallMoves(c, "refused")
    /\ UNCHANGED <<childRow, childListed, childTree, runRecord>> /\ CallUnchanged

\* The select of the semaphore and the token.
CallGivesUp(c) ==
    /\ call[c] = "asking" /\ parentStopped
    /\ CallMoves(c, "returned")
    /\ UNCHANGED <<spawned, childRow, childListed, childTree, runRecord>> /\ CallUnchanged

SlotFree == Cardinality({c \in Calls : call[c] \in Slotted}) < MaxParallel

CallTakesSlot(c) ==
    /\ call[c] = "asking"
    /\ SlotFree
    /\ CallMoves(c, IF c \in Writers THEN "preparing" ELSE "storing")
    /\ UNCHANGED <<spawned, childRow, childListed, childTree, runRecord>> /\ CallUnchanged

\* A writer's worktree, created from the parent's files, or the call fails.
CallPrepares(c) ==
    /\ call[c] = "preparing"
    /\ \/ childTree' = [childTree EXCEPT ![c] = "there"] /\ CallMoves(c, "storing")
       \/ CallMoves(c, "returned") /\ UNCHANGED childTree
    /\ UNCHANGED <<spawned, childRow, childListed, runRecord>> /\ CallUnchanged

\* run_child_inner: refused, or a session and a running row are stored.
ChildStored(c) ==
    /\ call[c] = "storing"
    /\ \/ /\ ~childrenClosing
          /\ childRow' = [childRow EXCEPT ![c] = "running"]
          /\ CallMoves(c, "registering")
       \/ /\ childrenClosing \/ ChildFaults
          /\ CallMoves(c, "disposing")
          /\ UNCHANGED childRow
    /\ UNCHANGED <<spawned, childListed, childTree, runRecord>> /\ CallUnchanged

\* Under the queues' lock; a shutdown that came in between leaves the row.
ChildRegisters(c) ==
    /\ call[c] = "registering"
    /\ IF childrenClosing
       THEN CallMoves(c, "disposing") /\ UNCHANGED <<childListed, runRecord>>
       ELSE /\ CallMoves(c, "running")
            /\ childListed' = childListed \cup {c}
            /\ runRecord' = [runRecord EXCEPT ![c] = "running"]
    /\ UNCHANGED <<spawned, childRow, childTree>> /\ CallUnchanged

\* The child's loop ends, by itself or because its token is cancelled; its end is
\* stored and it leaves queues.jobs, also when it cannot be stored.
ChildEnds(c) ==
    /\ call[c] = "running"
    /\ childListed' = childListed \ {c}
    /\ \/ childRow' = [childRow EXCEPT ![c] = "ended"] /\ UNCHANGED unended
       \/ ChildFaults /\ unended' = unended \cup {c} /\ UNCHANGED childRow
    /\ CallMoves(c, "disposing")
    /\ UNCHANGED <<parent, parentStopped, childrenClosing, spawned, childTree, runRecord,
                   abandoned>>

\* What the child changed is read, and its worktree removed if Git can, however
\* the child ended.
CallDisposes(c) ==
    /\ call[c] = "disposing"
    /\ IF childTree[c] = "there"
       THEN \E s \in {"removed", "kept"} : childTree' = [childTree EXCEPT ![c] = s]
       ELSE UNCHANGED childTree
    /\ CallMoves(c, "reporting")
    /\ UNCHANGED <<spawned, childRow, childListed, runRecord>> /\ CallUnchanged

\* The record is stored with the result, or the call fails.
CallReports(c) ==
    /\ call[c] = "reporting"
    /\ \/ runRecord' = [runRecord EXCEPT ![c] = "ended"]
       \/ ChildFaults /\ UNCHANGED runRecord
    /\ CallMoves(c, "returned")
    /\ UNCHANGED <<spawned, childRow, childListed, childTree>> /\ CallUnchanged

-----------------------------------------------------------------------------
(* The parent, a stop and a shutdown                                       *)

ParentUnchanged == UNCHANGED <<spawned, call, childRow, childListed, childTree, runRecord, unended>>

\* Mutant: the parent does not wait for the calls of a group.
GroupStarted == \A c \in Calls : call[c] # "asking"

\* The results of a parallel group are awaited one after the other.
GroupOver == \A c \in Calls : call[c] \notin InFlight

ParentEnds ==
    /\ parent = "working"
    /\ GroupOver
    /\ parent' = "ended"
    /\ UNCHANGED <<parentStopped, childrenClosing, abandoned>> /\ ParentUnchanged

\* An event of a call or the tape cannot be stored: the loop returns, and the
\* futures of the calls in flight are dropped where they are.
ParentFails ==
    /\ ChildFaults
    /\ parent = "working"
    /\ parent' = "failed"
    /\ abandoned' = {c \in Calls : call[c] \in InFlight}
    /\ call' = [c \in Calls |-> IF call[c] \in InFlight THEN "returned" ELSE call[c]]
    /\ UNCHANGED <<parentStopped, childrenClosing, spawned, childRow, childListed, childTree,
                   runRecord, unended>>

StopParent ==
    /\ parent = "working" /\ ~parentStopped
    /\ parentStopped' = TRUE
    /\ UNCHANGED <<parent, childrenClosing, abandoned>> /\ ParentUnchanged

\* shutdown: first the flag, then the tokens of all jobs it finds.
ChildrenClose ==
    /\ ~childrenClosing
    /\ childrenClosing' = TRUE
    /\ UNCHANGED <<parent, parentStopped, abandoned>> /\ ParentUnchanged

ShutdownStopsParent ==
    /\ childrenClosing /\ parent = "working" /\ ~parentStopped
    /\ parentStopped' = TRUE
    /\ UNCHANGED <<parent, childrenClosing, abandoned>> /\ ParentUnchanged

CallNext(c) ==
    \/ CallGivesUp(c) \/ CallTakesSlot(c) \/ CallPrepares(c)
    \/ ChildStored(c) \/ ChildRegisters(c) \/ CallDisposes(c) \/ CallReports(c)

\* Mutant: a child has a token of its own.
OwnToken == FALSE

\* A child's token hangs on the parent's.
ChildToken == parentStopped

\* A child looks at its token; one that is not stopped may go on for ever.
ChildStops(c) == ChildToken /\ ChildEnds(c)

StoppedParentEnds == parentStopped /\ ParentEnds

ChildrenNext ==
    \/ ParentEnds \/ ParentFails \/ StopParent \/ ChildrenClose \/ ShutdownStopsParent
    \/ \E c \in Calls : CallSpawns(c) \/ CallNext(c) \/ ChildEnds(c)

ChildrenSpec == ChildrenInit /\ [][ChildrenNext]_childVars

-----------------------------------------------------------------------------
(* What subagents promise                                                  *)

\* A child ends before its parent and leaves nothing behind: no live job, no
\* running row, no worktree that was not tried to be removed.  Exceptions are
\* children whose parent's loop failed under them, a row a shutdown refused to
\* run and an end that could not be stored (engine/child.rs run_child_inner,
\* subagents.rs try_run).
ChildrenWithinParent ==
    \A c \in Calls \ abandoned :
        /\ c \in childListed => call[c] = "running" /\ parent = "working"
        /\ call[c] \in {"refused", "returned"} =>
              /\ childTree[c] # "there"
              /\ childRow[c] = "running" => childrenClosing \/ c \in unended

\* At most MaxPerTask children are started and MaxParallel of them go at once.
ChildLimits ==
    /\ Cardinality({c \in Calls : call[c] \notin {"none", "refused"}}) <= MaxPerTask
    /\ Cardinality(childListed \ abandoned) <= MaxParallel

\* What the calls, the rows and the worktrees of a task's children say, agrees.
ChildrenAgree == ChildTypes /\ ChildrenWithinParent /\ ChildLimits

\* Stopping the parent task stops its subagents, if its loop does not fail
\* under them (docs/SUBAGENTS.md:32).
StopReachesChildren == parentStopped ~> (parent # "working" /\ childListed \subseteq abandoned)
=============================================================================
