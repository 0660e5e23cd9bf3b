------------------------- MODULE ParallelWorkProofs -------------------------
(***************************************************************************)
(* Work beside the conversation that asked for it.  For any number of      *)
(* spawn_agent calls and any limits: children end before their parent,     *)
(* leave nothing behind, and keep to both limits.  ChildInv adds where a   *)
(* call must be for its child's row and worktree to exist, and that the    *)
(* counter bounds the calls that got past it.  For any number of jobs a    *)
(* connection owns: none outlives it without its signal; OwnedInv adds     *)
(* where the future of each job stands while the owner closes.  For any    *)
(* number of lanes, turns and operations: the record of a comparison       *)
(* agrees with the scoreboard and with the worktrees; CompareInv says what *)
(* the copy of an operation may hold at each of its stages.  For any       *)
(* number of turns and operations: a worktree task is never lost;          *)
(* WorktreeTasksInv says what an operation knows between its steps.        *)
(***************************************************************************)
EXTENDS Children, Owners, Compare, WorktreeTasks, FiniteSetTheorems, TLAPS

-----------------------------------------------------------------------------
(* The inductive invariant                                                 *)

\* No call is in flight without its parent, and only a failed parent abandons.
InParent ==
    /\ parent # "working" => \A c \in Calls : call[c] \notin InFlight
    /\ parent = "working" => abandoned = {}
    /\ \A c \in childListed \ abandoned : call[c] = "running"

\* What a child has, by where its call is.
CallsTell ==
    \A c \in Calls \ abandoned :
        /\ call[c] \in {"none", "refused", "asking", "preparing"} =>
              childRow[c] = "none" /\ childTree[c] = "none"
        /\ call[c] = "storing" => childRow[c] = "none"
        /\ call[c] \in {"reporting", "returned"} => childTree[c] # "there"
        /\ call[c] \in {"disposing", "reporting", "returned"} /\ childRow[c] = "running" =>
              childrenClosing \/ c \in unended

Started == {c \in Calls : call[c] \notin {"none", "refused"}}
InSlots == {c \in Calls : call[c] \in Slotted}

LimitsKept ==
    /\ IsFiniteSet(Started)
    /\ Cardinality(Started) <= spawned
    /\ Cardinality(Started) <= MaxPerTask
    /\ Cardinality(InSlots) <= MaxParallel

ChildInv == ChildTypes /\ InParent /\ CallsTell /\ LimitsKept

\* What holds a slot was started.
LEMMA SlotsFinite ==
  ASSUME LimitsKept
  PROVE  IsFiniteSet(InSlots) /\ Cardinality(InSlots) \in Nat /\ Cardinality(Started) \in Nat
<1>1. InSlots \in SUBSET Started
  BY DEF InSlots, Started, Slotted
<1>2. IsFiniteSet(InSlots) /\ IsFiniteSet(Started)
  BY <1>1, FS_Subset DEF LimitsKept
<1>. QED
  BY <1>2, FS_CardinalityType

\* Without a new call that started or took a slot the limits hold on.
LEMMA FewerCalls ==
  ASSUME LimitsKept, Started' = Started, InSlots' \subseteq InSlots, spawned' = spawned
  PROVE  LimitsKept'
<1>1. IsFiniteSet(InSlots') /\ Cardinality(InSlots') <= Cardinality(InSlots)
  BY SlotsFinite, FS_Subset
<1>2. Cardinality(InSlots') \in Nat
  BY <1>1, FS_CardinalityType
<1>. QED
  BY <1>1, <1>2, SlotsFinite, ChildAssumption DEF LimitsKept

LEMMA ChildInitInv == ChildrenInit => ChildInv
<1>. SUFFICES ASSUME ChildrenInit PROVE ChildInv
  OBVIOUS
<1>. USE DEF ChildrenInit
<1>1. ChildTypes
  BY DEF ChildTypes
<1>2. InParent /\ CallsTell
  BY DEF InParent, CallsTell
<1>3. Started = {} /\ InSlots = {}
  BY DEF Started, InSlots, Slotted
<1>4. LimitsKept
  BY <1>3, FS_EmptySet, ChildAssumption DEF LimitsKept
<1>. QED
  BY <1>1, <1>2, <1>4 DEF ChildInv

-----------------------------------------------------------------------------
(* Steps of a call                                                         *)

LEMMA CallTypes ==
  ASSUME ChildTypes, NEW c \in Calls, CallSpawns(c) \/ CallNext(c) \/ ChildEnds(c)
  PROVE  ChildTypes'
<1>. USE DEF ChildTypes, CallMoves, CallUnchanged, InFlight, Slotted
<1>1. CASE CallSpawns(c)
  BY <1>1 DEF CallSpawns
<1>2. CASE CallGivesUp(c)
  BY <1>2 DEF CallGivesUp
<1>3. CASE CallTakesSlot(c)
  BY <1>3 DEF CallTakesSlot
<1>4. CASE CallPrepares(c)
  BY <1>4 DEF CallPrepares
<1>5. CASE ChildStored(c)
  BY <1>5 DEF ChildStored
<1>6. CASE ChildRegisters(c)
  BY <1>6 DEF ChildRegisters
<1>7. CASE CallDisposes(c)
  BY <1>7 DEF CallDisposes
<1>8. CASE CallReports(c)
  BY <1>8 DEF CallReports
<1>9. CASE ChildEnds(c)
  BY <1>9 DEF ChildEnds
<1>. QED
  BY <1>1, <1>2, <1>3, <1>4, <1>5, <1>6, <1>7, <1>8, <1>9 DEF CallNext

\* A call that starts is counted before it goes on.
LEMMA SpawnKeepsLimits ==
  ASSUME ChildInv, NEW c \in Calls, CallSpawns(c)
  PROVE  LimitsKept'
<1>. ChildTypes /\ LimitsKept /\ spawned \in Nat
  BY DEF ChildInv, ChildTypes
<1>1. spawned' = spawned + 1 /\ call[c] = "none"
  BY DEF CallSpawns
<1>2. CASE call' = [call EXCEPT ![c] = "refused"]
  <2>1. Started' = Started /\ InSlots' = InSlots
    BY <1>1, <1>2 DEF Started, InSlots, Slotted, ChildTypes
  <2>. QED
    BY <1>1, <2>1, SlotsFinite DEF LimitsKept
<1>3. CASE call' = [call EXCEPT ![c] = "asking"] /\ spawned < MaxPerTask
  <2>1. /\ Started' = Started \cup {c} /\ c \notin Started
        /\ InSlots' = InSlots
    BY <1>1, <1>3 DEF Started, InSlots, Slotted, ChildTypes
  <2>2. IsFiniteSet(Started') /\ Cardinality(Started') = Cardinality(Started) + 1
    BY <2>1, FS_AddElement DEF LimitsKept
  <2>. QED
    BY <1>1, <1>3, <2>1, <2>2, SlotsFinite, ChildAssumption DEF LimitsKept
<1>. QED
  BY <1>2, <1>3 DEF CallSpawns, CallMoves

\* A slot is taken only when one is free.
LEMMA SlotKeepsLimits ==
  ASSUME ChildInv, NEW c \in Calls, CallTakesSlot(c)
  PROVE  LimitsKept'
<1>. ChildTypes /\ LimitsKept
  BY DEF ChildInv
<1>1. Started' = Started /\ InSlots' = InSlots \cup {c} /\ c \notin InSlots /\ spawned' = spawned
  BY DEF CallTakesSlot, CallMoves, Started, InSlots, Slotted, ChildTypes
<1>2. Cardinality(InSlots') = Cardinality(InSlots) + 1
  BY <1>1, SlotsFinite, FS_AddElement
<1>3. Cardinality(InSlots) < MaxParallel
  BY DEF CallTakesSlot, SlotFree, InSlots
<1>. QED
  BY <1>1, <1>2, <1>3, SlotsFinite, ChildAssumption DEF LimitsKept

LEMMA CallKeeps ==
  ASSUME ChildInv, NEW c \in Calls, CallSpawns(c) \/ CallNext(c) \/ ChildEnds(c)
  PROVE  ChildInv'
<1>. USE DEF CallMoves, CallUnchanged
<1>1. ChildTypes /\ ChildTypes' /\ InParent /\ CallsTell /\ LimitsKept
  BY CallTypes DEF ChildInv
<1>2. UNCHANGED <<parent, childrenClosing, abandoned>>
  BY DEF CallSpawns, CallNext, CallGivesUp, CallTakesSlot, CallPrepares, ChildStored, ChildRegisters,
         CallDisposes, CallReports, ChildEnds
<1>3. parent = "working" /\ abandoned = {}
  BY <1>1 DEF InParent, InFlight, Slotted, CallSpawns, CallNext, CallGivesUp, CallTakesSlot,
              CallPrepares, ChildStored, ChildRegisters, CallDisposes, CallReports, ChildEnds
<1>4. InParent'
  <2>. USE <1>1, <1>2, <1>3 DEF InParent, ChildTypes
  <2>1. CASE CallSpawns(c) \/ CallGivesUp(c) \/ CallTakesSlot(c)
    BY <2>1 DEF CallSpawns, CallGivesUp, CallTakesSlot
  <2>2. CASE CallPrepares(c) \/ ChildStored(c) \/ CallDisposes(c) \/ CallReports(c)
    BY <2>2 DEF CallPrepares, ChildStored, CallDisposes, CallReports
  <2>3. CASE ChildRegisters(c) \/ ChildEnds(c)
    BY <2>3 DEF ChildRegisters, ChildEnds
  <2>. QED
    BY <2>1, <2>2, <2>3 DEF CallNext
<1>5. CallsTell'
  <2>. USE <1>1, <1>2, <1>3 DEF CallsTell, ChildTypes
  <2>1. CASE CallSpawns(c)
    BY <2>1 DEF CallSpawns
  <2>2. CASE CallGivesUp(c)
    BY <2>2 DEF CallGivesUp
  <2>3. CASE CallTakesSlot(c)
    BY <2>3 DEF CallTakesSlot
  <2>4. CASE CallPrepares(c)
    BY <2>4 DEF CallPrepares
  <2>5. CASE ChildStored(c)
    BY <2>5 DEF ChildStored
  <2>6. CASE ChildRegisters(c)
    BY <2>6 DEF ChildRegisters
  <2>7. CASE CallDisposes(c)
    BY <2>7 DEF CallDisposes
  <2>8. CASE CallReports(c)
    BY <2>8 DEF CallReports
  <2>9. CASE ChildEnds(c)
    BY <2>9 DEF ChildEnds
  <2>. QED
    BY <2>1, <2>2, <2>3, <2>4, <2>5, <2>6, <2>7, <2>8, <2>9 DEF CallNext
<1>6. LimitsKept'
  <2>1. CASE CallSpawns(c) \/ CallTakesSlot(c)
    BY <2>1, SpawnKeepsLimits, SlotKeepsLimits
  <2>2. CASE ~(CallSpawns(c) \/ CallTakesSlot(c))
    <3>1. /\ spawned' = spawned
          /\ \E s \in {"returned", "storing", "registering", "disposing", "running", "reporting"} :
                call' = [call EXCEPT ![c] = s]
      BY <2>2 DEF CallNext, CallGivesUp, CallPrepares, ChildStored, ChildRegisters, CallDisposes,
                  CallReports, ChildEnds
    <3>2. call[c] \in Slotted \/ (call[c] = "asking" /\ call' = [call EXCEPT ![c] = "returned"])
      BY <2>2 DEF CallNext, CallGivesUp, CallPrepares, ChildStored, ChildRegisters, CallDisposes,
                  CallReports, ChildEnds, Slotted
    <3>3. Started' = Started /\ InSlots' \subseteq InSlots
      BY <1>1, <3>1, <3>2 DEF Started, InSlots, Slotted, ChildTypes
    <3>. QED
      BY <1>1, <3>1, <3>3, FewerCalls
  <2>. QED
    BY <2>1, <2>2
<1>. QED
  BY <1>1, <1>4, <1>5, <1>6 DEF ChildInv

-----------------------------------------------------------------------------
(* Steps of the parent and of the program                                  *)

LEMMA ParentKeeps ==
  ASSUME ChildInv, ParentEnds \/ ParentFails \/ StopParent \/ ChildrenClose \/ ShutdownStopsParent
  PROVE  ChildInv'
<1>. USE DEF ParentUnchanged
<1>1. ChildTypes /\ InParent /\ CallsTell /\ LimitsKept
  BY DEF ChildInv
<1>2. CASE ParentFails
  <2>1. \A c \in Calls : call'[c] = IF call[c] \in InFlight THEN "returned" ELSE call[c]
    BY <1>2, Zenon DEF ParentFails
  <2>2. ChildTypes'
    BY <1>1, <1>2 DEF ParentFails, ChildTypes
  <2>3. InParent'
    BY <1>1, <1>2, <2>1 DEF ParentFails, InParent, InFlight, Slotted, ChildTypes
  <2>4. CallsTell'
    BY <1>1, <1>2, <2>1 DEF ParentFails, CallsTell, InParent, ChildTypes
  <2>5. Started' = Started /\ InSlots' \subseteq InSlots /\ spawned' = spawned
    BY <1>2, <2>1 DEF ParentFails, Started, InSlots, InFlight, Slotted
  <2>. QED
    BY <1>1, <2>2, <2>3, <2>4, <2>5, FewerCalls DEF ChildInv
<1>3. CASE ParentEnds \/ StopParent \/ ChildrenClose \/ ShutdownStopsParent
  <2>1. UNCHANGED <<spawned, call, childRow, childListed, childTree, runRecord, unended, abandoned>>
    BY <1>3 DEF ParentEnds, StopParent, ChildrenClose, ShutdownStopsParent
  <2>2. ChildTypes'
    BY <1>1, <1>3, <2>1 DEF ParentEnds, StopParent, ChildrenClose, ShutdownStopsParent, ChildTypes
  <2>3. InParent'
    BY <1>1, <1>3, <2>1 DEF ParentEnds, StopParent, ChildrenClose, ShutdownStopsParent, InParent, GroupOver
  <2>4. childrenClosing => childrenClosing'
    BY <1>3 DEF ParentEnds, StopParent, ChildrenClose, ShutdownStopsParent
  <2>5. CallsTell'
    BY <1>1, <2>1, <2>4 DEF CallsTell
  <2>6. Started' = Started /\ InSlots' = InSlots
    BY <2>1 DEF Started, InSlots
  <2>. QED
    BY <1>1, <2>1, <2>2, <2>3, <2>5, <2>6, FewerCalls DEF ChildInv
<1>. QED
  BY <1>2, <1>3

-----------------------------------------------------------------------------
(* The theorems                                                            *)

LEMMA ChildNextInv == ChildInv /\ [ChildrenNext]_childVars => ChildInv'
<1>. SUFFICES ASSUME ChildInv, [ChildrenNext]_childVars PROVE ChildInv'
  OBVIOUS
<1>1. CASE UNCHANGED childVars
  BY <1>1 DEF childVars, ChildInv, ChildTypes, InParent, CallsTell, LimitsKept, Started, InSlots
<1>. QED
  BY <1>1, CallKeeps, ParentKeeps DEF ChildrenNext

\* Where a call is tells what its child has (subagents.rs try_run,
\* engine/child.rs run_child_inner).
THEOREM ChildInvariant == ChildrenSpec => []ChildInv
BY ChildInitInv, ChildNextInv, PTL DEF ChildrenSpec

\* A child ends before its parent and leaves nothing behind, and the children
\* keep to both limits, for any number of calls and any limits.
THEOREM ChildrenHold == ChildrenSpec => []ChildrenAgree
<1>1. ASSUME ChildInv PROVE ChildrenAgree
  <2>1. ChildTypes /\ InParent /\ CallsTell /\ LimitsKept
    BY <1>1 DEF ChildInv
  <2>2. ChildrenWithinParent
    BY <2>1 DEF ChildrenWithinParent, InParent, CallsTell, InFlight, Slotted
  <2>3. childListed \ abandoned \in SUBSET InSlots
    BY <2>1 DEF InParent, InSlots, Slotted, ChildTypes
  <2>4. /\ IsFiniteSet(childListed \ abandoned)
        /\ Cardinality(childListed \ abandoned) <= Cardinality(InSlots)
    BY <2>1, <2>3, SlotsFinite, FS_Subset
  <2>5. Cardinality(childListed \ abandoned) \in Nat
    BY <2>4, FS_CardinalityType
  <2>6. ChildLimits
    BY <2>1, <2>4, <2>5, SlotsFinite, ChildAssumption DEF ChildLimits, LimitsKept, Started
  <2>. QED
    BY <2>1, <2>2, <2>6 DEF ChildrenAgree
<1>. QED
  BY <1>1, ChildInvariant, PTL

-----------------------------------------------------------------------------
(* Owned jobs                                                              *)

\* Where the future of a job stands while its owner closes.
CloserKnows ==
    connection = "closing" =>
        \A j \in OwnJobs : /\ j \in ownedJobs => closer[j] # "none"
                           /\ closer[j] = "ended" => j \notin LiveOwned

OverSignals ==
    /\ connection = "closed" => LiveOwned = {}
    /\ connection \in ConnectionOver => LiveOwned \subseteq jobStopped

OwnedInv == OwnerTypes /\ LiveOwned \subseteq ownedJobs /\ CloserKnows /\ OverSignals

LEMMA OwnersInitInv == OwnersInit => OwnedInv
BY DEF OwnersInit, OwnedInv, OwnerTypes, LiveOwned, LiveJob, CloserKnows, OverSignals, ConnectionOver

\* serve starts jobs, and its end leaves none without a signal.
LEMMA ServeKeeps ==
  ASSUME OwnedInv,
         \/ Submits \/ StartFailsEarly \/ Replies \/ ClientCloses \/ ConnectionBreaks
         \/ CloseReturns \/ ServeAborted \/ \E j \in OwnJobs : OwnedStart(j)
  PROVE  OwnedInv'
<1>. USE DEF OwnedInv, OwnerTypes, LiveOwned, LiveJob, CloserKnows, OverSignals, ConnectionOver
<1>1. CASE Submits \/ StartFailsEarly \/ Replies
  BY <1>1 DEF Submits, StartFailsEarly, Replies, ServeOnly
<1>2. CASE ClientCloses \/ ConnectionBreaks
  BY <1>2 DEF ClientCloses, ConnectionBreaks, Closes
<1>3. CASE CloseReturns
  BY <1>3 DEF CloseReturns, OwnerDropped
<1>4. CASE ServeAborted
  BY <1>4 DEF ServeAborted, OwnerDropped
<1>5. ASSUME NEW j \in OwnJobs, OwnedStart(j) PROVE OwnedInv'
  BY <1>5 DEF OwnedStart, Registers
<1>. QED
  BY <1>1, <1>2, <1>3, <1>4, <1>5

\* A job that was started lives until it is over; the futures of close see that.
LEMMA OwnJobsKeep ==
  ASSUME OwnedInv, NEW j \in OwnJobs,
         \/ CloseGoesOn(j) \/ OwnJobRuns(j) \/ OwnJobEnds(j) \/ StoppedJobEnds(j)
         \/ OwnJobCancelled(j) \/ OwnJobDeleted(j)
  PROVE  OwnedInv'
<1>. USE DEF OwnedInv, OwnerTypes, LiveOwned, LiveJob, CloserKnows, OverSignals, ConnectionOver
<1>1. CASE CloseGoesOn(j)
  BY <1>1 DEF CloseGoesOn, CloseLooks, CloseCancels, CloseWaits, ThenWaits, Goes, CloserOnly
<1>2. CASE ~CloseGoesOn(j)
  BY <1>2 DEF OwnJobRuns, OwnJobEnds, StoppedJobEnds, OwnJobCancelled, OwnJobDeleted,
              OwnJobBecomes, JobsOnly
<1>. QED
  BY <1>1, <1>2

LEMMA OwnersNextInv == OwnedInv /\ [OwnersNext]_ownerVars => OwnedInv'
<1>. SUFFICES ASSUME OwnedInv, [OwnersNext]_ownerVars PROVE OwnedInv'
  OBVIOUS
<1>1. CASE UNCHANGED ownerVars
  BY <1>1 DEF ownerVars, OwnedInv, OwnerTypes, LiveOwned, CloserKnows, OverSignals
<1>. QED
  BY <1>1, ServeKeeps, OwnJobsKeep DEF OwnersNext

\* While a connection closes, the future of each of its jobs ends only when the job
\* has (engine/owner.rs close).
THEOREM OwnerInvariant == OwnersSpec => []OwnedInv
BY OwnersInitInv, OwnersNextInv, PTL DEF OwnersSpec

\* No job outlives its connection unnoticed, for any number of jobs.
THEOREM OwnersHold == OwnersSpec => []OwnedAgree
<1>1. OwnedInv => OwnedAgree
  BY DEF OwnedInv, OverSignals, OwnedAgree
<1>. QED
  BY <1>1, OwnerInvariant, PTL

-----------------------------------------------------------------------------
(* Comparisons: why the record, the scoreboard and the worktrees agree     *)

OpenStates == {"running", "done"}
ClosedStates == {"applied", "discarded"}
StagesOf(kind) ==
    CASE kind = "none" -> {"none"}
      [] kind = "start" -> {"create", "launch", "undo", "remove", "save"}
      [] kind \in {"view", "cancel"} -> {"refresh", "save"}
      [] kind = "keep" -> {"refresh", "apply", "await", "again", "remove", "save"}
      [] kind = "discard" -> {"refresh", "await", "again", "remove", "save"}
      [] kind = "clean" -> {"remove", "save"}

\* A comparison is counted once it is not running, one that was discarded while it
\* ran for nothing, and only an applied one has a winner.
GroupSettled ==
    /\ ~group.countRuns
    /\ group.counted <=> group.state \notin {"none", "running"}
    /\ group.winner # NoLane => group.state = "applied"
    /\ group.state = "none" => \A l \in Lanes : ~group.lanes[l].removed

\* What a copy may say at the stage of its operation.
CopyAtStage ==
    LET kind == compareOp.kind
        stage == compareOp.stage
        applied == kind = "keep" /\ stage \in {"await", "again", "remove", "save"}
    IN /\ stage \in StagesOf(kind)
       /\ kind = "none" => compareOp = NoOp
       /\ kind = "start" => /\ group.state = "none" /\ copyFresh
                            /\ copy.state = "running" /\ ~copy.counted /\ ~copy.countRuns
                            /\ copy.winner = NoLane
       /\ kind \notin {"none", "start"} => group.state # "none" /\ copy.state # "none"
       /\ kind = "keep" => compareOp.pick \in Lanes
       /\ copy.winner # NoLane => copy.state = "applied"
       /\ copy.countRuns => copy.counted /\ copy.state # "running"
       /\ applied => copy.state = "applied" /\ group.state \in OpenStates
       /\ kind = "keep" /\ ~applied => copy.state \in OpenStates
       /\ kind = "keep" => group.state \in OpenStates
       /\ kind = "discard" =>
             /\ group.state \in OpenStates
             /\ copy.state \in IF stage \in {"remove", "save"} THEN {"discarded"} ELSE OpenStates
       /\ kind = "clean" => group.state \in ClosedStates /\ copy.state \in ClosedStates
       /\ ~copy.counted => \/ copy.state \in {"none", "running"}
                           \/ kind = "keep" /\ stage \in {"await", "again"}
       /\ kind = "discard" /\ stage \in {"await", "again"} => copy.counted
       /\ copy.counted /\ copy.state = "running" => kind = "discard" /\ stage \in {"await", "again"}

\* While no other process saves, the copy is ahead of the record by what the
\* operation did.
CopyFollows ==
    copyFresh /\ compareOp.kind \notin {"none", "start"} =>
        /\ group.counted => copy.counted /\ ~copy.countRuns
        /\ copy.counted /\ ~group.counted => copy.countRuns \/ compareOp.kind = "discard"
        /\ group.winner # NoLane => copy.winner = group.winner
        /\ compareOp.kind \in {"view", "cancel", "clean"} =>
              /\ copy.winner = group.winner
              /\ group.state \in ClosedStates => copy.state = group.state
              /\ copy.state \in ClosedStates => group.state = copy.state
        /\ compareOp.kind \in {"view", "cancel"} =>
              \A l \in Lanes : copy.lanes[l].removed = group.lanes[l].removed

\* What an operation that removes worktrees has removed is in its copy, the others
\* are there.
RemovesTrees == compareOp.kind \in {"keep", "discard", "clean"} /\ compareOp.stage \in {"remove", "save"}

TreesFollow ==
    /\ \A l \in Lanes : group.lanes[l].removed \/ copy.lanes[l].removed => laneTree[l] = "gone"
    /\ compareOp.kind = "start" =>
          \A l \in Lanes :
             /\ compareOp.stage = "create" =>
                   laneTree[l] = IF l < compareOp.lane THEN "there" ELSE "none"
             /\ compareOp.stage \in {"launch", "undo", "save"} => laneTree[l] = "there"
    /\ ~unstored /\ ~RemovesTrees =>
          \A l \in Lanes :
             /\ group.state \in OpenStates => laneTree[l] = "there"
             /\ group.state \in ClosedStates /\ ~group.lanes[l].removed =>
                   laneTree[l] = "there" \/ CompareFaults
    /\ ~unstored /\ RemovesTrees /\ ~CompareFaults =>
          \A l \in Lanes : copy.lanes[l].removed \/ laneTree[l] = "there"

\* The inductive invariant of comparisons.
CompareInv ==
    CompareTypes /\ BoardCountsOnce /\ GroupSettled /\ CopyAtStage /\ CopyFollows /\ TreesFollow

LaneTurns == Seq(Unended \cup {"ended"})

\* What the lanes' turns are, whatever happens to them.
LaneTurnsTyped ==
    /\ laneTurns \in [Lanes -> LaneTurns]
    /\ \A l \in Lanes : Len(laneTurns[l]) <= MaxTurns

\* Two records that differ in what their lanes follow at most.
SameButLanes(r, rec) ==
    /\ r.state = rec.state /\ r.counted = rec.counted /\ r.countRuns = rec.countRuns
    /\ r.winner = rec.winner
    /\ \A l \in Lanes : r.lanes[l].removed = rec.lanes[l].removed

CountsNow(state) == state \notin {"running", "discarded"}

\* A turn of a lane is given another state.
LEMMA LaneTurnSet ==
  ASSUME NEW s \in LaneTurns, NEW i \in 1 .. Len(s), NEW v \in Unended \cup {"ended"}
  PROVE  [s EXCEPT ![i] = v] \in LaneTurns /\ Len([s EXCEPT ![i] = v]) = Len(s)
BY DEF LaneTurns

\* A cancellation leaves as many turns.
LEMMA CancelledTyped ==
  ASSUME LaneTurnsTyped, NEW l \in Lanes, NEW i \in Nat
  PROVE  CancelledTurns(l, i) \in LaneTurns /\ Len(CancelledTurns(l, i)) = Len(laneTurns[l])
<1>1. laneTurns[l] \in LaneTurns /\ Len(laneTurns[l]) \in Nat
  BY DEF LaneTurnsTyped, LaneTurns
<1>2. CASE i \in 1 .. Len(laneTurns[l]) /\ laneTurns[l][i] # "ended"
  <2>1. CancelledTurns(l, i) =
           [laneTurns[l] EXCEPT ![i] = IF i \in Front(l) THEN "cancelling" ELSE "ended"]
    BY <1>1, <1>2 DEF CancelledTurns
  <2>2. PICK v : v = IF i \in Front(l) THEN "cancelling" ELSE "ended"
    OBVIOUS
  <2>3. v \in Unended \cup {"ended"}
    BY <2>2 DEF Unended
  <2>4. CancelledTurns(l, i) = [laneTurns[l] EXCEPT ![i] = v]
    BY <2>1, <2>2
  <2>5. /\ [laneTurns[l] EXCEPT ![i] = v] \in LaneTurns
        /\ Len([laneTurns[l] EXCEPT ![i] = v]) = Len(laneTurns[l])
    BY <1>1, <1>2, <2>3, LaneTurnSet
  <2>. QED
    BY <2>4, <2>5
<1>3. CASE ~(i \in 1 .. Len(laneTurns[l]) /\ laneTurns[l][i] # "ended")
  BY <1>1, <1>3 DEF CancelledTurns
<1>. QED
  BY <1>2, <1>3

\* A refresh changes what a lane follows, not whether it was removed.
LEMMA RefreshedLaneIs ==
  ASSUME CompareTypes, NEW rec \in GroupRecord, NEW l \in Lanes, NEW r, r = RefreshedLane(rec, l)
  PROVE  r \in GroupRecord /\ SameButLanes(r, rec)
<1>1. Len(laneTurns[l]) \in 0 .. MaxTurns /\ LatestActive(l) \in BOOLEAN
  <2>1. laneTurns[l] \in Seq(Unended \cup {"ended"}) /\ Len(laneTurns[l]) <= MaxTurns
    BY DEF CompareTypes
  <2>2. Len(laneTurns[l]) \in Nat
    BY <2>1
  <2>3. LatestActive(l) \in BOOLEAN
    BY DEF LatestActive
  <2>. QED
    BY <2>1, <2>2, <2>3, CompareAssumption
<1>2. rec.lanes \in [Lanes -> LaneRecord]
  BY DEF GroupRecord
<1>3. CASE rec.lanes[l].removed
  BY <1>3 DEF RefreshedLane, SameButLanes
<1>4. CASE ~rec.lanes[l].removed
  <2>1. PICK n : n = Len(laneTurns[l])
    OBVIOUS
  <2>2. PICK a : a = LatestActive(l)
    OBVIOUS
  <2>3. r = [rec EXCEPT !.lanes[l] = [rec.lanes[l] EXCEPT !.turn = n, !.active = a]]
    BY <1>4, <2>1, <2>2 DEF RefreshedLane
  <2>4. PICK lane : lane = [rec.lanes[l] EXCEPT !.turn = n, !.active = a]
    OBVIOUS
  <2>5. rec.lanes[l] \in LaneRecord /\ n \in 0 .. MaxTurns /\ a \in BOOLEAN
    BY <1>1, <1>2, <2>1, <2>2
  <2>6. lane \in LaneRecord /\ lane.removed = rec.lanes[l].removed
    BY <2>4, <2>5 DEF LaneRecord
  <2>7. PICK lanes : lanes = [rec.lanes EXCEPT ![l] = lane]
    OBVIOUS
  <2>8. /\ lanes \in [Lanes -> LaneRecord]
        /\ \A m \in Lanes : lanes[m].removed = rec.lanes[m].removed
    BY <1>2, <2>6, <2>7
  <2>9. r = [rec EXCEPT !.lanes = lanes]
    BY <2>3, <2>4, <2>7
  <2>. QED
    BY <2>8, <2>9 DEF GroupRecord, SameButLanes
<1>. QED
  BY <1>3, <1>4

\* The end of a refresh finishes a comparison at most, and counts it when it does.
LEMMA DecidedIs ==
  ASSUME NEW rec \in GroupRecord, NEW r, r = Decided(rec)
  PROVE  /\ r \in GroupRecord /\ r.winner = rec.winner /\ r.lanes = rec.lanes
         /\ r.state = rec.state \/ (rec.state = "running" /\ r.state = "done")
         /\ r.counted <=> rec.counted \/ CountsNow(r.state)
         /\ r.countRuns <=> rec.countRuns \/ (~rec.counted /\ CountsNow(r.state))
<1>. DEFINE over == rec.state = "running" /\ \A l \in Lanes : ~rec.lanes[l].active
            state == IF over THEN "done" ELSE rec.state
            counts == ~rec.counted /\ state \notin {"running", "discarded"}
<1>1. r = [rec EXCEPT !.state = state, !.counted = rec.counted \/ counts,
                      !.countRuns = rec.countRuns \/ counts]
  BY DEF Decided
<1>2. state = rec.state \/ (rec.state = "running" /\ state = "done")
  <2>1. CASE over
    BY <2>1
  <2>2. CASE ~over
    <3>1. state = rec.state
      BY <2>2, Zenon
    <3>. QED
      BY <3>1, Zenon
  <2>. QED
    BY <2>1, <2>2
<1>3. state \in {"none", "running", "done", "applied", "discarded"} /\ counts \in BOOLEAN
  BY DEF GroupRecord
<1>. HIDE DEF over, state
<1>4. r.state = state /\ r.counted = (rec.counted \/ counts) /\ r.countRuns = (rec.countRuns \/ counts)
  BY <1>1 DEF GroupRecord
<1>5. r \in GroupRecord /\ r.winner = rec.winner /\ r.lanes = rec.lanes
  BY <1>1, <1>3 DEF GroupRecord
<1>. QED
  BY <1>2, <1>4, <1>5 DEF CountsNow

\* Before it starts a comparison says nothing.
LEMMA EmptyGroup ==
  /\ NoGroup \in GroupRecord /\ NoGroup.lanes = [l \in Lanes |-> NewLane]
  /\ NoGroup.state = "none" /\ ~NoGroup.counted /\ ~NoGroup.countRuns /\ NoGroup.winner = NoLane
<1>1. NewLane \in LaneRecord
  BY CompareAssumption DEF NewLane, LaneRecord
<1>2. [l \in Lanes |-> NewLane] \in [Lanes -> LaneRecord]
  BY <1>1
<1>. QED
  BY <1>2 DEF NoGroup, GroupRecord

\* What is stored is the record, counted.
LEMMA StoredIs ==
  ASSUME NEW rec \in GroupRecord, Stored(rec)
  PROVE  /\ group' \in GroupRecord /\ ~group'.countRuns
         /\ group'.state = rec.state /\ group'.counted = rec.counted
         /\ group'.winner = rec.winner /\ group'.lanes = rec.lanes
BY DEF Stored, GroupRecord

-----------------------------------------------------------------------------
(* Where operations are                                                    *)

CompareStages == {"none", "create", "launch", "undo", "refresh", "apply", "await", "again", "remove", "save"}
CompareKinds == {"none", "start", "view", "keep", "discard", "clean", "cancel"}

\* The stage of an operation tells its kind.
LEMMA CompareStageKinds ==
  ASSUME CompareInv
  PROVE  /\ compareOp.kind \in CompareKinds
         /\ compareOp.stage \in {"create", "launch", "undo"} => compareOp.kind = "start"
         /\ compareOp.stage = "refresh" => compareOp.kind \in {"view", "cancel", "keep", "discard"}
         /\ compareOp.stage = "apply" => compareOp.kind = "keep"
         /\ compareOp.stage \in {"await", "again"} => compareOp.kind \in {"keep", "discard"}
         /\ compareOp.stage = "remove" => compareOp.kind \in {"start", "keep", "discard", "clean"}
         /\ compareOp.stage # "none" => compareOp.kind # "none"
<1>1. compareOp.kind \in CompareKinds /\ compareOp.stage \in StagesOf(compareOp.kind)
  BY DEF CompareInv, CompareTypes, CopyAtStage, CompareKinds
<1>. QED
  BY <1>1 DEF StagesOf, CompareKinds

\* An operation that moves on stays what it is.
LEMMA OpMoved ==
  ASSUME CompareTypes, NEW stage \in CompareStages, NEW l \in Nat, OpMoves(stage, l)
  PROVE  /\ compareOp'.kind = compareOp.kind /\ compareOp'.pick = compareOp.pick
         /\ compareOp'.stage = stage /\ compareOp'.lane = l
         /\ compareOp' \in [kind : CompareKinds, stage : CompareStages, lane : Nat, pick : {NoLane} \cup Lanes]
BY DEF CompareTypes, OpMoves, CompareKinds, CompareStages

\* An operation that returns leaves no copy.
LEMMA OpReturned ==
  ASSUME OpReturns
  PROVE  /\ CopyAtStage' /\ CopyFollows'
         /\ compareOp' \in [kind : CompareKinds, stage : CompareStages, lane : Nat, pick : {NoLane} \cup Lanes]
         /\ copy' \in GroupRecord /\ ~RemovesTrees' /\ compareOp'.kind = "none"
         /\ \A l \in Lanes : ~copy'.lanes[l].removed
<1>1. compareOp' = NoOp /\ copy' = NoGroup
  BY DEF OpReturns
<1>2. copy' \in GroupRecord /\ \A l \in Lanes : ~copy'.lanes[l].removed
  BY <1>1, CompareAssumption DEF NoGroup, NewLane, GroupRecord, LaneRecord, NoLane
<1>3. /\ compareOp'.kind = "none" /\ compareOp'.stage = "none" /\ compareOp'.lane = 0
      /\ compareOp'.pick = NoLane
  BY <1>1 DEF NoOp, NoLane
<1>4. /\ copy'.state = "none" /\ ~copy'.counted /\ ~copy'.countRuns /\ copy'.winner = NoLane
  BY <1>1 DEF NoGroup
<1>5. CopyAtStage'
  BY <1>1, <1>3, <1>4 DEF CopyAtStage, StagesOf, NoOp
<1>. QED
  BY <1>1, <1>2, <1>3, <1>5 DEF CopyFollows, RemovesTrees, CompareKinds, CompareStages, NoOp, NoLane

\* The scoreboard and the record stay.
LEMMA BoardKept ==
  ASSUME CompareInv, BoardUnchanged
  PROVE  BoardCountsOnce' /\ GroupSettled'
BY DEF CompareInv, BoardUnchanged, BoardCountsOnce, GroupSettled

\* The types, part by part.
LEMMA CompareTypesFrom ==
  ASSUME CompareTypes, LaneTurnsTyped', laneTree' \in [Lanes -> {"none", "there", "gone"}],
         compareOp' \in [kind : CompareKinds, stage : CompareStages, lane : Nat, pick : {NoLane} \cup Lanes],
         copy' \in GroupRecord, copyFresh' \in BOOLEAN, BoardUnchanged
  PROVE  CompareTypes'
BY DEF CompareTypes, LaneTurnsTyped, LaneTurns, BoardUnchanged, CompareKinds, CompareStages

\* What the type invariant says, part by part.
LEMMA CompareTypesGive ==
  ASSUME CompareTypes
  PROVE  /\ LaneTurnsTyped /\ laneTree \in [Lanes -> {"none", "there", "gone"}]
         /\ compareOp \in [kind : CompareKinds, stage : CompareStages, lane : Nat, pick : {NoLane} \cup Lanes]
         /\ copy \in GroupRecord /\ group \in GroupRecord /\ copyFresh \in BOOLEAN
BY DEF CompareTypes, LaneTurnsTyped, LaneTurns, CompareKinds, CompareStages

\* The turns change and nothing else does.
LEMMA CompareTurnsAlone ==
  ASSUME CompareInv, LaneTurnsTyped', OthersUnchanged
  PROVE  CompareInv'
<1>. USE DEF OthersUnchanged
<1>1. CompareTypes'
  BY CompareTypesGive, CompareTypesFrom DEF CompareInv
<1>2. CopyAtStage' /\ CopyFollows' /\ TreesFollow'
  BY DEF CompareInv, CopyAtStage, CopyFollows, TreesFollow, RemovesTrees, BoardUnchanged
<1>. QED
  BY <1>1, <1>2, BoardKept DEF CompareInv

\* The turns of the lanes run beside the operations.
LEMMA LaneTurnsInv ==
  ASSUME CompareInv, NEW l \in Lanes, FollowUp(l) \/ LaneTurnRuns(l) \/ LaneTurnEnds(l)
  PROVE  CompareInv'
<1>1. LaneTurnsTyped /\ laneTurns[l] \in LaneTurns /\ Len(laneTurns[l]) \in Nat
  BY CompareTypesGive DEF CompareInv, LaneTurnsTyped, LaneTurns
<1>2. PICK s \in LaneTurns : laneTurns' = [laneTurns EXCEPT ![l] = s] /\ Len(s) <= MaxTurns
  <2>1. CASE FollowUp(l)
    <3>1. Append(laneTurns[l], "queued") \in LaneTurns
          /\ Len(Append(laneTurns[l], "queued")) = Len(laneTurns[l]) + 1
      BY <1>1 DEF LaneTurns, Unended
    <3>2. Len(laneTurns[l]) < MaxTurns /\ MaxTurns \in Nat
      BY <2>1, CompareAssumption DEF FollowUp
    <3>3. laneTurns' = [laneTurns EXCEPT ![l] = Append(laneTurns[l], "queued")]
      BY <2>1 DEF FollowUp
    <3>4. Len(Append(laneTurns[l], "queued")) <= MaxTurns
      BY <1>1, <3>1, <3>2
    <3>. QED
      BY <3>1, <3>3, <3>4
  <2>2. CASE LaneTurnRuns(l) \/ LaneTurnEnds(l)
    <3>1. PICK i \in Front(l), v \in {"running", "ended"} :
             laneTurns' = [laneTurns EXCEPT ![l][i] = v]
      BY <2>2 DEF LaneTurnRuns, LaneTurnEnds
    <3>2. i \in 1 .. Len(laneTurns[l])
      BY DEF Front
    <3>3. [laneTurns[l] EXCEPT ![i] = v] \in LaneTurns
          /\ Len([laneTurns[l] EXCEPT ![i] = v]) = Len(laneTurns[l])
      BY <1>1, <3>2, LaneTurnSet DEF Unended
    <3>4. laneTurns' = [laneTurns EXCEPT ![l] = [laneTurns[l] EXCEPT ![i] = v]]
      BY <3>1
    <3>. QED
      BY <1>1, <3>3, <3>4 DEF LaneTurnsTyped
  <2>. QED
    BY <2>1, <2>2
<1>3. LaneTurnsTyped'
  BY <1>1, <1>2 DEF LaneTurnsTyped
<1>. QED
  BY <1>3, CompareTurnsAlone DEF FollowUp, LaneTurnRuns, LaneTurnEnds

-----------------------------------------------------------------------------
(* The start                                                               *)

\* A start is the first operation, with no record yet.
LEMMA CompareStartInv == ASSUME CompareInv, CompareStart PROVE CompareInv'
<1>. USE DEF CompareStart
<1>1. copy' \in GroupRecord /\ \A l \in Lanes : ~copy'.lanes[l].removed
  <2>1. /\ copy' = [NoGroup EXCEPT !.state = "running"]
        /\ NoGroup \in GroupRecord /\ NoGroup.lanes = [l \in Lanes |-> NewLane]
    BY EmptyGroup
  <2>2. copy' \in GroupRecord /\ copy'.lanes = NoGroup.lanes
    BY <2>1 DEF GroupRecord
  <2>. QED
    BY <2>1, <2>2 DEF NewLane
<1>2. /\ copy'.state = "running" /\ ~copy'.counted /\ ~copy'.countRuns /\ copy'.winner = NoLane
      /\ compareOp'.kind = "start" /\ compareOp'.stage = "create" /\ compareOp'.lane = 1
      /\ compareOp' \in [kind : CompareKinds, stage : CompareStages, lane : Nat, pick : {NoLane} \cup Lanes]
  BY DEF NoGroup, CompareKinds, CompareStages
<1>3. opsLeft' \in 0 .. MaxOps
  BY CompareAssumption DEF CompareInv, CompareTypes
<1>4. CompareTypes'
  BY <1>1, <1>2, <1>3 DEF CompareInv, CompareTypes, CompareKinds, CompareStages
<1>5. BoardCountsOnce' /\ GroupSettled'
  BY DEF CompareInv, BoardCountsOnce, GroupSettled
<1>6. CopyAtStage' /\ CopyFollows'
  BY <1>2 DEF CopyAtStage, CopyFollows, StagesOf
<1>7. TreesFollow'
  <2>1. group' = group /\ group.state = "none" /\ laneTree' = laneTree /\ ~RemovesTrees'
    BY <1>2 DEF RemovesTrees
  <2>2. \A l \in Lanes : ~group'.lanes[l].removed /\ ~copy'.lanes[l].removed /\ laneTree'[l] = "none"
    BY <1>1, <2>1 DEF CompareInv, GroupSettled
  <2>3. \A l \in Lanes : ~(l < 1)
    BY DEF Lanes
  <2>. QED
    BY <1>2, <2>1, <2>2, <2>3 DEF TreesFollow, OpenStates, ClosedStates
<1>. QED
  BY <1>4, <1>5, <1>6, <1>7 DEF CompareInv

\* While it creates worktrees, the ones before its lane are there.
LEMMA CompareCreatesInv == ASSUME CompareInv, CreatesTree PROVE CompareInv'
<1>. USE DEF CreatesTree, KeepsCopy
<1>1. compareOp.kind = "start" /\ compareOp.lane \in Lanes /\ compareOp.lane \in 1 .. LaneCount
  BY CompareStageKinds DEF Lanes
<1>2. PICK stage \in {"create", "launch", "remove"}, k \in Nat :
         /\ OpMoves(stage, k)
         /\ stage = "create" => k = compareOp.lane + 1
         /\ stage = "launch" => compareOp.lane = LaneCount
         /\ stage = "remove" => laneTree' = laneTree
         /\ stage # "remove" => laneTree' = [laneTree EXCEPT ![compareOp.lane] = "there"]
  BY <1>1, CompareAssumption
<1>3. /\ compareOp'.kind = "start" /\ compareOp'.stage = stage /\ compareOp'.lane = k
      /\ compareOp' \in [kind : CompareKinds, stage : CompareStages, lane : Nat, pick : {NoLane} \cup Lanes]
  BY <1>1, <1>2, OpMoved DEF CompareInv, CompareStages
<1>4. laneTree' \in [Lanes -> {"none", "there", "gone"}]
  BY <1>1, <1>2, CompareTypesGive DEF CompareInv
<1>5. CompareTypes'
  BY <1>3, <1>4, CompareTypesGive, CompareTypesFrom DEF CompareInv, LaneTurnsTyped
<1>6. CopyAtStage' /\ CopyFollows'
  BY <1>1, <1>3 DEF CompareInv, CopyAtStage, CopyFollows, StagesOf, BoardUnchanged
<1>7. TreesFollow'
  <2>1. \A l \in Lanes : laneTree[l] = IF l < compareOp.lane THEN "there" ELSE "none"
    BY <1>1 DEF CompareInv, TreesFollow
  <2>2. \A l \in Lanes : ~group.lanes[l].removed /\ (copy.lanes[l].removed => laneTree[l] = "gone")
    BY <1>1 DEF CompareInv, TreesFollow, CopyAtStage, GroupSettled
  <2>3. \A l \in Lanes : ~copy.lanes[l].removed
    BY <2>1, <2>2
  <2>4. group.state = "none" /\ group' = group /\ copy' = copy
    BY <1>1 DEF CompareInv, CopyAtStage, BoardUnchanged
  <2>5. stage = "create" => \A l \in Lanes : laneTree'[l] = IF l < k THEN "there" ELSE "none"
    BY <1>1, <1>2, <2>1, CompareTypesGive DEF CompareInv, Lanes
  <2>6. stage = "launch" => \A l \in Lanes : laneTree'[l] = "there"
    BY <1>1, <1>2, <2>1, CompareTypesGive, CompareAssumption DEF CompareInv, Lanes
  <2>. QED
    BY <1>3, <2>2, <2>3, <2>4, <2>5, <2>6 DEF TreesFollow, RemovesTrees, OpenStates, ClosedStates
<1>. QED
  BY <1>5, <1>6, <1>7, BoardKept DEF CompareInv

\* A step of the start that leaves the worktrees alone.
LEMMA CompareStartGoesOn ==
  ASSUME CompareInv, compareOp.kind = "start", compareOp.stage # "create",
         NEW stage \in {"launch", "undo", "remove", "save"}, NEW k \in Nat,
         OpMoves(stage, k) \/ (compareOp' = compareOp /\ stage = compareOp.stage),
         stage = "remove" \/ compareOp.stage # "remove",
         copy' \in GroupRecord, SameButLanes(copy', copy), LaneTurnsTyped',
         UNCHANGED <<laneTree, copyFresh>>, BoardUnchanged
  PROVE  CompareInv'
<1>1. /\ compareOp'.kind = "start" /\ compareOp'.stage = stage
      /\ compareOp' \in [kind : CompareKinds, stage : CompareStages, lane : Nat, pick : {NoLane} \cup Lanes]
  BY OpMoved, CompareTypesGive DEF CompareInv, CompareStages
<1>2. CompareTypes'
  BY <1>1, CompareTypesGive, CompareTypesFrom DEF CompareInv
<1>3. CopyAtStage' /\ CopyFollows'
  BY <1>1 DEF CompareInv, CopyAtStage, CopyFollows, StagesOf, BoardUnchanged, SameButLanes
<1>4. TreesFollow'
  <2>1. compareOp.stage \in {"launch", "undo", "remove", "save"}
    BY DEF CompareInv, CopyAtStage, StagesOf
  <2>2. stage # "remove" => \A l \in Lanes : laneTree[l] = "there"
    BY <2>1 DEF CompareInv, TreesFollow
  <2>3. group.state = "none" /\ group' = group
    BY DEF CompareInv, CopyAtStage, BoardUnchanged
  <2>4. \A l \in Lanes : group.lanes[l].removed \/ copy'.lanes[l].removed => laneTree[l] = "gone"
    BY DEF CompareInv, TreesFollow, SameButLanes
  <2>. QED
    BY <1>1, <2>2, <2>3, <2>4 DEF TreesFollow, RemovesTrees, OpenStates, ClosedStates
<1>. QED
  BY <1>2, <1>3, <1>4, BoardKept DEF CompareInv

LEMMA SameAsItself == SameButLanes(copy, copy)
BY DEF SameButLanes

\* When it launches turns every worktree is there.
LEMMA CompareLaunchesInv == ASSUME CompareInv, LaunchesTurn PROVE CompareInv'
<1>. USE DEF LaunchesTurn
<1>1. compareOp.kind = "start" /\ compareOp.stage = "launch" /\ compareOp.lane \in Lanes
  BY CompareStageKinds
<1>2. PICK stage \in {"launch", "undo", "save"}, k \in Nat : OpMoves(stage, k)
  BY <1>1, CompareAssumption DEF Lanes
<1>3. LaneTurnsTyped'
  <2>1. <<"queued">> \in LaneTurns /\ Len(<<"queued">>) = 1
    BY DEF LaneTurns, Unended
  <2>. QED
    <3>1. laneTurns \in [Lanes -> LaneTurns] /\ \A l \in Lanes : Len(laneTurns[l]) <= MaxTurns
      BY CompareTypesGive DEF CompareInv, LaneTurnsTyped
    <3>2. CASE laneTurns' = laneTurns
      BY <3>1, <3>2 DEF LaneTurnsTyped
    <3>3. CASE laneTurns' = [laneTurns EXCEPT ![compareOp.lane] = <<"queued">>]
      <4>1. laneTurns' \in [Lanes -> LaneTurns]
        BY <1>1, <2>1, <3>1, <3>3
      <4>2. ASSUME NEW l \in Lanes PROVE Len(laneTurns'[l]) <= MaxTurns
        <5>1. laneTurns'[l] = laneTurns[l] \/ laneTurns'[l] = <<"queued">>
          BY <1>1, <3>1, <3>3
        <5>2. 1 <= MaxTurns
          BY CompareAssumption
        <5>. QED
          BY <2>1, <3>1, <5>1, <5>2
      <4>. QED
        BY <4>1, <4>2 DEF LaneTurnsTyped
    <3>. QED
      BY <3>2, <3>3
<1>4. copy' \in GroupRecord /\ SameButLanes(copy', copy)
  <2>1. copy \in GroupRecord /\ copy.lanes \in [Lanes -> LaneRecord] /\ 1 \in 0 .. MaxTurns
    BY CompareTypesGive, CompareAssumption DEF CompareInv, GroupRecord
  <2>2. CASE copy' = copy
    BY <2>1, <2>2, SameAsItself
  <2>3. CASE copy' = [copy EXCEPT !.lanes[compareOp.lane].turn = 1]
    BY <1>1, <2>1, <2>3 DEF GroupRecord, LaneRecord, SameButLanes
  <2>. QED
    BY <2>2, <2>3
<1>. QED
  BY <1>1, <1>2, <1>3, <1>4, CompareStartGoesOn

\* A launch that failed cancels the turns and keeps the worktrees till then.
LEMMA CompareUndoesInv == ASSUME CompareInv, UndoesLaunch PROVE CompareInv'
<1>. USE DEF UndoesLaunch
<1>1. compareOp.kind = "start" /\ compareOp.stage = "undo" /\ compareOp.lane \in Lanes
  BY CompareStageKinds
<1>2. PICK stage \in {"undo", "remove"}, k \in Nat :
         OpMoves(stage, k) \/ (compareOp' = compareOp /\ stage = compareOp.stage)
  BY <1>1, CompareAssumption DEF Lanes
<1>3. LaneTurnsTyped'
  <2>1. copy.lanes[compareOp.lane].turn \in Nat
    BY <1>1, CompareTypesGive, CompareAssumption DEF CompareInv, GroupRecord, LaneRecord
  <2>2. /\ UndoneTurns(compareOp.lane) \in LaneTurns
        /\ Len(UndoneTurns(compareOp.lane)) = Len(laneTurns[compareOp.lane])
    BY <1>1, <2>1, CompareTypesGive, CancelledTyped DEF CompareInv, UndoneTurns
  <2>3. laneTurns' = [laneTurns EXCEPT ![compareOp.lane] = UndoneTurns(compareOp.lane)]
    OBVIOUS
  <2>. QED
    BY <1>1, <2>2, <2>3, CompareTypesGive DEF CompareInv, LaneTurnsTyped
<1>4. copy' = copy /\ copy \in GroupRecord /\ UNCHANGED <<laneTree, copyFresh>> /\ BoardUnchanged
  BY CompareTypesGive DEF KeepsCopy, CompareInv
<1>. QED
  BY <1>1, <1>2, <1>3, <1>4, CompareStartGoesOn, SameAsItself

-----------------------------------------------------------------------------
(* Loading the record and refreshing it                                    *)

\* Loading for a cancellation cancels turns.
LEMMA CompareLoadsTurns ==
  ASSUME CompareTypes, NEW kind \in CompareKinds, NEW pick \in {NoLane} \cup Lanes, CompareLoads(kind, pick)
  PROVE  LaneTurnsTyped'
<1>1. CASE kind = "cancel"
  <2>1. ASSUME NEW l \in Lanes
        PROVE  laneTurns'[l] \in LaneTurns /\ Len(laneTurns'[l]) <= MaxTurns
    <3>1. group.lanes[l].turn \in Nat
      BY CompareTypesGive, CompareAssumption DEF GroupRecord, LaneRecord
    <3>2. /\ CancelledTurns(l, group.lanes[l].turn) \in LaneTurns
          /\ Len(CancelledTurns(l, group.lanes[l].turn)) = Len(laneTurns[l])
      BY <3>1, CompareTypesGive, CancelledTyped
    <3>3. laneTurns'[l] \in {laneTurns[l], CancelledTurns(l, group.lanes[l].turn)}
      BY <1>1 DEF CompareLoads
    <3>. QED
      BY <3>2, <3>3, CompareTypesGive DEF LaneTurnsTyped
  <2>2. laneTurns' = [l \in Lanes |-> laneTurns'[l]]
    BY <1>1 DEF CompareLoads
  <2>. QED
    BY <2>1, <2>2 DEF LaneTurnsTyped
<1>2. CASE kind # "cancel"
  BY <1>2, CompareTypesGive DEF CompareLoads, LaneTurnsTyped
<1>. QED
  BY <1>1, <1>2

\* A copy that was just loaded is the record.
LEMMA CompareLoadsInv ==
  ASSUME CompareInv, NEW asked \in {"view", "keep", "discard", "cancel"},
         NEW pick \in {NoLane} \cup Lanes, asked = "keep" => pick \in Lanes,
         CompareLoads(asked, pick)
  PROVE  CompareInv'
<1>1. /\ compareOp = NoOp /\ group.state # "none"
      /\ copy' = group /\ group' = group /\ copyFresh'
      /\ UNCHANGED <<laneTree, group, boardRuns, boardWins, otherSavesLeft, unstored>>
      /\ opsLeft' \in 0 .. MaxOps
  BY CompareAssumption DEF CompareLoads, CompareInv, CompareTypes
<1>2. PICK kind \in {"view", "keep", "discard", "clean", "cancel"}, stage \in {"refresh", "remove"} :
         /\ compareOp' = [kind |-> kind, stage |-> stage, lane |-> 1, pick |-> pick]
         /\ kind = "keep" => group.state \in OpenStates /\ pick \in Lanes
         /\ kind = "discard" => group.state \in OpenStates
         /\ kind = "clean" => group.state \in ClosedStates
         /\ (stage = "remove") <=> (kind = "clean")
  BY <1>1, CompareTypesGive DEF CompareLoads, CompareInv, GroupRecord, OpenStates, ClosedStates
<1>3. /\ compareOp'.kind = kind /\ compareOp'.stage = stage /\ compareOp'.pick = pick
      /\ compareOp' \in [kind : CompareKinds, stage : CompareStages, lane : Nat, pick : {NoLane} \cup Lanes]
  BY <1>2 DEF CompareKinds, CompareStages
<1>4. CompareTypes'
  <2>1. LaneTurnsTyped'
    BY CompareLoadsTurns DEF CompareInv, CompareKinds
  <2>. QED
    BY <1>1, <1>3, <2>1 DEF CompareInv, CompareTypes, LaneTurnsTyped, LaneTurns, CompareKinds, CompareStages
<1>5. BoardCountsOnce' /\ GroupSettled'
  BY <1>1 DEF CompareInv, BoardCountsOnce, GroupSettled
<1>6. CopyAtStage'
  BY <1>1, <1>2, <1>3 DEF CopyAtStage, StagesOf, CompareInv, GroupSettled, OpenStates, ClosedStates
<1>7. CopyFollows'
  BY <1>1, <1>2, <1>3 DEF CopyFollows, CompareInv, GroupSettled
<1>8. TreesFollow'
  <2>1. ~RemovesTrees
    BY <1>1 DEF RemovesTrees, NoOp
  <2>2. RemovesTrees' => group.state \in ClosedStates
    BY <1>2, <1>3 DEF RemovesTrees
  <2>. QED
    BY <1>1, <1>2, <1>3, <2>1, <2>2, CompareTypesGive DEF TreesFollow, CompareInv, OpenStates, ClosedStates
<1>. QED
  BY <1>4, <1>5, <1>6, <1>7, <1>8 DEF CompareInv

\* A step of an operation that moves on, changes no worktree and lets the invariant
\* of its copy hold.
LEMMA CompareGoesOn ==
  ASSUME CompareInv, compareOp.kind \notin {"none", "start"}, ~RemovesTrees,
         NEW stage \in CompareStages, NEW k \in Nat, OpMoves(stage, k),
         LaneTurnsTyped', copy' \in GroupRecord,
         \A l \in Lanes : copy'.lanes[l].removed = copy.lanes[l].removed,
         UNCHANGED <<laneTree, copyFresh>>, BoardUnchanged,
         CopyAtStage', CopyFollows', RemovesTrees' => group.state \in OpenStates
  PROVE  CompareInv'
<1>1. /\ compareOp'.kind = compareOp.kind /\ compareOp'.stage = stage
      /\ compareOp' \in [kind : CompareKinds, stage : CompareStages, lane : Nat, pick : {NoLane} \cup Lanes]
  BY OpMoved DEF CompareInv
<1>2. CompareTypes'
  BY <1>1, CompareTypesGive, CompareTypesFrom DEF CompareInv
<1>3. TreesFollow'
  BY <1>1 DEF TreesFollow, CompareInv, BoardUnchanged, OpenStates, ClosedStates, RemovesTrees
<1>. QED
  BY <1>2, <1>3, BoardKept DEF CompareInv

\* An operation is over before it removed anything.
LEMMA CompareGivesUp ==
  ASSUME CompareInv, compareOp.kind # "none", ~RemovesTrees, OpReturns, LaneTurnsTyped',
         UNCHANGED <<laneTree, copyFresh>>, BoardUnchanged
  PROVE  CompareInv'
<1>1. CompareTypes'
  BY OpReturned, CompareTypesGive, CompareTypesFrom DEF CompareInv
<1>2. TreesFollow'
  BY OpReturned DEF TreesFollow, CompareInv, BoardUnchanged
<1>. QED
  BY <1>1, <1>2, OpReturned, BoardKept DEF CompareInv

\* The copy after a lane of it was refreshed, and after the last one.
LEMMA CompareRefreshesInv == ASSUME CompareInv, RefreshesLane PROVE CompareInv'
<1>. DEFINE kind == compareOp.kind
<1>1. /\ kind \in {"view", "cancel", "keep", "discard"}
      /\ compareOp.stage = "again" => kind \in {"keep", "discard"}
      /\ compareOp.stage \in {"refresh", "again"} /\ compareOp.lane \in Lanes
      /\ kind \notin {"none", "start"} /\ ~RemovesTrees /\ compareOp.lane + 1 \in Nat
  BY CompareStageKinds, CompareAssumption DEF RefreshesLane, RemovesTrees, Lanes
<1>2. PICK one : one = RefreshedLane(copy, compareOp.lane)
  OBVIOUS
<1>3. one \in GroupRecord /\ SameButLanes(one, copy)
  BY <1>1, <1>2, CompareTypesGive, RefreshedLaneIs DEF CompareInv
<1>4. PICK d : d = Decided(one)
  OBVIOUS
<1>5. /\ d \in GroupRecord /\ d.winner = copy.winner
      /\ \A l \in Lanes : d.lanes[l].removed = copy.lanes[l].removed
      /\ d.state = copy.state \/ (copy.state = "running" /\ d.state = "done")
      /\ d.counted <=> copy.counted \/ CountsNow(d.state)
      /\ d.countRuns <=> copy.countRuns \/ (~copy.counted /\ CountsNow(d.state))
  BY <1>3, <1>4, DecidedIs DEF SameButLanes
<1>6. /\ LaneTurnsTyped' /\ UNCHANGED <<laneTree, copyFresh>> /\ BoardUnchanged
      /\ group' = group /\ copyFresh' = copyFresh
  BY CompareTypesGive DEF RefreshesLane, BoardUnchanged, CompareInv, LaneTurnsTyped
<1>7. CASE compareOp.lane < LaneCount
  <2>1. copy' = one /\ OpMoves(compareOp.stage, compareOp.lane + 1)
    BY <1>2, <1>7 DEF RefreshesLane
  <2>2. compareOp'.kind = kind /\ compareOp'.stage = compareOp.stage /\ compareOp'.pick = compareOp.pick
    BY <1>1, <2>1, OpMoved DEF CompareInv, CompareStages
  <2>3. CopyAtStage'
    BY <1>1, <1>3, <1>6, <2>1, <2>2 DEF CompareInv, CopyAtStage, SameButLanes
  <2>4. CopyFollows'
    BY <1>1, <1>3, <1>6, <2>1, <2>2 DEF CompareInv, CopyFollows, SameButLanes
  <2>. QED
    BY <1>1, <1>3, <1>6, <2>1, <2>2, <2>3, <2>4, CompareGoesOn DEF SameButLanes, RemovesTrees, CompareStages
<1>8. CASE ~(compareOp.lane < LaneCount) /\ compareOp.stage = "again"
  <2>1. /\ copy' = IF kind = "discard" THEN [d EXCEPT !.state = "discarded"] ELSE d
        /\ OpMoves("remove", 1)
    BY <1>2, <1>4, <1>8 DEF RefreshesLane
  <2>2. compareOp'.kind = kind /\ compareOp'.stage = "remove" /\ compareOp'.pick = compareOp.pick
    BY <1>1, <2>1, OpMoved DEF CompareInv, CompareStages
  <2>3. /\ copy' \in GroupRecord /\ copy'.winner = d.winner /\ copy'.lanes = d.lanes
        /\ copy'.counted = d.counted /\ copy'.countRuns = d.countRuns
        /\ copy'.state = IF kind = "discard" THEN "discarded" ELSE d.state
    BY <1>5, <2>1 DEF GroupRecord
  <2>4. /\ group.state \in OpenStates /\ group.winner = NoLane
        /\ kind = "keep" => copy.state = "applied" /\ compareOp.pick \in Lanes
        /\ kind = "discard" => copy.state \in OpenStates /\ copy.counted /\ copy.winner = NoLane
        /\ copy.countRuns => copy.counted
    BY <1>1, <1>8 DEF CompareInv, CopyAtStage, GroupSettled, OpenStates
  <2>5. kind \in {"keep", "discard"} /\ compareOp'.stage = "remove"
    BY <1>1, <1>8, <2>2
  <2>6. ASSUME kind = "keep" PROVE CopyAtStage' /\ CopyFollows'
    <3>1. /\ copy'.state = "applied" /\ copy'.winner = copy.winner /\ copy'.counted
          /\ copy'.countRuns <=> copy.countRuns \/ ~copy.counted
      BY <1>5, <2>3, <2>4, <2>6 DEF CountsNow
    <3>2. CopyAtStage'
      BY <1>6, <2>2, <2>4, <2>5, <2>6, <3>1 DEF CopyAtStage, StagesOf, OpenStates
    <3>3. CopyFollows'
      BY <1>6, <2>2, <2>4, <2>6, <3>1 DEF CompareInv, CopyFollows
    <3>. QED
      BY <3>2, <3>3
  <2>7. ASSUME kind = "discard" PROVE CopyAtStage' /\ CopyFollows'
    <3>1. /\ copy'.state = "discarded" /\ copy'.winner = NoLane /\ copy'.counted
          /\ copy'.countRuns <=> copy.countRuns
      BY <1>5, <2>3, <2>4, <2>7
    <3>2. CopyAtStage'
      BY <1>6, <2>2, <2>4, <2>5, <2>7, <3>1 DEF CopyAtStage, StagesOf, OpenStates
    <3>3. CopyFollows'
      BY <1>6, <2>2, <2>4, <2>7, <3>1 DEF CompareInv, CopyFollows
    <3>. QED
      BY <3>2, <3>3
  <2>. QED
    BY <1>1, <1>5, <1>6, <2>1, <2>3, <2>4, <2>5, <2>6, <2>7, CompareGoesOn DEF CompareStages
<1>9. CASE ~(compareOp.lane < LaneCount) /\ compareOp.stage = "refresh"
  <2>1. PICK stage \in {"apply", "await", "save"} :
           /\ copy' = IF kind = "discard" /\ d.state = "running"
                      THEN [d EXCEPT !.counted = TRUE] ELSE d
           /\ OpMoves(stage, 0)
           /\ (stage = "apply") <=> (kind = "keep")
           /\ (stage = "await") <=> (kind = "discard")
    BY <1>1, <1>2, <1>4, <1>9 DEF RefreshesLane
  <2>2. compareOp'.kind = kind /\ compareOp'.stage = stage /\ compareOp'.pick = compareOp.pick
    BY <1>1, <2>1, OpMoved DEF CompareInv, CompareStages
  <2>3. /\ copy' \in GroupRecord /\ copy'.winner = d.winner /\ copy'.lanes = d.lanes
        /\ copy'.state = d.state /\ copy'.countRuns = d.countRuns
        /\ copy'.counted <=> d.counted \/ (kind = "discard" /\ d.state = "running")
    BY <1>5, <2>1 DEF GroupRecord
  <2>4. /\ group.state # "none" /\ copy.state # "none"
        /\ copy.winner # NoLane => copy.state = "applied"
        /\ copy.counted <=> copy.state # "running"
        /\ copy.countRuns => copy.counted
        /\ kind \in {"keep", "discard"} => group.state \in OpenStates /\ copy.state \in OpenStates
        /\ kind = "keep" => compareOp.pick \in Lanes
    BY <1>1, <1>9 DEF CompareInv, CopyAtStage
  <2>5. CopyAtStage'
    BY <1>1, <1>5, <1>6, <2>1, <2>2, <2>3, <2>4
       DEF CopyAtStage, StagesOf, CountsNow, OpenStates
  <2>6. CopyFollows'
    BY <1>1, <1>5, <1>6, <2>1, <2>2, <2>3, <2>4 DEF CompareInv, CopyFollows, CountsNow, ClosedStates
  <2>7. ~RemovesTrees'
    BY <1>1, <2>1, <2>2 DEF RemovesTrees
  <2>. QED
    BY <1>1, <1>5, <1>6, <2>1, <2>3, <2>5, <2>6, <2>7, CompareGoesOn DEF CompareStages
<1>. QED
  BY <1>1, <1>7, <1>8, <1>9

-----------------------------------------------------------------------------
(* keep, discard and cancel                                                *)

\* keep makes its lane the winner of an open comparison.
LEMMA CompareAppliesInv == ASSUME CompareInv, KeepApplies PROVE CompareInv'
<1>1. /\ compareOp.kind = "keep" /\ compareOp.stage = "apply" /\ ~RemovesTrees
      /\ copy.state \in OpenStates /\ group.state \in OpenStates /\ compareOp.pick \in Lanes
      /\ group.winner = NoLane /\ copy \in GroupRecord
  BY CompareStageKinds, CompareTypesGive DEF KeepApplies, CompareInv, CopyAtStage, GroupSettled, RemovesTrees, OpenStates
<1>2. /\ LaneTurnsTyped' /\ UNCHANGED <<laneTree, copyFresh>> /\ BoardUnchanged
      /\ group' = group /\ copyFresh' = copyFresh
  BY CompareTypesGive DEF KeepApplies, BoardUnchanged, CompareInv, LaneTurnsTyped
<1>3. CASE OpReturns
  BY <1>1, <1>2, <1>3, CompareGivesUp
<1>4. CASE /\ copy' = [copy EXCEPT !.winner = compareOp.pick, !.state = "applied"]
           /\ OpMoves("await", 0)
  <2>1. compareOp'.kind = "keep" /\ compareOp'.stage = "await" /\ compareOp'.pick = compareOp.pick
    BY <1>1, <1>4, OpMoved DEF CompareInv, CompareStages
  <2>2. /\ copy' \in GroupRecord /\ copy'.lanes = copy.lanes /\ copy'.state = "applied"
        /\ copy'.counted = copy.counted /\ copy'.countRuns = copy.countRuns
    BY <1>1, <1>4 DEF GroupRecord
  <2>3. CopyAtStage'
    BY <1>1, <1>2, <2>1, <2>2 DEF CompareInv, CopyAtStage, StagesOf, OpenStates
  <2>4. CopyFollows'
    BY <1>1, <1>2, <2>1, <2>2 DEF CompareInv, CopyFollows
  <2>. QED
    BY <1>1, <1>2, <1>4, <2>1, <2>2, <2>3, <2>4, CompareGoesOn DEF CompareStages, RemovesTrees
<1>. QED
  BY <1>3, <1>4 DEF KeepApplies

LEMMA CompareStopsInv == ASSUME CompareInv, StopsLanes PROVE CompareInv'
<1>1. compareOp.kind \in {"keep", "discard"} /\ compareOp.stage = "await" /\ ~RemovesTrees
  BY CompareStageKinds DEF StopsLanes, RemovesTrees
<1>2. LaneTurnsTyped'
  <2>1. ASSUME NEW l \in Lanes
        PROVE  laneTurns'[l] \in LaneTurns /\ Len(laneTurns'[l]) <= MaxTurns
    <3>1. copy.lanes[l].turn \in Nat
      BY CompareTypesGive, CompareAssumption DEF CompareInv, GroupRecord, LaneRecord
    <3>2. /\ CancelledTurns(l, copy.lanes[l].turn) \in LaneTurns
          /\ Len(CancelledTurns(l, copy.lanes[l].turn)) = Len(laneTurns[l])
      BY <3>1, CompareTypesGive, CancelledTyped DEF CompareInv
    <3>3. laneTurns'[l] \in {laneTurns[l], CancelledTurns(l, copy.lanes[l].turn)}
      BY DEF StopsLanes
    <3>. QED
      BY <3>2, <3>3, CompareTypesGive DEF CompareInv, LaneTurnsTyped
  <2>2. laneTurns' = [l \in Lanes |-> laneTurns'[l]]
    BY DEF StopsLanes
  <2>. QED
    BY <2>1, <2>2 DEF LaneTurnsTyped
<1>3. /\ OpMoves("await", 1) /\ UNCHANGED <<laneTree, copyFresh, copy, group>> /\ BoardUnchanged
      /\ copy \in GroupRecord
  BY CompareTypesGive DEF StopsLanes, KeepsCopy, BoardUnchanged, CompareInv
<1>4. /\ compareOp'.kind = compareOp.kind /\ compareOp'.stage = compareOp.stage
      /\ compareOp'.pick = compareOp.pick
  BY <1>1, <1>3, OpMoved DEF CompareInv, CompareStages
<1>5. CopyAtStage' /\ CopyFollows'
  BY <1>1, <1>3, <1>4 DEF CompareInv, CopyAtStage, CopyFollows
<1>. QED
  BY <1>1, <1>2, <1>3, <1>4, <1>5, CompareGoesOn DEF CompareStages, RemovesTrees

LEMMA CompareAwaitsInv == ASSUME CompareInv, AwaitsLane PROVE CompareInv'
<1>1. /\ compareOp.kind \in {"keep", "discard"} /\ compareOp.stage = "await" /\ ~RemovesTrees
      /\ compareOp.lane \in Lanes
  BY CompareStageKinds DEF AwaitsLane, RemovesTrees
<1>2. /\ LaneTurnsTyped' /\ UNCHANGED <<laneTree, copyFresh>> /\ BoardUnchanged
      /\ group' = group /\ copyFresh' = copyFresh /\ copy \in GroupRecord
  BY CompareTypesGive DEF AwaitsLane, BoardUnchanged, CompareInv, LaneTurnsTyped
<1>3. CASE OpReturns
  BY <1>1, <1>2, <1>3, CompareGivesUp
<1>4. CASE copy' = copy /\ \E stage \in {"await", "again"}, k \in Nat : OpMoves(stage, k)
  <2>1. PICK stage \in {"await", "again"}, k \in Nat : OpMoves(stage, k)
    BY <1>4
  <2>2. /\ compareOp'.kind = compareOp.kind /\ compareOp'.stage = stage
        /\ compareOp'.pick = compareOp.pick
    BY <1>1, <2>1, OpMoved DEF CompareInv, CompareStages
  <2>3. CopyAtStage' /\ CopyFollows'
    BY <1>1, <1>2, <1>4, <2>2 DEF CompareInv, CopyAtStage, CopyFollows, StagesOf
  <2>. QED
    BY <1>1, <1>2, <1>4, <2>1, <2>2, <2>3, CompareGoesOn DEF CompareStages, RemovesTrees
<1>5. compareOp.lane + 1 \in Nat
  BY <1>1, CompareAssumption DEF Lanes
<1>. QED
  BY <1>3, <1>4, <1>5 DEF AwaitsLane

\* What was removed is marked in the copy, whether it can be told or not.
LEMMA CompareRemovesInv == ASSUME CompareInv, RemovesLane PROVE CompareInv'
<1>. DEFINE l == compareOp.lane
<1>1. /\ compareOp.kind \in {"start", "keep", "discard", "clean"} /\ compareOp.stage = "remove"
      /\ l \in Lanes /\ l + 1 \in Nat
  BY CompareStageKinds, CompareAssumption DEF RemovesLane, Lanes
<1>2. PICK gone \in {FALSE, ~copy.lanes[l].removed /\ laneTree[l] # "none"}, told \in BOOLEAN :
         /\ told => gone
         /\ gone => told \/ CompareFaults
         /\ laneTree' = IF gone THEN [laneTree EXCEPT ![l] = "gone"] ELSE laneTree
         /\ \/ l = LaneCount /\ compareOp.kind = "start" /\ OpReturns
            \/ /\ copy' = Marked(l, told)
               /\ \/ OpMoves("remove", l + 1)
                  \/ compareOp.kind # "start" /\ OpMoves("save", 1)
  <2>1. l < LaneCount \/ l = LaneCount
    BY <1>1, CompareAssumption DEF Lanes
  <2>2. CASE l < LaneCount
    <3>1. l # LaneCount
      BY <1>1, <2>2, CompareAssumption DEF Lanes
    <3>. QED
      BY <2>2, <3>1 DEF RemovesLane
  <2>3. CASE l = LaneCount
    <3>1. ~(l < LaneCount)
      BY <1>1, <2>3, CompareAssumption DEF Lanes
    <3>. QED
      BY <2>3, <3>1 DEF RemovesLane
  <2>. QED
    BY <2>1, <2>2, <2>3
<1>3. /\ LaneTurnsTyped' /\ BoardUnchanged /\ group' = group /\ copyFresh' = copyFresh
      /\ unstored' = unstored /\ copyFresh \in BOOLEAN
  BY CompareTypesGive DEF RemovesLane, BoardUnchanged, CompareInv, LaneTurnsTyped
<1>4. /\ laneTree' \in [Lanes -> {"none", "there", "gone"}]
      /\ laneTree'[l] = IF gone THEN "gone" ELSE laneTree[l]
      /\ \A m \in Lanes \ {l} : laneTree'[m] = laneTree[m]
  BY <1>1, <1>2, CompareTypesGive DEF CompareInv
<1>5. \A m \in Lanes : group.lanes[m].removed \/ copy.lanes[m].removed => laneTree'[m] = "gone"
  BY <1>4 DEF CompareInv, TreesFollow
<1>6. CASE l = LaneCount /\ compareOp.kind = "start" /\ OpReturns
  <2>1. CompareTypes'
    BY <1>3, <1>4, <1>6, OpReturned, CompareTypesFrom DEF CompareInv
  <2>2. group.state = "none"
    BY <1>6 DEF CompareInv, CopyAtStage
  <2>3. TreesFollow'
    BY <1>3, <1>5, <1>6, <2>2, OpReturned DEF TreesFollow, OpenStates, ClosedStates
  <2>. QED
    BY <1>3, <1>6, <2>1, <2>3, OpReturned, BoardKept DEF CompareInv
<1>7. CASE /\ copy' = Marked(l, told)
           /\ \/ OpMoves("remove", l + 1)
              \/ compareOp.kind # "start" /\ OpMoves("save", 1)
  <2>1. PICK stage \in {"remove", "save"}, k \in Nat :
           OpMoves(stage, k) /\ (compareOp.kind = "start" => stage = "remove")
    BY <1>1, <1>7
  <2>2. /\ compareOp'.kind = compareOp.kind /\ compareOp'.stage = stage
        /\ compareOp'.pick = compareOp.pick
        /\ compareOp' \in [kind : CompareKinds, stage : CompareStages, lane : Nat, pick : {NoLane} \cup Lanes]
    BY <2>1, OpMoved DEF CompareInv, CompareStages
  <2>3. /\ copy' \in GroupRecord /\ copy'.state = copy.state /\ copy'.counted = copy.counted
        /\ copy'.countRuns = copy.countRuns /\ copy'.winner = copy.winner
        /\ copy'.lanes[l].removed <=> copy.lanes[l].removed \/ told
        /\ \A m \in Lanes \ {l} : copy'.lanes[m].removed = copy.lanes[m].removed
    <3>1. copy \in GroupRecord /\ copy.lanes \in [Lanes -> LaneRecord] /\ copy.lanes[l] \in LaneRecord
      BY <1>1, CompareTypesGive DEF CompareInv, GroupRecord
    <3>2. (copy.lanes[l].removed \/ told) \in BOOLEAN
      OBVIOUS
    <3>3. copy' = [copy EXCEPT !.lanes = [copy.lanes EXCEPT
                      ![l] = [copy.lanes[l] EXCEPT !.removed = copy.lanes[l].removed \/ told]]]
      BY <1>7 DEF Marked
    <3>4. [copy.lanes[l] EXCEPT !.removed = copy.lanes[l].removed \/ told] \in LaneRecord
      BY <3>1, <3>2 DEF LaneRecord
    <3>. QED
      BY <1>1, <3>1, <3>3, <3>4 DEF GroupRecord, LaneRecord
  <2>4. CompareTypes'
    BY <1>3, <1>4, <2>2, <2>3, CompareTypesFrom DEF CompareInv
  <2>5. CopyAtStage'
    BY <1>1, <1>3, <2>1, <2>2, <2>3 DEF CompareInv, CopyAtStage, StagesOf
  <2>6. CopyFollows'
    BY <1>1, <1>3, <2>2, <2>3 DEF CompareInv, CopyFollows
  <2>7. TreesFollow'
    <3>1. \A m \in Lanes : group.lanes[m].removed \/ copy'.lanes[m].removed => laneTree'[m] = "gone"
      BY <1>2, <1>4, <1>5, <2>3
    <3>2. CASE compareOp.kind = "start"
      <4>1. group.state = "none"
        BY <3>2 DEF CompareInv, CopyAtStage
      <4>. QED
        BY <1>3, <2>1, <2>2, <3>1, <3>2, <4>1 DEF TreesFollow, RemovesTrees, OpenStates, ClosedStates
    <3>3. CASE compareOp.kind # "start"
      <4>1. RemovesTrees /\ RemovesTrees'
        BY <1>1, <2>1, <2>2, <3>3 DEF RemovesTrees
      <4>2. ~unstored /\ ~CompareFaults =>
               \A m \in Lanes : copy'.lanes[m].removed \/ laneTree'[m] = "there"
        BY <1>2, <1>4, <2>3, <4>1 DEF CompareInv, TreesFollow
      <4>. QED
        BY <1>3, <2>2, <3>1, <3>3, <4>1, <4>2 DEF TreesFollow
    <3>. QED
      BY <3>2, <3>3
  <2>. QED
    BY <1>3, <2>4, <2>5, <2>6, <2>7, BoardKept DEF CompareInv
<1>. QED
  BY <1>2, <1>6, <1>7

-----------------------------------------------------------------------------
(* Saving the record                                                       *)

\* A record that may be stored: it says done or applied when it is counted, and
\* counts for the scoreboard what nobody has counted.
LEMMA StoresOnce ==
  ASSUME CompareInv, NEW rec \in GroupRecord, Stored(rec), rec.state # "none",
         rec.counted <=> rec.state # "running",
         group.counted => rec.counted /\ ~rec.countRuns,
         rec.countRuns => rec.counted,
         rec.counted /\ ~group.counted => rec.countRuns \/ rec.state = "discarded",
         group.state = "discarded" => rec.state = "discarded",
         group.winner # NoLane => rec.winner = group.winner,
         rec.winner # NoLane => rec.state = "applied"
  PROVE  /\ BoardCountsOnce' /\ GroupSettled'
         /\ group' \in GroupRecord /\ boardRuns' \in Nat /\ boardWins' \in [Lanes -> Nat]
<1>1. /\ boardRuns \in Nat /\ boardRuns <= 1
      /\ group.state \in {"none", "running"} => boardRuns = 0
      /\ group.state \in {"done", "applied"} => boardRuns = 1
      /\ group.counted <=> group.state \notin {"none", "running"}
      /\ group.state \in {"none", "running", "done", "applied", "discarded"}
  BY CompareTypesGive DEF CompareInv, BoardCountsOnce, GroupSettled, CompareTypes, GroupRecord
<1>2. boardRuns' = IF rec.countRuns /\ ~group.counted THEN boardRuns + 1 ELSE boardRuns
  BY DEF Stored
<1>3. /\ boardRuns' \in Nat /\ boardRuns' <= 1
      /\ rec.state = "running" => boardRuns' = 0
      /\ rec.state \in {"done", "applied"} => boardRuns' = 1
  BY <1>1, <1>2
<1>4. \A l \in Lanes : boardWins'[l] = IF rec.winner = l THEN 1 ELSE 0
  <2>1. \A l \in Lanes : boardWins[l] = IF group.winner = l THEN 1 ELSE 0
    BY DEF CompareInv, BoardCountsOnce
  <2>2. \A l \in Lanes : boardWins'[l] = IF rec.winner = l /\ group.winner = NoLane
                                        THEN boardWins[l] + 1 ELSE boardWins[l]
    BY DEF Stored
  <2>3. \A l \in Lanes : l # NoLane
    BY CompareAssumption DEF Lanes, NoLane
  <2>. QED
    BY <2>1, <2>2, <2>3
<1>5. boardWins' \in [Lanes -> Nat]
  <2>1. boardWins' = [l \in Lanes |-> boardWins'[l]]
    BY DEF Stored
  <2>. QED
    BY <1>4, <2>1
<1>6. BoardCountsOnce'
  BY <1>3, <1>4, StoredIs DEF BoardCountsOnce
<1>7. GroupSettled'
  BY StoredIs DEF GroupSettled
<1>. QED
  BY <1>3, <1>5, <1>6, <1>7, StoredIs

\* Another process saves what the record says, refreshed, and makes the copy stale.
LEMMA CompareOtherInv == ASSUME CompareInv, OtherSaves PROVE CompareInv'
<1>1. PICK base : base = [group EXCEPT !.lanes = [l \in Lanes |-> RefreshedLane(group, l).lanes[l]]]
  OBVIOUS
<1>2. PICK rec : rec = Decided(base)
  OBVIOUS
<1>3. group \in GroupRecord
  BY CompareTypesGive DEF CompareInv
<1>4. base \in GroupRecord /\ SameButLanes(base, group)
  <2>1. ASSUME NEW l \in Lanes
        PROVE  /\ RefreshedLane(group, l).lanes[l] \in LaneRecord
               /\ RefreshedLane(group, l).lanes[l].removed = group.lanes[l].removed
    BY <1>3, RefreshedLaneIs DEF CompareInv, SameButLanes, GroupRecord
  <2>. QED
    BY <1>1, <1>3, <2>1 DEF GroupRecord, SameButLanes
<1>5. /\ rec \in GroupRecord /\ rec.winner = group.winner
      /\ \A l \in Lanes : rec.lanes[l].removed = group.lanes[l].removed
      /\ rec.state = group.state \/ (group.state = "running" /\ rec.state = "done")
      /\ rec.counted <=> group.counted \/ CountsNow(rec.state)
      /\ rec.countRuns <=> group.countRuns \/ (~group.counted /\ CountsNow(rec.state))
  BY <1>2, <1>4, DecidedIs DEF SameButLanes
<1>6. Stored(rec) /\ group.state # "none"
  BY <1>1, <1>2 DEF OtherSaves
<1>7. /\ BoardCountsOnce' /\ GroupSettled'
      /\ group' \in GroupRecord /\ boardRuns' \in Nat /\ boardWins' \in [Lanes -> Nat]
  <2>1. /\ ~group.countRuns
        /\ group.counted <=> group.state \notin {"none", "running"}
        /\ group.winner # NoLane => group.state = "applied"
    BY DEF CompareInv, GroupSettled
  <2>. QED
    <3>1. rec.counted <=> rec.state \notin {"none", "running"}
      BY <1>5, <1>6, <2>1 DEF CountsNow
    <3>2. rec.countRuns <=> rec.counted /\ ~group.counted
      BY <1>5, <2>1, <3>1 DEF CountsNow
    <3>. QED
      BY <1>5, <1>6, <2>1, <3>1, <3>2, StoresOnce DEF CountsNow
<1>8. /\ group'.state = rec.state /\ group'.lanes = rec.lanes
      /\ UNCHANGED <<laneTurns, laneTree, compareOp, copy, unstored>> /\ ~copyFresh'
      /\ copyFresh' \in BOOLEAN
  BY <1>5, <1>6, StoredIs DEF OtherSaves
<1>9. CompareTypes'
  <2>1. otherSavesLeft' \in 0 .. MaxOtherSaves /\ opsLeft' \in 0 .. MaxOps
    BY CompareAssumption DEF CompareInv, CompareTypes, OtherSaves
  <2>. QED
    BY <1>7, <1>8, <2>1 DEF CompareInv, CompareTypes
<1>10. compareOp.kind # "start"
  BY <1>6 DEF CompareInv, CopyAtStage
<1>11. /\ group'.state \in OpenStates <=> group.state \in OpenStates
       /\ group'.state \in ClosedStates <=> group.state \in ClosedStates
       /\ group'.state # "none"
  BY <1>5, <1>6, <1>8 DEF OpenStates, ClosedStates
<1>12. CopyAtStage'
  BY <1>8, <1>10, <1>11 DEF CompareInv, CopyAtStage
<1>13. CopyFollows' /\ TreesFollow'
  BY <1>5, <1>8, <1>10, <1>11 DEF CompareInv, CopyFollows, TreesFollow, RemovesTrees
<1>. QED
  BY <1>7, <1>9, <1>12, <1>13 DEF CompareInv

\* A copy is stored only over the record it was loaded from.
LEMMA CompareSavesInv == ASSUME CompareInv, CompareSaves PROVE CompareInv'
<1>. DEFINE kind == compareOp.kind
<1>1. compareOp.stage = "save" /\ kind \in {"start", "view", "cancel", "keep", "discard", "clean"}
  BY CompareStageKinds DEF CompareSaves, CompareKinds
<1>2. /\ OpReturns /\ UNCHANGED <<laneTurns, laneTree, copyFresh, opsLeft, otherSavesLeft>>
      /\ copy \in GroupRecord
  BY CompareTypesGive DEF CompareSaves, CompareInv
<1>3. \A l \in Lanes : group.lanes[l].removed \/ copy.lanes[l].removed => laneTree[l] = "gone"
  BY DEF CompareInv, TreesFollow
<1>4. CASE SavesOver /\ Stored(copy) /\ UNCHANGED unstored
  <2>1. copyFresh
    BY <1>4 DEF SavesOver
  <2>2. /\ copy.state # "none" /\ (copy.counted <=> copy.state # "running")
        /\ copy.countRuns => copy.counted
        /\ copy.winner # NoLane => copy.state = "applied"
    BY <1>1 DEF CompareInv, CopyAtStage
  <2>3. /\ group.counted => copy.counted /\ ~copy.countRuns
        /\ copy.counted /\ ~group.counted => copy.countRuns \/ copy.state = "discarded"
        /\ group.winner # NoLane => copy.winner = group.winner
        /\ group.state = "discarded" => copy.state = "discarded"
    <3>1. CASE kind = "start"
      BY <3>1 DEF CompareInv, CopyAtStage, GroupSettled
    <3>2. CASE kind # "start"
      BY <1>1, <2>1, <3>2 DEF CompareInv, CopyAtStage, CopyFollows, OpenStates, ClosedStates
    <3>. QED
      BY <3>1, <3>2
  <2>4. /\ BoardCountsOnce' /\ GroupSettled'
        /\ group' \in GroupRecord /\ boardRuns' \in Nat /\ boardWins' \in [Lanes -> Nat]
    BY <1>2, <1>4, <2>2, <2>3, StoresOnce
  <2>5. CompareTypes'
    BY <1>2, <1>4, <2>4, OpReturned DEF CompareInv, CompareTypes, CompareKinds, CompareStages
  <2>6. group'.state = copy.state /\ group'.lanes = copy.lanes /\ unstored' = unstored
    BY <1>2, <1>4, StoredIs
  <2>7. ~unstored => \A l \in Lanes :
             /\ copy.state \in OpenStates => laneTree[l] = "there"
             /\ copy.state \in ClosedStates /\ ~copy.lanes[l].removed =>
                   laneTree[l] = "there" \/ CompareFaults
    <3>1. CASE kind = "start"
      BY <1>1, <3>1 DEF CompareInv, CopyAtStage, TreesFollow, ClosedStates
    <3>2. CASE kind \in {"keep", "discard", "clean"}
      <4>1. copy.state \in ClosedStates /\ RemovesTrees
        BY <1>1, <3>2 DEF CompareInv, CopyAtStage, ClosedStates, RemovesTrees
      <4>. QED
        BY <4>1 DEF CompareInv, TreesFollow, OpenStates, ClosedStates
    <3>3. CASE kind \in {"view", "cancel"}
      <4>1. ~RemovesTrees /\ group.state # "none"
        BY <3>3 DEF CompareInv, CopyAtStage, RemovesTrees
      <4>2. /\ group.state \in ClosedStates => copy.state = group.state
            /\ copy.state \in ClosedStates => group.state = copy.state
            /\ \A l \in Lanes : copy.lanes[l].removed = group.lanes[l].removed
        BY <2>1, <3>3 DEF CompareInv, CopyFollows
      <4>3. group.state \in OpenStates \cup ClosedStates
        BY <4>1, CompareTypesGive DEF CompareInv, GroupRecord, OpenStates, ClosedStates
      <4>. QED
        BY <4>1, <4>2, <4>3 DEF CompareInv, TreesFollow, OpenStates, ClosedStates
    <3>. QED
      BY <1>1, <3>1, <3>2, <3>3
  <2>8. TreesFollow'
    BY <1>2, <1>3, <2>6, <2>7, OpReturned DEF TreesFollow
  <2>. QED
    BY <1>2, <2>4, <2>5, <2>8, OpReturned DEF CompareInv
<1>5. CASE /\ unstored' = (unstored \/ kind \in {"start", "keep", "discard", "clean"})
           /\ UNCHANGED <<group, boardRuns, boardWins>>
  <2>1. CompareTypes'
    BY <1>2, <1>5, OpReturned DEF CompareInv, CompareTypes, CompareKinds, CompareStages
  <2>2. BoardCountsOnce' /\ GroupSettled'
    BY <1>5 DEF CompareInv, BoardCountsOnce, GroupSettled
  <2>3. ~unstored' => ~unstored /\ ~RemovesTrees
    BY <1>1, <1>5 DEF RemovesTrees
  <2>4. TreesFollow'
    BY <1>2, <1>3, <1>5, <2>3, OpReturned DEF CompareInv, TreesFollow
  <2>. QED
    BY <1>2, <2>1, <2>2, <2>4, OpReturned DEF CompareInv
<1>. QED
  BY <1>4, <1>5 DEF CompareSaves

-----------------------------------------------------------------------------

LEMMA CompareInitInv == CompareInit => CompareInv
<1>. SUFFICES ASSUME CompareInit PROVE CompareInv
  OBVIOUS
<1>. USE DEF CompareInit
<1>1. /\ group \in GroupRecord /\ group.state = "none" /\ ~group.counted /\ ~group.countRuns
      /\ group.winner = NoLane /\ \A l \in Lanes : ~group.lanes[l].removed
  BY CompareAssumption DEF NoGroup, NewLane, GroupRecord, LaneRecord, NoLane
<1>2. CompareTypes
  <2>1. laneTurns \in [Lanes -> Seq(Unended \cup {"ended"})] /\ \A l \in Lanes : Len(laneTurns[l]) = 0
    OBVIOUS
  <2>2. compareOp \in [kind : CompareKinds, stage : CompareStages, lane : Nat, pick : {NoLane} \cup Lanes]
    BY DEF NoOp, NoLane, CompareKinds, CompareStages
  <2>3. /\ laneTree \in [Lanes -> {"none", "there", "gone"}] /\ copy \in GroupRecord
        /\ boardRuns \in Nat /\ boardWins \in [Lanes -> Nat]
        /\ opsLeft \in 0 .. MaxOps /\ otherSavesLeft \in 0 .. MaxOtherSaves
    BY <1>1, CompareAssumption
  <2>. QED
    <3>1. \A l \in Lanes : Len(laneTurns[l]) <= MaxTurns
      BY <2>1, CompareAssumption
    <3>2. copyFresh \in BOOLEAN /\ unstored \in BOOLEAN
      OBVIOUS
    <3>. QED
      BY <1>1, <2>1, <2>2, <2>3, <3>1, <3>2 DEF CompareTypes, CompareKinds, CompareStages
<1>3. BoardCountsOnce /\ GroupSettled
  <2>1. \A l \in Lanes : l # NoLane
    BY CompareAssumption DEF Lanes, NoLane
  <2>. QED
    BY <1>1, <2>1 DEF BoardCountsOnce, GroupSettled
<1>4. compareOp.kind = "none" /\ compareOp.stage = "none" /\ compareOp = NoOp /\ copy = group
  BY DEF NoOp
<1>5. CopyAtStage /\ CopyFollows /\ TreesFollow
  BY <1>1, <1>4 DEF CopyAtStage, StagesOf, CopyFollows, TreesFollow, RemovesTrees, OpenStates, ClosedStates
<1>. QED
  BY <1>2, <1>3, <1>5 DEF CompareInv

LEMMA CompareStepInv == ASSUME CompareInv, [CompareNext]_compareVars PROVE CompareInv'
<1>1. CASE CompareStart
  BY <1>1, CompareStartInv
<1>2. CASE \/ \E kind \in {"view", "discard", "cancel"} : CompareLoads(kind, NoLane)
           \/ \E l \in Lanes : CompareLoads("keep", l)
  <2>1. PICK asked \in {"view", "keep", "discard", "cancel"}, pick \in {NoLane} \cup Lanes :
           CompareLoads(asked, pick) /\ (asked = "keep" => pick \in Lanes)
    BY <1>2
  <2>. QED
    BY <2>1, CompareLoadsInv
<1>3. CASE CreatesTree
  BY <1>3, CompareCreatesInv
<1>4. CASE LaunchesTurn
  BY <1>4, CompareLaunchesInv
<1>5. CASE UndoesLaunch
  BY <1>5, CompareUndoesInv
<1>6. CASE RefreshesLane
  BY <1>6, CompareRefreshesInv
<1>7. CASE KeepApplies
  BY <1>7, CompareAppliesInv
<1>8. CASE StopsLanes
  BY <1>8, CompareStopsInv
<1>9. CASE AwaitsLane
  BY <1>9, CompareAwaitsInv
<1>10. CASE RemovesLane
  BY <1>10, CompareRemovesInv
<1>11. CASE CompareSaves
  BY <1>11, CompareSavesInv
<1>12. CASE OtherSaves
  BY <1>12, CompareOtherInv
<1>13. CASE \E l \in Lanes : FollowUp(l) \/ LaneTurnRuns(l) \/ LaneTurnEnds(l)
  BY <1>13, LaneTurnsInv
<1>14. CASE UNCHANGED compareVars
  <2>1. UNCHANGED <<laneTurns, laneTree, group, boardRuns, boardWins, compareOp, copy, copyFresh,
                    opsLeft, otherSavesLeft, unstored>>
    BY <1>14 DEF compareVars
  <2>2. CompareTypes' /\ BoardCountsOnce' /\ GroupSettled'
    BY <2>1 DEF CompareInv, CompareTypes, BoardCountsOnce, GroupSettled
  <2>3. CopyAtStage' /\ CopyFollows' /\ TreesFollow'
    BY <2>1 DEF CompareInv, CopyAtStage, CopyFollows, TreesFollow, RemovesTrees
  <2>. QED
    BY <2>2, <2>3 DEF CompareInv
<1>. QED
  BY <1>1, <1>2, <1>3, <1>4, <1>5, <1>6, <1>7, <1>8, <1>9, <1>10, <1>11, <1>12, <1>13, <1>14
     DEF CompareNext, CompareCalls, OpNext

\* The invariant contains the promise.
LEMMA CompareInvAgrees == CompareInv => ComparisonsAgree
<1>. SUFFICES ASSUME CompareInv PROVE LanesAccounted
  BY DEF CompareInv, ComparisonsAgree
<1>1. compareOp = NoOp => ~RemovesTrees
  BY DEF RemovesTrees, NoOp
<1>. QED
  BY <1>1 DEF CompareInv, TreesFollow, LanesAccounted, OpenStates, ClosedStates

\* What the copy of an operation may hold at each of its stages, and which worktrees
\* there are then (compare.rs).
THEOREM ComparisonInvariant == CompareSpec => []CompareInv
BY CompareInitInv, CompareStepInv, PTL DEF CompareSpec

\* For any number of lanes, turns and operations, and with another process that saves
\* the same record: the scoreboard has one run of a comparison that finished and one
\* win of its winner, and the record tells which worktrees there are (ComparisonsAgree,
\* which includes the types; compare.rs).
THEOREM ComparesAgree == CompareSpec => []ComparisonsAgree
BY ComparisonInvariant, CompareInvAgrees, PTL

-----------------------------------------------------------------------------
(* Worktree tasks: why a task is never lost                                *)

Places(kind) == IF kind = "apply" THEN {"project", "tree"} ELSE {"tree"}

\* Where the start of the task is tells what there is of it, and nothing else
\* touches the task before it is over.
TaskStartKnows ==
    /\ taskStart # "none" => treeOp = NoTreeOp
    /\ taskStart \in {"create", "record"} => taskRecord.state = "none"
    /\ taskStart = "abandon" => taskRecord.state \in {"none", "starting"}
    /\ taskStart = "create" => taskTree = "none"
    /\ taskStart \in {"record", "launch", "note", "abandon"} => taskTree = "there"
    /\ taskStart \in {"launch", "note"} =>
          taskRecord.state = "starting" /\ (strayed \/ talk = "tree")
    /\ taskRecord.state = "starting" => strayed \/ taskStart # "none"

\* The record is still as open as when the operation loaded it, also when an earlier
\* close was cut off, and what the operation reserved is reserved.
TaskOpKnows ==
    /\ treeOp.kind = "none" <=> treeOp = NoTreeOp
    /\ treeOp.turn \in 0 .. Len(taskTurns)
    /\ taskHeld = IF treeOp.kind \in {"apply", "branch"} /\ treeOp.stage \in {"working"} \cup Closing
                  THEN Places(treeOp.kind) ELSE {}
    /\ taskHeld # {} => TreeIdle
    /\ "project" \in taskHeld => ~projectBusy
    /\ treeOp.stage \in {"loaded", "working"} =>
          treeOp.state \in Closable /\ taskRecord.state \in Closable
    /\ treeOp.stage = "working" => taskTree = "there" /\ treeOp.kind \in {"apply", "branch"}
    /\ treeOp.stage = "waiting" =>
          treeOp.kind = "discard" /\ treeOp.state = "discarded" /\ taskRecord.state \in Closable
    /\ treeOp.stage \in Closing =>
          /\ treeOp.state \in Closed /\ taskRecord.state \in Closable \cup {treeOp.state}
          /\ treeOp.state = "branch" => taskBranch
    /\ treeOp.stage = "pruning" \/ treeOp.removed => taskTree = "gone"
    /\ treeOp.kind = "view" => treeOp.stage = "loaded"
    /\ cutShort # "none" => taskRecord.state \in Closable

\* A worktree that is there has its branch.
TreeHasBranch == taskTree = "there" => taskBranch

\* The inductive invariant of worktree tasks.
WorktreeTasksInv == TreesAgree /\ TaskStartKnows /\ TaskOpKnows /\ TreeHasBranch

TurnStates == {"queued", "running", "cancelling", "ended"}

TreeOps == [kind : {"none", "view", "apply", "branch", "discard"},
            stage : {"none", "loaded", "waiting", "working"} \cup Closing,
            state : RecordStates, active : BOOLEAN, turn : Nat, removed : BOOLEAN]
TaskRecords == [state : RecordStates, removed : BOOLEAN]
TaskTurnsTyped == taskTurns \in Seq(TurnStates) /\ Len(taskTurns) <= MaxTaskTurns

\* The types, part by part.
LEMMA TaskTypesGive ==
  ASSUME WorktreeTasksInv
  PROVE  /\ TaskTurnsTyped /\ treeOp \in TreeOps /\ taskRecord \in TaskRecords
         /\ taskStart \in {"none", "create", "record", "launch", "note", "abandon"}
         /\ strayed \in BOOLEAN /\ cutShort \in {"none"} \cup Closed
BY DEF WorktreeTasksInv, TreesAgree, WorktreeTaskTypes, TaskTurnsTyped, TurnStates, TreeOps, TaskRecords

LEMMA TaskTypesFrom ==
  ASSUME TaskTurnsTyped', treeOp' \in TreeOps, taskRecord' \in TaskRecords,
         taskTree' \in {"none", "there", "gone"}, taskBranch' \in BOOLEAN,
         talk' \in {"none", "tree", "project", "deleted"}, projectBusy' \in BOOLEAN,
         taskHeld' \subseteq {"project", "tree"},
         taskStart' \in {"none", "create", "record", "launch", "note", "abandon"},
         taskCrashes' \in 0 .. MaxTaskCrashes, strayed' \in BOOLEAN,
         cutShort' \in {"none"} \cup Closed
  PROVE  WorktreeTaskTypes'
BY DEF WorktreeTaskTypes, TaskTurnsTyped, TurnStates, TreeOps, TaskRecords

LEMMA NoTreeOpTyped == NoTreeOp \in TreeOps
BY DEF NoTreeOp, TreeOps, RecordStates

LEMMA TaskTurnSet ==
  ASSUME NEW s \in Seq(TurnStates), NEW i \in 1 .. Len(s), NEW v \in TurnStates
  PROVE  /\ [s EXCEPT ![i] = v] \in Seq(TurnStates)
         /\ Len([s EXCEPT ![i] = v]) = Len(s)
OBVIOUS

LEMMA TaskTurnAdded ==
  ASSUME NEW s \in Seq(TurnStates), NEW v \in TurnStates
  PROVE  Append(s, v) \in Seq(TurnStates) /\ Len(Append(s, v)) = Len(s) + 1
OBVIOUS

\* What is reachable stays so while no close may have removed the worktree.
LEMMA TreesKept ==
  ASSUME WorktreeTasksInv, treeOp.stage \notin Ending,
         UNCHANGED <<taskRecord, taskTree, taskBranch, talk, taskStart, strayed, cutShort>>
  PROVE  TreesReachable' /\ TreeHasBranch'
BY DEF WorktreeTasksInv, TreesAgree, TreesReachable, TreeHasBranch

\* An operation that returned knows nothing.
LEMMA TaskOpReturned ==
  ASSUME treeOp' = NoTreeOp, taskHeld' = {}, Len(taskTurns') \in Nat,
         cutShort' # "none" => taskRecord'.state \in Closable
  PROVE  AppliesAlone' /\ TaskOpKnows'
BY DEF AppliesAlone, TaskOpKnows, NoTreeOp, Closing, Ending

\* An operation goes on to a stage, with a state it decided.
LEMMA TaskOpGoesOn ==
  ASSUME treeOp \in TreeOps, NEW stage \in {"waiting", "working", "closing"},
         NEW state \in RecordStates,
         treeOp' = [treeOp EXCEPT !.stage = stage, !.state = state]
  PROVE  /\ treeOp' \in TreeOps /\ treeOp' # NoTreeOp
         /\ treeOp'.stage = stage /\ treeOp'.state = state /\ treeOp'.kind = treeOp.kind
         /\ treeOp'.active = treeOp.active /\ treeOp'.turn = treeOp.turn
         /\ treeOp'.removed = treeOp.removed
BY DEF TreeOps, NoTreeOp, Closing, Ending

\* What a step of the turns alone keeps.
LEMMA TaskTurnsKeep ==
  ASSUME WorktreeTasksInv, TurnsOnly, UNCHANGED projectBusy,
         taskTurns' \in Seq(TurnStates), Len(taskTurns') \in Len(taskTurns) .. MaxTaskTurns,
         taskHeld = {}
  PROVE  WorktreeTasksInv'
<1>. USE DEF WorktreeTasksInv, TreesAgree, TurnsOnly
<1>1. WorktreeTaskTypes'
  BY DEF WorktreeTaskTypes, TurnStates
<1>2. TreesReachable' /\ TaskStartKnows' /\ TreeHasBranch'
  BY DEF TreesReachable, TaskStartKnows, TreeHasBranch
<1>3. AppliesAlone'
  BY DEF AppliesAlone, TaskOpKnows, Places
<1>4. TaskOpKnows'
  <2>1. taskTurns \in Seq(TurnStates) /\ Len(taskTurns) \in Nat /\ Len(taskTurns') \in Nat
    BY DEF WorktreeTaskTypes, TurnStates
  <2>2. treeOp.turn \in 0 .. Len(taskTurns')
    BY <2>1, WorktreeTasksAssumption DEF TaskOpKnows, WorktreeTaskTypes
  <2>. QED
    BY <2>2 DEF TaskOpKnows
<1>. QED
  BY <1>1, <1>2, <1>3, <1>4

\* A reserved worktree has no turn that is not over.
LEMMA HeldIsIdle ==
  ASSUME WorktreeTasksInv, NEW i \in TreeFront
  PROVE  taskHeld = {}
BY DEF WorktreeTasksInv, TaskOpKnows, TreeIdle

\* Turns start only where nothing is reserved.
LEMMA TaskTurnsInv ==
  ASSUME WorktreeTasksInv, TreeFollowUp \/ TreeTurnRuns \/ TreeTurnEnds
  PROVE  WorktreeTasksInv'
<1>. taskTurns \in Seq(TurnStates) /\ Len(taskTurns) \in Nat /\ Len(taskTurns) <= MaxTaskTurns
  BY DEF WorktreeTasksInv, TreesAgree, WorktreeTaskTypes, TurnStates
<1>. MaxTaskTurns \in Nat
  BY WorktreeTasksAssumption
<1>1. CASE TreeFollowUp
  <2>1. taskTurns' \in Seq(TurnStates) /\ Len(taskTurns') = Len(taskTurns) + 1
    BY <1>1, TaskTurnAdded DEF TreeFollowUp, TurnStates
  <2>2. taskHeld = {}
    BY <1>1 DEF TreeFollowUp, WorktreeTasksInv, TaskOpKnows, Places
  <2>. QED
    BY <1>1, <2>1, <2>2, TaskTurnsKeep DEF TreeFollowUp
<1>2. CASE TreeTurnRuns \/ TreeTurnEnds
  <2>1. PICK i \in TreeFront, v \in {"running", "ended"} :
           taskTurns' = [taskTurns EXCEPT ![i] = v]
    BY <1>2 DEF TreeTurnRuns, TreeTurnEnds
  <2>2. i \in 1 .. Len(taskTurns)
    BY DEF TreeFront
  <2>3. taskTurns' \in Seq(TurnStates) /\ Len(taskTurns') = Len(taskTurns)
    BY <2>1, <2>2, TaskTurnSet DEF TurnStates
  <2>4. taskHeld = {}
    BY HeldIsIdle
  <2>. QED
    BY <1>2, <2>3, <2>4, TaskTurnsKeep DEF TreeTurnRuns, TreeTurnEnds
<1>. QED
  BY <1>1, <1>2

\* The turns of the project wait while it is reserved.
LEMMA TaskProjectInv == ASSUME WorktreeTasksInv, ProjectTask PROVE WorktreeTasksInv'
<1>. USE DEF WorktreeTasksInv, TreesAgree, ProjectTask, TurnsOnly
<1>1. WorktreeTaskTypes' /\ TreesReachable' /\ TaskStartKnows' /\ TreeHasBranch'
  BY DEF WorktreeTaskTypes, TreesReachable, TaskStartKnows, TreeHasBranch
<1>2. TaskOpKnows' /\ AppliesAlone'
  BY DEF TaskOpKnows, AppliesAlone, Places, TreeIdle, TreeFront
<1>. QED
  BY <1>1, <1>2

\* No operation goes on while the task is being started.
LEMMA TaskStartInv ==
  ASSUME WorktreeTasksInv,
         \/ TaskPrepares \/ TaskTreeCreated \/ TaskRecorded \/ TaskLaunched \/ TaskNoted
         \/ TaskAbandoned
  PROVE  WorktreeTasksInv'
<1>. USE DEF WorktreeTasksInv, TreesAgree, StartOnly
<1>1. treeOp = NoTreeOp /\ treeOp' = NoTreeOp /\ taskHeld' = taskHeld /\ projectBusy' = projectBusy
  BY DEF TaskStartKnows, TaskPrepares, TaskTreeCreated, TaskRecorded, TaskLaunched, TaskNoted,
         TaskAbandoned
<1>2. taskHeld = {}
  BY <1>1 DEF TaskOpKnows, NoTreeOp
<1>3. WorktreeTaskTypes'
  <2>1. TaskTurnsTyped'
    <3>1. <<"queued">> \in Seq(TurnStates) /\ Len(<<"queued">>) = 1
      BY DEF TurnStates
    <3>2. taskTurns' \in {taskTurns, <<"queued">>}
      BY DEF TaskPrepares, TaskTreeCreated, TaskRecorded, TaskLaunched, TaskNoted, TaskAbandoned
    <3>3. TaskTurnsTyped
      BY TaskTypesGive
    <3>4. CASE taskTurns' = taskTurns
      BY <3>3, <3>4 DEF TaskTurnsTyped
    <3>5. CASE taskTurns' = <<"queued">>
      BY <3>1, <3>5, WorktreeTasksAssumption DEF TaskTurnsTyped
    <3>. QED
      BY <3>2, <3>4, <3>5
  <2>2. taskRecord' \in TaskRecords
    <3>1. /\ [state |-> "none", removed |-> FALSE] \in TaskRecords
          /\ [state |-> "starting", removed |-> FALSE] \in TaskRecords
          /\ [state |-> "running", removed |-> FALSE] \in TaskRecords
      BY DEF TaskRecords, RecordStates
    <3>. QED
      BY <3>1, TaskTypesGive DEF TaskPrepares, TaskTreeCreated, TaskRecorded, TaskLaunched,
         TaskNoted, TaskAbandoned
  <2>3. /\ taskTree' \in {"none", "there", "gone"} /\ taskBranch' \in BOOLEAN
        /\ talk' \in {"none", "tree", "project", "deleted"} /\ strayed' \in BOOLEAN
        /\ taskStart' \in {"none", "create", "record", "launch", "note", "abandon"}
        /\ taskCrashes' \in 0 .. MaxTaskCrashes /\ projectBusy' \in BOOLEAN
        /\ cutShort' \in {"none"} \cup Closed
    BY DEF WorktreeTaskTypes, TaskPrepares, TaskTreeCreated, TaskRecorded, TaskLaunched,
       TaskNoted, TaskAbandoned
  <2>. QED
    BY <1>1, <1>2, <2>1, <2>2, <2>3, NoTreeOpTyped, TaskTypesFrom
<1>4. AppliesAlone' /\ TaskOpKnows'
  <2>1. Len(taskTurns') \in Nat
    BY <1>3 DEF WorktreeTaskTypes
  <2>2. cutShort' # "none" => taskRecord'.state \in Closable
    BY DEF TaskOpKnows, TaskStartKnows, Closable, TaskPrepares, TaskTreeCreated, TaskRecorded,
       TaskLaunched, TaskNoted, TaskAbandoned
  <2>. QED
    BY <1>1, <1>2, <2>1, <2>2, TaskOpReturned
<1>5. TreesReachable' /\ TaskStartKnows' /\ TreeHasBranch'
  <2>. USE DEF WorktreeTaskTypes, TreesReachable, TaskStartKnows, TreeHasBranch, Closable
  <2>1. CASE TaskPrepares
    BY <1>1, <2>1 DEF TaskPrepares
  <2>2. CASE TaskTreeCreated
    BY <1>1, <2>2 DEF TaskTreeCreated
  <2>3. CASE TaskRecorded
    BY <1>1, <2>3 DEF TaskRecorded
  <2>4. CASE TaskLaunched
    BY <1>1, <2>4 DEF TaskLaunched
  <2>5. CASE TaskNoted
    BY <1>1, <2>5 DEF TaskNoted
  <2>6. CASE TaskAbandoned
    <3>1. taskRecord.state \notin Closable /\ cutShort = "none"
      BY <2>6 DEF TaskAbandoned, TaskOpKnows
    <3>. QED
      BY <1>1, <2>6, <3>1 DEF TaskAbandoned
  <2>. QED
    BY <2>1, <2>2, <2>3, <2>4, <2>5, <2>6
<1>. QED
  BY <1>4, <1>3, <1>5

-----------------------------------------------------------------------------
(* get, apply, keep_branch and discard                                     *)

\* An operation loads the record and looks at the latest turn.
LEMMA TaskLoadsInv ==
  ASSUME WorktreeTasksInv, NEW kind \in {"view", "apply", "branch", "discard"}, TreeOpLoads(kind)
  PROVE  WorktreeTasksInv'
<1>1. Len(taskTurns) \in Nat /\ taskRecord \in TaskRecords
  BY TaskTypesGive DEF TaskTurnsTyped
<1>2. /\ (IF LatestIsActive THEN Len(taskTurns) ELSE 0) \in 0 .. Len(taskTurns)
      /\ 0 .. Len(taskTurns) \subseteq Nat /\ Closable \subseteq RecordStates
  <2>1. Len(taskTurns) \in 0 .. Len(taskTurns) /\ 0 \in 0 .. Len(taskTurns)
    BY <1>1
  <2>2. 0 .. Len(taskTurns) \subseteq Nat /\ Closable \subseteq RecordStates
    BY <1>1 DEF Closable, RecordStates
  <2>. QED
    BY <2>1, <2>2
<1>3. TreesReachable'
  <2>1. UNCHANGED <<taskRecord, taskTree, taskBranch, talk, taskStart, strayed, cutShort>>
    BY DEF TreeOpLoads, OpOnly
  <2>2. treeOp.stage \notin Ending
    BY DEF TreeOpLoads, NoTreeOp, Ending
  <2>. QED
    BY <2>1, <2>2, TreesKept
<1>4. treeOp' \in TreeOps => WorktreeTaskTypes'
  <2>. SUFFICES ASSUME treeOp' \in TreeOps PROVE WorktreeTaskTypes'
    OBVIOUS
  <2>1. /\ UNCHANGED <<taskRecord, taskTree, taskBranch, talk, taskTurns, taskHeld, strayed>>
        /\ UNCHANGED <<projectBusy, taskStart, taskCrashes, cutShort>>
    BY DEF TreeOpLoads, OpOnly
  <2>2. WorktreeTaskTypes
    BY DEF WorktreeTasksInv, TreesAgree
  <2>. QED
    BY <2>1, <2>2 DEF WorktreeTaskTypes, TreeOps
<1>. USE DEF WorktreeTasksInv, TreesAgree, TreeOpLoads, OpOnly
<1>. DEFINE s == taskRecord.state
<1>5. treeOp = NoTreeOp /\ taskHeld = {} /\ taskHeld' = {} /\ s \in Closable \cup Closed
  BY DEF TaskOpKnows, NoTreeOp
<1>6. taskStart = "none"
  BY <1>5, TaskTypesGive DEF TaskStartKnows, Closable, Closed
<1>7. TreeHasBranch' /\ TaskStartKnows'
  BY <1>5, <1>6 DEF TreeHasBranch, TaskStartKnows, Closable, Closed
<1>8. CASE s \in Closable /\ \E active \in LatestMayBeActive :
              treeOp' = [NoTreeOp EXCEPT !.kind = kind, !.stage = "loaded",
                            !.state = RefreshedState(s, active), !.active = active,
                            !.turn = IF LatestIsActive THEN Len(taskTurns) ELSE 0]
  <2>1. PICK active \in BOOLEAN, t \in Closable, i \in 0 .. Len(taskTurns) :
          treeOp' = [NoTreeOp EXCEPT !.kind = kind, !.stage = "loaded", !.state = t,
                                     !.active = active, !.turn = i]
    <3>1. PICK active \in LatestMayBeActive :
            treeOp' = [NoTreeOp EXCEPT !.kind = kind, !.stage = "loaded",
                          !.state = RefreshedState(s, active), !.active = active,
                          !.turn = IF LatestIsActive THEN Len(taskTurns) ELSE 0]
      BY <1>8
    <3>2. active \in BOOLEAN /\ RefreshedState(s, active) \in Closable
      BY <1>8 DEF LatestMayBeActive, LatestIsActive, RefreshedState, Closable
    <3>3. PICK i \in 0 .. Len(taskTurns) : i = IF LatestIsActive THEN Len(taskTurns) ELSE 0
      BY <1>2
    <3>. QED
      BY <3>1, <3>2, <3>3
  <2>2. /\ treeOp'.kind = kind /\ treeOp'.stage = "loaded" /\ treeOp'.state = t
        /\ treeOp'.turn = i /\ treeOp'.removed = FALSE /\ treeOp' # NoTreeOp
        /\ treeOp' \in TreeOps
    <3>1. i \in Nat /\ t \in RecordStates
      BY <1>2, <2>1
    <3>. QED
      BY <2>1, <3>1 DEF NoTreeOp, TreeOps
  <2>3. WorktreeTaskTypes'
    BY <1>4, <2>2
  <2>4. AppliesAlone'
    BY <2>2 DEF AppliesAlone, Closing, Ending
  <2>5. TaskOpKnows'
    BY <1>5, <1>8, <2>2 DEF TaskOpKnows, NoTreeOp, Closing, Ending
  <2>. QED
    BY <1>7, <1>3, <2>3, <2>4, <2>5
<1>9. CASE /\ kind = "discard" /\ s \in Closed /\ ~taskRecord.removed
           /\ treeOp' = [NoTreeOp EXCEPT !.kind = kind, !.stage = "closing", !.state = s]
  <2>1. /\ treeOp'.kind = "discard" /\ treeOp'.stage = "closing" /\ treeOp'.state = s
        /\ treeOp'.turn = 0 /\ treeOp'.removed = FALSE /\ treeOp' # NoTreeOp
        /\ treeOp' \in TreeOps
    BY <1>1, <1>9 DEF NoTreeOp, TreeOps, TaskRecords, Closing
  <2>2. WorktreeTaskTypes'
    BY <1>4, <2>1
  <2>3. AppliesAlone'
    BY <2>1 DEF AppliesAlone
  <2>4. s = "branch" => taskBranch
    BY DEF TreesReachable
  <2>5. TaskOpKnows'
    BY <1>5, <1>1, <1>9, <2>1, <2>4 DEF TaskOpKnows, NoTreeOp, Closed, Closing, Ending
  <2>. QED
    BY <1>7, <1>3, <2>2, <2>3, <2>5
<1>. QED
  BY <1>8, <1>9

\* A record that is written names the state the operation loaded or decided.
LEMMA TaskViewedInv == ASSUME WorktreeTasksInv, TaskViewed PROVE WorktreeTasksInv'
<1>. USE DEF WorktreeTasksInv, TreesAgree, TaskViewed, OpOnly, TreeOpReturns
<1>1. treeOp.stage = "loaded" /\ treeOp # NoTreeOp
  BY DEF TaskOpKnows, NoTreeOp
<1>2. treeOp.state \in Closable /\ taskRecord.state \in Closable /\ taskStart = "none"
  BY <1>1 DEF TaskOpKnows, TaskStartKnows
<1>3. \/ taskRecord' = taskRecord /\ strayed'
      \/ taskRecord' = [taskRecord EXCEPT !.state = treeOp.state] /\ strayed' = strayed
  BY DEF RecordSaved
<1>4. WorktreeTaskTypes'
  <2>1. /\ taskRecord \in TaskRecords /\ strayed \in BOOLEAN /\ treeOp.state \in RecordStates
        /\ TaskTurnsTyped' /\ WorktreeTaskTypes
    BY TaskTypesGive DEF TreeOps, TaskTurnsTyped
  <2>2. taskRecord' \in TaskRecords
    BY <1>3, <2>1 DEF TaskRecords
  <2>3. strayed' \in BOOLEAN
    BY <2>1 DEF RecordSaved
  <2>4. /\ taskTree' \in {"none", "there", "gone"} /\ taskBranch' \in BOOLEAN
        /\ talk' \in {"none", "tree", "project", "deleted"} /\ projectBusy' \in BOOLEAN
        /\ taskHeld' \subseteq {"project", "tree"} /\ taskCrashes' \in 0 .. MaxTaskCrashes
        /\ taskStart' \in {"none", "create", "record", "launch", "note", "abandon"}
        /\ cutShort' \in {"none"} \cup Closed
    BY <2>1 DEF WorktreeTaskTypes
  <2>. QED
    BY <2>1, <2>2, <2>3, <2>4, TaskTypesFrom, NoTreeOpTyped
<1>5. /\ taskRecord'.state \in Closable /\ taskRecord'.removed = taskRecord.removed
      /\ taskRecord.state \in Closable
  BY <1>2, <1>3, TaskTypesGive DEF TaskRecords
<1>6. TreesReachable' /\ TaskStartKnows'
  BY <1>1, <1>2, <1>3, <1>5 DEF TreesReachable, TaskStartKnows, Closable, Ending
<1>7. AppliesAlone' /\ TaskOpKnows' /\ TreeHasBranch'
  <2>1. taskHeld' = {} /\ Len(taskTurns') \in Nat
    BY TaskTypesGive DEF TaskTurnsTyped
  <2>. QED
    BY <1>5, <2>1, TaskOpReturned DEF TreeHasBranch
<1>. QED
  BY <1>4, <1>6, <1>7

\* Apply and keep_branch reserve what they change when nothing runs in it.
LEMMA TaskReservesInv == ASSUME WorktreeTasksInv, TaskReserves PROVE WorktreeTasksInv'
<1>. USE DEF WorktreeTasksInv, TreesAgree, TaskReserves, OpOnly
<1>1. treeOp # NoTreeOp /\ treeOp.kind \in {"apply", "branch"} /\ treeOp.stage = "loaded"
  BY DEF NoTreeOp
<1>2. TreesReachable' /\ TaskStartKnows' /\ TreeHasBranch'
  BY <1>1, TreesKept DEF TaskStartKnows, Ending
<1>3. CASE treeOp' = NoTreeOp /\ taskHeld' = {}
  <2>1. WorktreeTaskTypes'
    BY <1>3 DEF WorktreeTaskTypes, NoTreeOp, RecordStates
  <2>2. AppliesAlone' /\ TaskOpKnows'
    BY <1>1, <1>3, <2>1, TaskOpReturned DEF TaskOpKnows, WorktreeTaskTypes
  <2>. QED
    BY <1>2, <2>1, <2>2
<1>4. CASE /\ ~treeOp.active /\ taskTree = "there" /\ Reservable(Places(treeOp.kind))
           /\ taskHeld' = Places(treeOp.kind)
           /\ treeOp' = [treeOp EXCEPT !.stage = "working"]
  <2>1. WorktreeTaskTypes'
    BY <1>4 DEF WorktreeTaskTypes, Places
  <2>2. /\ treeOp'.stage = "working" /\ treeOp'.kind = treeOp.kind
        /\ treeOp'.state = treeOp.state /\ ~treeOp'.active /\ treeOp' # NoTreeOp
    BY <1>4 DEF WorktreeTaskTypes, NoTreeOp
  <2>3. TreeIdle' /\ (treeOp.kind = "apply" => ~projectBusy')
    BY <1>4, <1>1 DEF Reservable, Places, TreeIdle, TreeFront
  <2>4. AppliesAlone'
    BY <2>2, <2>3 DEF AppliesAlone
  <2>5. TaskOpKnows'
    <3>1. treeOp'.turn = treeOp.turn /\ treeOp'.removed = treeOp.removed
      BY <1>4
    <3>. QED
      BY <1>1, <1>4, <2>2, <2>3, <3>1 DEF TaskOpKnows, Places, Closing, Ending, NoTreeOp
  <2>. QED
    BY <1>2, <2>1, <2>4, <2>5
<1>. QED
  BY <1>3, <1>4 DEF Places, TreeOpReturns

\* What Git did while it was reserved.
LEMMA TaskWorksInv == ASSUME WorktreeTasksInv, TaskWorks PROVE WorktreeTasksInv'
<1>. USE DEF WorktreeTasksInv, TreesAgree, TaskWorks, OpOnly
<1>1. /\ treeOp # NoTreeOp /\ treeOp.kind \in {"apply", "branch"} /\ treeOp.stage = "working"
      /\ treeOp.state \in Closable /\ taskRecord.state \in Closable /\ taskStart = "none"
      /\ taskTree = "there" /\ taskBranch /\ taskHeld = Places(treeOp.kind)
  BY DEF NoTreeOp, TaskOpKnows, TaskStartKnows, TreeHasBranch
<1>2. CASE /\ treeOp' = [treeOp EXCEPT !.stage = "closing",
                                       !.state = IF treeOp.kind = "apply" THEN "applied"
                                                                          ELSE "branch"]
           /\ UNCHANGED <<taskHeld, taskRecord, strayed>>
  <2>1. WorktreeTaskTypes'
    <3>1. treeOp' \in TreeOps
      BY <1>2, TaskTypesGive, TaskOpGoesOn DEF RecordStates
    <3>. QED
      BY <1>2, <3>1 DEF WorktreeTaskTypes, TreeOps
  <2>2. TreesReachable' /\ TaskStartKnows' /\ TreeHasBranch'
    BY <1>1, <1>2, TreesKept DEF TaskStartKnows, Ending
  <2>3. /\ treeOp'.stage = "closing" /\ treeOp'.kind = treeOp.kind
        /\ treeOp'.state \in {"applied", "branch"} /\ treeOp'.active = treeOp.active
        /\ treeOp'.turn = treeOp.turn /\ treeOp' # NoTreeOp
        /\ treeOp'.removed = treeOp.removed
    BY <1>2, TaskTypesGive, TaskOpGoesOn DEF RecordStates
  <2>4. TreeIdle' /\ (treeOp.kind = "apply" => ~projectBusy')
    BY <1>1 DEF TaskOpKnows, Places, TreeIdle, TreeFront
  <2>5. AppliesAlone'
    BY <2>3, <2>4 DEF AppliesAlone
  <2>6. TaskOpKnows'
    BY <1>1, <1>2, <2>3, <2>4 DEF TaskOpKnows, Closed, Places, Closing, Ending, NoTreeOp
  <2>. QED
    BY <2>1, <2>2, <2>5, <2>6
<1>3. CASE /\ treeOp' = NoTreeOp /\ taskHeld' = {}
           /\ \/ UNCHANGED <<taskRecord, strayed>>
              \/ RecordSaved([taskRecord EXCEPT !.state = treeOp.state])
  <2>1. treeOp' = NoTreeOp /\ taskHeld' = {}
    BY <1>3
  <2>2. \/ taskRecord' = taskRecord /\ (strayed' \/ strayed' = strayed)
        \/ taskRecord' = [taskRecord EXCEPT !.state = treeOp.state] /\ strayed' = strayed
    BY <1>3 DEF RecordSaved
  <2>3. strayed' \in BOOLEAN
    BY <1>3 DEF RecordSaved, WorktreeTaskTypes
  <2>4. WorktreeTaskTypes'
    BY <2>1, <2>2, <2>3 DEF WorktreeTaskTypes, NoTreeOp, RecordStates
  <2>5. /\ taskRecord'.state \in Closable /\ taskRecord'.removed = taskRecord.removed
        /\ taskRecord.state \in Closable
    BY <1>1, <2>2, TaskTypesGive DEF TaskRecords
  <2>6. TreesReachable' /\ TaskStartKnows' /\ TreeHasBranch'
    BY <1>1, <2>1, <2>2, <2>5 DEF TreesReachable, TaskStartKnows, TreeHasBranch, Closable, Ending
  <2>7. AppliesAlone' /\ TaskOpKnows'
    BY <2>1, <2>4, <2>5, TaskOpReturned DEF WorktreeTaskTypes
  <2>. QED
    BY <2>4, <2>6, <2>7
<1>. QED
  BY <1>2, <1>3 DEF TreeOpReturns

\* discard waits for the turn it stopped.
LEMMA TaskStopsInv == ASSUME WorktreeTasksInv, TaskTurnStops \/ TaskStopped PROVE WorktreeTasksInv'
<1>. USE DEF WorktreeTasksInv, TreesAgree, OpOnly
<1>1. /\ treeOp # NoTreeOp /\ taskStart = "none" /\ taskHeld = {}
      /\ taskRecord.state \in Closable /\ treeOp.kind \notin {"none", "view", "apply", "branch"}
  <2>1. treeOp.stage \in {"loaded", "waiting"} /\ treeOp # NoTreeOp
    BY DEF TaskTurnStops, TaskStopped, NoTreeOp
  <2>. QED
    BY <2>1 DEF TaskTurnStops, TaskStopped, TaskOpKnows, TaskStartKnows, NoTreeOp
<1>2. TreesReachable' /\ TaskStartKnows' /\ TreeHasBranch' /\ taskHeld' = {}
  BY <1>1, TreesKept DEF TaskStartKnows, TaskTurnStops, TaskStopped, TreeOpReturns, Ending
<1>3. CASE TaskTurnStops
  <2>1. taskTurns' \in Seq(TurnStates) /\ Len(taskTurns') = Len(taskTurns)
    <3>1. taskTurns \in Seq(TurnStates)
      BY DEF WorktreeTaskTypes, TurnStates
    <3>2. CASE treeOp.turn # 0 /\ taskTurns[treeOp.turn] # "ended"
      <4>1. treeOp.turn \in 1 .. Len(taskTurns)
        BY <3>1, <3>2 DEF TaskOpKnows
      <4>2. PICK v \in TurnStates : taskTurns' = [taskTurns EXCEPT ![treeOp.turn] = v]
        BY <1>3, <3>2 DEF TaskTurnStops, TurnStates
      <4>. QED
        BY <3>1, <4>1, <4>2, TaskTurnSet
    <3>3. CASE ~(treeOp.turn # 0 /\ taskTurns[treeOp.turn] # "ended")
      BY <1>3, <3>1, <3>3 DEF TaskTurnStops
    <3>. QED
      BY <3>2, <3>3
  <2>2. /\ treeOp'.stage \in {"waiting", "closing"} /\ treeOp'.kind = treeOp.kind
        /\ treeOp'.state = "discarded" /\ treeOp'.active = treeOp.active
        /\ treeOp'.turn = treeOp.turn /\ treeOp' # NoTreeOp
        /\ treeOp'.removed = treeOp.removed /\ treeOp' \in TreeOps
    <3>1. PICK stage \in {"waiting", "closing"} :
            treeOp' = [treeOp EXCEPT !.stage = stage, !.state = "discarded"]
      BY <1>3 DEF TaskTurnStops
    <3>. QED
      BY <3>1, TaskTypesGive, TaskOpGoesOn DEF RecordStates
  <2>3. WorktreeTaskTypes'
    <3>. QED
      BY <1>3, <2>1, <2>2, TaskTypesGive DEF TaskTurnStops, WorktreeTaskTypes, TurnStates, TreeOps,
         TaskTurnsTyped
  <2>4. AppliesAlone'
    BY <1>1, <2>2 DEF AppliesAlone
  <2>5. TaskOpKnows'
    BY <1>1, <1>2, <1>3, <2>1, <2>2 DEF TaskOpKnows, Closed, Closing, Ending, TaskTurnStops, NoTreeOp
  <2>. QED
    BY <1>2, <2>3, <2>4, <2>5
<1>4. CASE TaskStopped
  <2>1. \/ treeOp' = NoTreeOp
        \/ treeOp' = [treeOp EXCEPT !.stage = "closing"] /\ treeOp'.kind = treeOp.kind
           /\ treeOp'.stage = "closing" /\ treeOp'.state = "discarded"
           /\ treeOp'.active = treeOp.active /\ treeOp'.turn = treeOp.turn /\ treeOp' # NoTreeOp
           /\ treeOp'.removed = treeOp.removed /\ treeOp' \in TreeOps
    <3>1. treeOp \in TreeOps /\ treeOp.state = "discarded"
      BY <1>4, TaskTypesGive DEF TaskStopped, TaskOpKnows
    <3>2. [treeOp EXCEPT !.stage = "closing"] = [treeOp EXCEPT !.stage = "closing", !.state = "discarded"]
      BY <3>1 DEF TreeOps
    <3>3. CASE treeOp' = [treeOp EXCEPT !.stage = "closing"]
      BY <3>1, <3>2, <3>3, TaskOpGoesOn DEF RecordStates
    <3>. QED
      BY <1>4, <3>3 DEF TaskStopped, TreeOpReturns
  <2>2. WorktreeTaskTypes'
    <3>1. treeOp' \in TreeOps
      BY <2>1, NoTreeOpTyped
    <3>. QED
      BY <1>2, <1>4, <3>1 DEF TaskStopped, WorktreeTaskTypes, TreeOps
  <2>3. AppliesAlone'
    BY <1>1, <2>1 DEF AppliesAlone, NoTreeOp
  <2>4. TaskOpKnows'
    <3>1. CASE treeOp' = NoTreeOp
      BY <1>1, <1>2, <1>4, <2>2, <3>1, TaskOpReturned DEF TaskStopped, WorktreeTaskTypes
    <3>2. CASE treeOp' # NoTreeOp
      BY <1>1, <1>2, <1>4, <2>1, <3>2 DEF TaskOpKnows, Closed, Closing, Ending, TaskStopped, NoTreeOp
    <3>. QED
      BY <3>1, <3>2
  <2>. QED
    BY <1>2, <2>2, <2>3, <2>4
<1>. QED
  BY <1>3, <1>4

\* What an operation that closes the task knows, and a step of it that goes on keeps.
LEMMA ClosingKnows ==
  ASSUME WorktreeTasksInv, treeOp.stage \in Closing
  PROVE  /\ treeOp.state \in Closed /\ taskRecord.state \in Closable \cup {treeOp.state}
         /\ treeOp.state = "branch" => taskBranch
         /\ treeOp # NoTreeOp /\ treeOp.kind # "none" /\ taskStart = "none"
         /\ treeOp \in TreeOps /\ taskRecord \in TaskRecords
BY TaskTypesGive DEF WorktreeTasksInv, TaskOpKnows, TaskStartKnows, NoTreeOp, Closing, Ending

LEMMA ClosingGoesOn ==
  ASSUME WorktreeTasksInv, treeOp.stage \in Closing,
         NEW stage \in Ending, NEW told \in BOOLEAN,
         treeOp' = [treeOp EXCEPT !.stage = stage, !.removed = told],
         UNCHANGED <<taskRecord, taskTurns, taskHeld, strayed>>, OpOnly,
         taskTree' \in {taskTree, "gone"}, taskBranch' \in BOOLEAN,
         talk' \in {"none", "tree", "project", "deleted"},
         stage = "pruning" \/ told => taskTree' = "gone",
         taskTree' = "there" => taskBranch',
         treeOp.state = "branch" => taskBranch',
         taskRecord.state = "branch" => taskBranch'
  PROVE  WorktreeTasksInv'
<1>. USE DEF WorktreeTasksInv, TreesAgree, OpOnly
<1>1. /\ treeOp'.stage = stage /\ treeOp'.removed = told /\ treeOp'.kind = treeOp.kind
      /\ treeOp'.state = treeOp.state /\ treeOp'.turn = treeOp.turn /\ treeOp' # NoTreeOp
      /\ treeOp' \in TreeOps
  BY ClosingKnows DEF TreeOps, NoTreeOp, Closing, Ending
<1>2. WorktreeTaskTypes'
  BY <1>1, TaskTypesGive, TaskTypesFrom DEF WorktreeTaskTypes, TaskTurnsTyped
<1>3. TreesReachable'
  BY <1>1 DEF TreesReachable
<1>4. TreeIdle' = TreeIdle
  BY DEF TreeIdle, TreeFront
<1>5. AppliesAlone'
  BY <1>1, <1>4 DEF AppliesAlone
<1>6. TaskOpKnows'
  BY <1>1, <1>4, ClosingKnows DEF TaskOpKnows, Closing, Ending
<1>7. TaskStartKnows' /\ TreeHasBranch'
  BY ClosingKnows DEF TaskStartKnows, TreeHasBranch, Closable, Closed
<1>. QED
  BY <1>2, <1>3, <1>5, <1>6, <1>7

\* Closing removes the worktree, then the branch unless it is kept, and moves the
\* conversation.
LEMMA TaskClosesInv ==
  ASSUME WorktreeTasksInv, TaskTreeRemoved \/ TaskBranchPruned \/ TalkMoved
  PROVE  WorktreeTasksInv'
<1>. treeOp.stage \in Closing
  BY DEF TaskTreeRemoved, TaskBranchPruned, TalkMoved, Closing, Ending
<1>1. /\ taskTree = "there" => taskBranch
      /\ taskRecord.state = "branch" => taskBranch /\ treeOp.state = "branch"
      /\ treeOp.stage = "pruning" \/ treeOp.removed => taskTree = "gone"
      /\ taskBranch \in BOOLEAN /\ talk \in {"none", "tree", "project", "deleted"}
  BY ClosingKnows DEF WorktreeTasksInv, TreesAgree, TreeHasBranch, TreesReachable, TaskOpKnows,
     WorktreeTaskTypes, Closable
<1>2. CASE TaskTreeRemoved
  <2>1. PICK stage \in Ending :
          /\ treeOp' = [treeOp EXCEPT !.stage = stage]
          /\ stage = "pruning" => taskTree' = "gone"
          /\ taskTree' \in {taskTree, "gone"}
    BY <1>2 DEF TaskTreeRemoved, Ending
  <2>2. treeOp' = [treeOp EXCEPT !.stage = stage, !.removed = treeOp.removed] /\ treeOp.removed \in BOOLEAN
    BY <2>1, ClosingKnows DEF TreeOps
  <2>. QED
    BY <1>1, <1>2, <2>1, <2>2, ClosingKnows, ClosingGoesOn DEF TaskTreeRemoved
<1>3. CASE TaskBranchPruned
  <2>1. PICK told \in BOOLEAN : treeOp' = [treeOp EXCEPT !.stage = "moving", !.removed = told]
    BY <1>3, WorktreeTasksAssumption DEF TaskBranchPruned
  <2>2. taskBranch' \in BOOLEAN /\ (treeOp.state = "branch" => taskBranch')
    BY <1>1, <1>3, ClosingKnows DEF TaskBranchPruned, KeepsBranch
  <2>. QED
    BY <1>1, <1>3, <2>1, <2>2, ClosingGoesOn DEF TaskBranchPruned, Ending
<1>4. CASE TalkMoved
  <2>1. treeOp' = [treeOp EXCEPT !.stage = "saving", !.removed = treeOp.removed] /\ treeOp.removed \in BOOLEAN
    BY <1>4, ClosingKnows DEF TalkMoved, TreeOps
  <2>2. talk' \in {"none", "tree", "project", "deleted"}
    BY <1>1, <1>4 DEF TalkMoved
  <2>. QED
    BY <1>1, <1>4, <2>1, <2>2, ClosingKnows, ClosingGoesOn DEF TalkMoved, Ending
<1>. QED
  BY <1>2, <1>3, <1>4

\* What a cut-off close leaves is known: it was to record the state of the operation.
LEMMA CutShortKnows ==
  ASSUME WorktreeTasksInv, treeOp.stage \in Closing
  PROVE  /\ CutShort \in {"none"} \cup Closed
         /\ CutShort # "none" => taskRecord.state \in Closable
         /\ CutShort = "branch" => taskBranch
         /\ taskRecord.state \in Closable => CutShort # "none"
<1>1. taskRecord.state \in Closed => cutShort = "none"
  BY DEF WorktreeTasksInv, TaskOpKnows, Closable, Closed
<1>. QED
  BY <1>1, ClosingKnows, TaskTypesGive DEF CutShort, Closable, Closed

\* The record names the state the operation decided, or stays open.
LEMMA TaskClosedInv == ASSUME WorktreeTasksInv, TaskClosed PROVE WorktreeTasksInv'
<1>. USE DEF WorktreeTasksInv, TreesAgree, TreeOpReturns
<1>. treeOp.stage = "saving" /\ treeOp.stage \in Closing
  BY DEF TaskClosed, Closing, Ending
<1>1. /\ treeOp' = NoTreeOp /\ taskHeld' = {}
      /\ UNCHANGED <<taskTree, taskBranch, talk, taskTurns, strayed, projectBusy, taskStart, taskCrashes>>
  BY DEF TaskClosed
<1>2. \/ taskRecord' = [state |-> treeOp.state, removed |-> treeOp.removed] /\ cutShort' = "none"
      \/ taskRecord' = taskRecord /\ cutShort' = CutShort
  BY DEF TaskClosed
<1>3. taskRecord' \in TaskRecords /\ cutShort' \in {"none"} \cup Closed
  BY <1>2, ClosingKnows, CutShortKnows DEF TaskRecords, TreeOps
<1>4. WorktreeTaskTypes'
  BY <1>1, <1>3, NoTreeOpTyped, TaskTypesGive DEF WorktreeTaskTypes, TreeOps, TaskRecords
<1>5. AppliesAlone' /\ TaskOpKnows'
  BY <1>1, <1>2, <1>4, CutShortKnows DEF AppliesAlone, TaskOpKnows, NoTreeOp, WorktreeTaskTypes,
     Closing, Ending
<1>6. TaskStartKnows' /\ TreeHasBranch'
  BY <1>1, <1>2, ClosingKnows DEF TaskStartKnows, TreeHasBranch, Closed
<1>7. treeOp.removed => taskTree = "gone"
  BY DEF TaskOpKnows
<1>8. TreesReachable'
  BY <1>1, <1>2, <1>7, ClosingKnows, CutShortKnows DEF TreesReachable, Closed, Closable, NoTreeOp
<1>. QED
  BY <1>4, <1>5, <1>6, <1>8

-----------------------------------------------------------------------------
(* Deleting the conversation, and a stop of the program                    *)

\* A conversation is deleted only when its worktree is idle and not reserved.
LEMMA TaskDeletedInv == ASSUME WorktreeTasksInv, TalkDeleted PROVE WorktreeTasksInv'
<1>. USE DEF WorktreeTasksInv, TreesAgree, TalkDeleted
<1>1. WorktreeTaskTypes'
  BY DEF WorktreeTaskTypes
<1>2. TreesReachable' /\ TaskStartKnows' /\ TreeHasBranch'
  BY DEF TreesReachable, TaskStartKnows, TreeHasBranch, Deletable
<1>3. AppliesAlone' /\ TaskOpKnows'
  BY DEF AppliesAlone, TaskOpKnows, TreeIdle, TreeFront
<1>. QED
  BY <1>1, <1>2, <1>3

\* A stop of the program ends the turns and forgets the operation.
LEMMA TaskCrashInv == ASSUME WorktreeTasksInv, TasksCrash PROVE WorktreeTasksInv'
<1>. USE DEF WorktreeTasksInv, TreesAgree, TasksCrash
<1>1. taskTurns' \in Seq(TurnStates) /\ Len(taskTurns') = Len(taskTurns)
  BY DEF WorktreeTaskTypes, TurnStates
<1>2. /\ cutShort' \in {"none"} \cup Closed
      /\ cutShort' # "none" => taskRecord.state \in Closable
      /\ cutShort' = "branch" => taskBranch
      /\ cutShort' = "none" /\ taskRecord.state \in Closable =>
            cutShort = "none" /\ treeOp.stage \notin Ending
  BY CutShortKnows, TaskTypesGive DEF TaskOpKnows, TreesReachable, Closing
<1>3. WorktreeTaskTypes'
  <2>1. taskCrashes' \in 0 .. MaxTaskCrashes
    BY WorktreeTasksAssumption DEF WorktreeTaskTypes
  <2>2. TaskTurnsTyped'
    BY <1>1, TaskTypesGive DEF TaskTurnsTyped
  <2>. QED
    BY <1>2, <2>1, <2>2, NoTreeOpTyped, TaskTypesFrom DEF WorktreeTaskTypes, TaskRecords
<1>4. TreesReachable' /\ TaskStartKnows' /\ TreeHasBranch'
  BY <1>2 DEF TreesReachable, TaskStartKnows, TreeHasBranch, WorktreeTaskTypes, NoTreeOp, Ending,
     Closing
<1>5. AppliesAlone' /\ TaskOpKnows'
  BY <1>1, <1>2 DEF AppliesAlone, TaskOpKnows, NoTreeOp, Closing, Ending, WorktreeTaskTypes
<1>. QED
  BY <1>3, <1>4, <1>5

-----------------------------------------------------------------------------

LEMMA WorktreeTasksInitInv == WorktreeTasksInit => WorktreeTasksInv
<1>. SUFFICES ASSUME WorktreeTasksInit PROVE WorktreeTasksInv
  OBVIOUS
<1>. USE DEF WorktreeTasksInit
<1>1. WorktreeTaskTypes
  <2>1. taskRecord \in TaskRecords /\ taskTurns \in Seq(TurnStates) /\ Len(taskTurns) = 0
    BY DEF TaskRecords, RecordStates, TurnStates
  <2>2. taskCrashes \in 0 .. MaxTaskCrashes /\ Len(taskTurns) <= MaxTaskTurns
    BY <2>1, WorktreeTasksAssumption
  <2>. QED
    BY <2>1, <2>2, NoTreeOpTyped DEF WorktreeTaskTypes, TaskRecords, TreeOps, TurnStates
<1>2. TreesReachable /\ AppliesAlone /\ TaskStartKnows /\ TaskOpKnows /\ TreeHasBranch
  BY <1>1 DEF TreesReachable, AppliesAlone, TaskStartKnows, TaskOpKnows, TreeHasBranch, NoTreeOp,
     Closable, Closing, Ending, WorktreeTaskTypes
<1>. QED
  BY <1>1, <1>2 DEF WorktreeTasksInv, TreesAgree

LEMMA WorktreeTasksStepInv ==
  ASSUME WorktreeTasksInv, [WorktreeTasksNext]_worktreeVars
  PROVE  WorktreeTasksInv'
<1>1. CASE TreeFollowUp \/ TreeTurnRuns \/ TreeTurnEnds
  BY <1>1, TaskTurnsInv
<1>2. CASE ProjectTask
  BY <1>2, TaskProjectInv
<1>3. CASE \/ TaskPrepares \/ TaskTreeCreated \/ TaskRecorded \/ TaskLaunched \/ TaskNoted
           \/ TaskAbandoned
  BY <1>3, TaskStartInv
<1>4. CASE \E kind \in {"view", "apply", "branch", "discard"} : TreeOpLoads(kind)
  BY <1>4, TaskLoadsInv
<1>5. CASE TaskViewed
  BY <1>5, TaskViewedInv
<1>6. CASE TaskReserves
  BY <1>6, TaskReservesInv
<1>7. CASE TaskWorks
  BY <1>7, TaskWorksInv
<1>8. CASE TaskTurnStops \/ TaskStopped
  BY <1>8, TaskStopsInv
<1>9. CASE TaskTreeRemoved \/ TaskBranchPruned \/ TalkMoved
  BY <1>9, TaskClosesInv
<1>10. CASE TaskClosed
  BY <1>10, TaskClosedInv
<1>11. CASE TalkDeleted
  BY <1>11, TaskDeletedInv
<1>12. CASE TasksCrash
  BY <1>12, TaskCrashInv
<1>13. CASE UNCHANGED worktreeVars
  BY <1>13 DEF worktreeVars, WorktreeTasksInv, TreesAgree, WorktreeTaskTypes, TreesReachable,
               AppliesAlone, TaskStartKnows, TaskOpKnows, TreeHasBranch, TreeIdle, TreeFront
<1>. QED
  BY <1>1, <1>2, <1>3, <1>4, <1>5, <1>6, <1>7, <1>8, <1>9, <1>11, <1>12, <1>13,
     <1>10 DEF WorktreeTasksNext

\* What an operation of a worktree task knows between its steps (worktree_tasks.rs).
THEOREM WorktreeTasksInvariant == WorktreeTasksSpec => []WorktreeTasksInv
BY WorktreeTasksInitInv, WorktreeTasksStepInv, PTL DEF WorktreeTasksSpec

\* For any number of turns and of stops of the program between two steps, also of a
\* close between the removal of the worktree and the save of its record: TreesAgree
\* (types, TreesReachable and AppliesAlone) holds of a worktree task.  TreesReachable
\* excepts starts that were cut off, changes that were not stored, conversations
\* deleted while their task was starting and, for the conversation and the worktree of
\* an open task, a close that was cut off (worktree_tasks.rs).
THEOREM WorktreesAgree == WorktreeTasksSpec => []TreesAgree
<1>1. WorktreeTasksInv => TreesAgree
  BY DEF WorktreeTasksInv
<1>. QED
  BY <1>1, WorktreeTasksInvariant, PTL
=============================================================================
