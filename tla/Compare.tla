-------------------------------- MODULE Compare --------------------------------
(***************************************************************************)
(* One comparison of models (compare.rs): a lane per model, each with its  *)
(* own conversation in its own Git worktree (worktrees.rs), a stored       *)
(* record and the project's scoreboard.                                    *)
(*                                                                         *)
(* The operations of a process run one at a time under LOCK and keep a     *)
(* copy of the record between their awaits.  Turns of the lanes run at the *)
(* same time, and another process saves the record, too.  A step is what   *)
(* happens between two awaits.                                             *)
(***************************************************************************)
EXTENDS Naturals, Sequences, FiniteSets

CONSTANTS
    LaneCount,      \* lanes of the comparison
    MaxTurns,       \* bound: turns of a lane's conversation
    MaxOps,         \* bound: operations of this process
    MaxOtherSaves,  \* bound: saves of another process
    CompareFaults   \* may the database refuse to store the record?

ASSUME CompareAssumption ==
    /\ LaneCount \in Nat \ {0} /\ MaxTurns \in Nat \ {0}
    /\ MaxOps \in Nat /\ MaxOtherSaves \in Nat
    /\ CompareFaults \in BOOLEAN

Lanes == 1 .. LaneCount
NoLane == 0

VARIABLES
    laneTurns,      \* the jobs of a lane's conversation, oldest first
    laneTree,       \* a lane's worktree
    group,          \* the stored record
    boardRuns,      \* the scoreboard: runs of every lane's model
    boardWins,      \* and wins of each
    compareOp,      \* the operation that holds LOCK
    copy,           \* its copy of the record
    copyFresh,      \* has the stored record still the revision of the copy?
    opsLeft, otherSavesLeft,
    \* what happened
    unstored        \* an operation changed worktrees and could not save that

compareVars == <<laneTurns, laneTree, group, boardRuns, boardWins, compareOp, copy, copyFresh,
                 opsLeft, otherSavesLeft, unstored>>

Unended == {"queued", "running", "cancelling"}
LaneRecord == [turn : 0 .. MaxTurns, active : BOOLEAN, removed : BOOLEAN]
GroupRecord == [state : {"none", "running", "done", "applied", "discarded"},
                counted : BOOLEAN, countRuns : BOOLEAN,
                winner : {NoLane} \cup Lanes, lanes : [Lanes -> LaneRecord]]

NewLane == [turn |-> 0, active |-> TRUE, removed |-> FALSE]
NoGroup == [state |-> "none", counted |-> FALSE, countRuns |-> FALSE, winner |-> NoLane,
            lanes |-> [l \in Lanes |-> NewLane]]
NoOp == [kind |-> "none", stage |-> "none", lane |-> NoLane, pick |-> NoLane]

CompareTypes ==
    /\ laneTurns \in [Lanes -> Seq(Unended \cup {"ended"})]
    /\ \A l \in Lanes : Len(laneTurns[l]) <= MaxTurns
    /\ laneTree \in [Lanes -> {"none", "there", "gone"}]
    /\ group \in GroupRecord
    /\ boardRuns \in Nat /\ boardWins \in [Lanes -> Nat]
    /\ compareOp \in [kind : {"none", "start", "view", "keep", "discard", "clean", "cancel"},
                      stage : {"none", "create", "launch", "undo", "refresh", "apply", "await",
                               "again", "remove", "save"},
                      lane : Nat, pick : {NoLane} \cup Lanes]
    /\ copy \in GroupRecord
    /\ copyFresh \in BOOLEAN /\ unstored \in BOOLEAN
    /\ opsLeft \in 0 .. MaxOps /\ otherSavesLeft \in 0 .. MaxOtherSaves

CompareInit ==
    /\ laneTurns = [l \in Lanes |-> <<>>]
    /\ laneTree = [l \in Lanes |-> "none"]
    /\ group = NoGroup
    /\ boardRuns = 0 /\ boardWins = [l \in Lanes |-> 0]
    /\ compareOp = NoOp /\ copy = NoGroup /\ copyFresh = TRUE
    /\ opsLeft = MaxOps /\ otherSavesLeft = MaxOtherSaves
    /\ unstored = FALSE

BoardUnchanged == UNCHANGED <<group, boardRuns, boardWins, opsLeft, otherSavesLeft, unstored>>

-----------------------------------------------------------------------------
(* The turns of a lane's conversation run one after the other.             *)

Front(l) == {i \in 1 .. Len(laneTurns[l]) :
                /\ laneTurns[l][i] # "ended"
                /\ \A j \in 1 .. i - 1 : laneTurns[l][j] = "ended"}

\* Engine::request_cancel: a turn that waits behind another one ends at once,
\* any other when its loop notices.
CancelledTurns(l, i) ==
    IF i = 0 \/ i > Len(laneTurns[l]) THEN laneTurns[l]
    ELSE IF laneTurns[l][i] = "ended" THEN laneTurns[l]
    ELSE [laneTurns[l] EXCEPT ![i] = IF i \in Front(l) THEN "cancelling" ELSE "ended"]

OthersUnchanged == UNCHANGED <<laneTree, compareOp, copy, copyFresh>> /\ BoardUnchanged

FollowUp(l) ==
    /\ laneTree[l] = "there" /\ laneTurns[l] # <<>>
    /\ Len(laneTurns[l]) < MaxTurns
    /\ laneTurns' = [laneTurns EXCEPT ![l] = Append(@, "queued")]
    /\ OthersUnchanged

LaneTurnRuns(l) ==
    /\ \E i \in Front(l) :
          /\ laneTurns[l][i] = "queued"
          /\ laneTurns' = [laneTurns EXCEPT ![l][i] = "running"]
    /\ OthersUnchanged

LaneTurnEnds(l) ==
    /\ \E i \in Front(l) :
          /\ laneTurns[l][i] \in {"running", "cancelling"}
          /\ laneTurns' = [laneTurns EXCEPT ![l][i] = "ended"]
    /\ OthersUnchanged

-----------------------------------------------------------------------------
(* refresh and save                                                        *)

LatestActive(l) == IF laneTurns[l] = <<>> THEN TRUE
                   ELSE laneTurns[l][Len(laneTurns[l])] # "ended"

\* A lane follows the latest job of its conversation.
RefreshedLane(rec, l) ==
    IF rec.lanes[l].removed THEN rec
    ELSE [rec EXCEPT !.lanes[l] = [@ EXCEPT !.turn = Len(laneTurns[l]), !.active = LatestActive(l)]]

\* The end of refresh: the state follows the lanes, and runs are counted once.
Decided(rec) ==
    LET over == rec.state = "running" /\ \A l \in Lanes : ~rec.lanes[l].active
        state == IF over THEN "done" ELSE rec.state
        counts == ~rec.counted /\ state \notin {"running", "discarded"}
    IN [rec EXCEPT !.state = state, !.counted = @ \/ counts, !.countRuns = @ \/ counts]

\* Mutant: the revision is not compared.
SavesAnyway == TRUE

\* The stored revision must be the one the record was loaded at.
SavesOver == copyFresh

\* The record and what it means for the scoreboard are one transaction.
Stored(rec) ==
    /\ group' = [rec EXCEPT !.countRuns = FALSE]
    /\ boardRuns' = IF rec.countRuns /\ ~group.counted THEN boardRuns + 1 ELSE boardRuns
    /\ boardWins' = [l \in Lanes |-> IF rec.winner = l /\ group.winner = NoLane
                                     THEN boardWins[l] + 1 ELSE boardWins[l]]

\* Another process refreshes and saves; a copy loaded before is stale then.
OtherSaves ==
    /\ group.state # "none" /\ otherSavesLeft > 0
    /\ otherSavesLeft' = otherSavesLeft - 1
    /\ Stored(Decided([group EXCEPT !.lanes = [l \in Lanes |-> RefreshedLane(group, l).lanes[l]]]))
    /\ copyFresh' = FALSE
    /\ UNCHANGED <<laneTurns, laneTree, compareOp, copy, opsLeft, unstored>>

-----------------------------------------------------------------------------
(* start                                                                   *)

OpMoves(stage, l) == compareOp' = [compareOp EXCEPT !.stage = stage, !.lane = l]
OpReturns == compareOp' = NoOp /\ copy' = NoGroup
KeepsCopy == UNCHANGED <<copy, copyFresh>> /\ BoardUnchanged

CompareStart ==
    /\ compareOp = NoOp /\ group.state = "none" /\ opsLeft > 0
    /\ \A l \in Lanes : laneTree[l] = "none"
    /\ opsLeft' = opsLeft - 1
    /\ compareOp' = [kind |-> "start", stage |-> "create", lane |-> 1, pick |-> NoLane]
    /\ copy' = [NoGroup EXCEPT !.state = "running"] /\ copyFresh' = TRUE
    /\ UNCHANGED <<laneTurns, laneTree, group, boardRuns, boardWins, otherSavesLeft, unstored>>

\* Every checkout is created before any turn starts; a failure removes them.
CreatesTree ==
    /\ compareOp.stage = "create" /\ compareOp.lane \in Lanes
    /\ \/ /\ laneTree' = [laneTree EXCEPT ![compareOp.lane] = "there"]
          /\ IF compareOp.lane < LaneCount THEN OpMoves("create", compareOp.lane + 1)
                                           ELSE OpMoves("launch", 1)
       \/ OpMoves("remove", 1) /\ UNCHANGED laneTree
    /\ UNCHANGED laneTurns /\ KeepsCopy

LaunchesTurn ==
    /\ compareOp.stage = "launch" /\ compareOp.lane \in Lanes
    /\ \/ /\ laneTurns' = [laneTurns EXCEPT ![compareOp.lane] = <<"queued">>]
          /\ copy' = [copy EXCEPT !.lanes[compareOp.lane].turn = 1]
          /\ IF compareOp.lane < LaneCount THEN OpMoves("launch", compareOp.lane + 1)
                                           ELSE OpMoves("save", 1)
       \/ OpMoves("undo", 1) /\ UNCHANGED <<laneTurns, copy>>
    /\ UNCHANGED <<laneTree, copyFresh>> /\ BoardUnchanged

\* Mutant: the turns that started are only waited for.
OnlyWaits(l) == laneTurns[l]

UndoneTurns(l) == CancelledTurns(l, copy.lanes[l].turn)

\* A turn could not start: the ones that did are cancelled and waited for in
\* turn, without a limit.
UndoesLaunch ==
    /\ compareOp.stage = "undo" /\ compareOp.lane \in Lanes
    /\ LET l == compareOp.lane
           turn == copy.lanes[l].turn
       IN /\ laneTurns' = [laneTurns EXCEPT ![l] = UndoneTurns(l)]
          /\ IF turn > 0 /\ laneTurns'[l][turn] # "ended" THEN UNCHANGED compareOp
             ELSE IF l < LaneCount THEN OpMoves("undo", l + 1) ELSE OpMoves("remove", 1)
    /\ UNCHANGED laneTree /\ KeepsCopy

-----------------------------------------------------------------------------
(* get and list, keep, discard and cancel                                  *)

\* An operation loads the record and goes on with its refresh.  Discarding a
\* comparison that is closed removes what is left of it.
CompareLoads(kind, pick) ==
    /\ compareOp = NoOp /\ group.state # "none" /\ opsLeft > 0
    /\ opsLeft' = opsLeft - 1
    /\ copy' = group /\ copyFresh' = TRUE
    /\ LET closed == group.state \in {"applied", "discarded"}
       IN /\ kind = "keep" => ~closed
          /\ (kind = "discard" /\ closed) => \E l \in Lanes : ~group.lanes[l].removed
          /\ compareOp' = [kind |-> IF kind = "discard" /\ closed THEN "clean" ELSE kind,
                           stage |-> IF kind = "discard" /\ closed THEN "remove" ELSE "refresh",
                           lane |-> 1, pick |-> pick]
    /\ laneTurns' = IF kind = "cancel"
                    THEN [l \in Lanes |-> IF group.lanes[l].active /\ ~group.lanes[l].removed
                                          THEN CancelledTurns(l, group.lanes[l].turn)
                                          ELSE laneTurns[l]]
                    ELSE laneTurns
    /\ UNCHANGED <<laneTree, group, boardRuns, boardWins, otherSavesLeft, unstored>>

\* One lane; Git reads its changes before the next.  After the last lane the
\* operation goes on, and a discard of a running comparison will not count.
RefreshesLane ==
    /\ compareOp.stage \in {"refresh", "again"} /\ compareOp.lane \in Lanes
    /\ LET l == compareOp.lane
           one == RefreshedLane(copy, l)
           first == compareOp.stage = "refresh"
           kind == compareOp.kind
       IN IF l < LaneCount
          THEN copy' = one /\ OpMoves(compareOp.stage, l + 1)
          ELSE IF ~first
          THEN /\ copy' = IF kind = "discard" THEN [Decided(one) EXCEPT !.state = "discarded"]
                                              ELSE Decided(one)
               /\ OpMoves("remove", 1)
          ELSE /\ copy' = IF kind = "discard" /\ Decided(one).state = "running"
                          THEN [Decided(one) EXCEPT !.counted = TRUE] ELSE Decided(one)
               /\ OpMoves(CASE kind = "keep" -> "apply" [] kind = "discard" -> "await"
                            [] OTHER -> "save", 0)
    /\ UNCHANGED <<laneTurns, laneTree, copyFresh>> /\ BoardUnchanged

\* keep: the lane's result is committed and applied to the project, or the
\* comparison is left as it is.
KeepApplies ==
    /\ compareOp.stage = "apply"
    /\ \/ /\ ~copy.lanes[compareOp.pick].active
          /\ ~copy.lanes[compareOp.pick].removed /\ laneTree[compareOp.pick] = "there"
          /\ copy' = [copy EXCEPT !.winner = compareOp.pick, !.state = "applied"]
          /\ OpMoves("await", 0)
       \/ OpReturns
    /\ UNCHANGED <<laneTurns, laneTree, copyFresh>> /\ BoardUnchanged

\* The lanes stop_lanes takes for working, from the copy.
ToStop(l) == l # compareOp.pick /\ copy.lanes[l].active /\ ~copy.lanes[l].removed

\* stop_lanes: first every such lane's latest job is cancelled.
StopsLanes ==
    /\ compareOp.stage = "await" /\ compareOp.lane = 0
    /\ laneTurns' = [l \in Lanes |-> IF ToStop(l) THEN CancelledTurns(l, copy.lanes[l].turn)
                                                  ELSE laneTurns[l]]
    /\ OpMoves("await", 1)
    /\ UNCHANGED laneTree /\ KeepsCopy

\* Then it is waited for, at most 60 seconds: a discard fails when they are
\* over, a keep goes on.
AwaitsLane ==
    /\ compareOp.stage = "await" /\ compareOp.lane \in Lanes
    /\ LET l == compareOp.lane
           over == ToStop(l) => laneTurns[l][copy.lanes[l].turn] = "ended"
       IN \/ /\ over /\ UNCHANGED copy
             /\ IF l < LaneCount THEN OpMoves("await", l + 1) ELSE OpMoves("again", 1)
          \/ ~over /\ compareOp.kind = "keep" /\ OpMoves("again", 1) /\ UNCHANGED copy
          \/ ~over /\ compareOp.kind = "discard" /\ OpReturns
    /\ UNCHANGED <<laneTurns, laneTree, copyFresh>> /\ BoardUnchanged

Marked(l, told) == [copy EXCEPT !.lanes[l].removed = @ \/ told]

\* remove_lanes, lane by lane: worktrees::dispose removes the checkout by force,
\* or fails, perhaps when the checkout is gone already, and the lane is kept.  A
\* start that failed is over then.
RemovesLane ==
    /\ compareOp.stage = "remove" /\ compareOp.lane \in Lanes
    /\ LET l == compareOp.lane
       IN \E gone \in {FALSE, ~copy.lanes[l].removed /\ laneTree[l] # "none"},
             told \in BOOLEAN :
             /\ told => gone
             /\ gone => told \/ CompareFaults
             /\ laneTree' = IF gone THEN [laneTree EXCEPT ![l] = "gone"] ELSE laneTree
             /\ IF l = LaneCount /\ compareOp.kind = "start" THEN OpReturns
                ELSE /\ copy' = Marked(l, told)
                     /\ IF l < LaneCount THEN OpMoves("remove", l + 1) ELSE OpMoves("save", 1)
    /\ UNCHANGED <<laneTurns, copyFresh>> /\ BoardUnchanged

\* persist and persist_refreshed: one transaction, refused when another process
\* saved since the record was loaded.
CompareSaves ==
    /\ compareOp.stage = "save"
    /\ \/ SavesOver /\ Stored(copy) /\ UNCHANGED unstored
       \/ /\ ~SavesOver \/ CompareFaults
          /\ unstored' = (unstored \/ compareOp.kind \in {"start", "keep", "discard", "clean"})
          /\ UNCHANGED <<group, boardRuns, boardWins>>
    /\ OpReturns
    /\ UNCHANGED <<laneTurns, laneTree, copyFresh, opsLeft, otherSavesLeft>>

-----------------------------------------------------------------------------

OpNext == CreatesTree \/ LaunchesTurn \/ UndoesLaunch \/ RefreshesLane \/ KeepApplies
          \/ StopsLanes \/ AwaitsLane \/ RemovesLane \/ CompareSaves

CompareCalls ==
    \/ CompareStart
    \/ \E kind \in {"view", "discard", "cancel"} : CompareLoads(kind, NoLane)
    \/ \E l \in Lanes : CompareLoads("keep", l)

CompareNext ==
    \/ CompareCalls \/ OpNext \/ OtherSaves
    \/ \E l \in Lanes : FollowUp(l) \/ LaneTurnRuns(l) \/ LaneTurnEnds(l)

CompareSpec == CompareInit /\ [][CompareNext]_compareVars

\* A turn that is cancelled ends, and the turn after it starts.
CancelledTurnEnds(l) ==
    /\ \E i \in Front(l) : laneTurns[l][i] = "cancelling"
    /\ LaneTurnEnds(l)

-----------------------------------------------------------------------------
(* What comparisons promise                                                *)

\* The scoreboard has one run of a comparison that finished, none of one that
\* still runs, and one win of its winner, whichever process saves the record
\* (compare.rs save, docs/COMPARE.md "Scoreboard").
BoardCountsOnce ==
    /\ boardRuns <= 1
    /\ group.state \in {"none", "running"} => boardRuns = 0
    /\ group.state \in {"done", "applied"} => boardRuns = 1
    /\ \A l \in Lanes : boardWins[l] = IF group.winner = l THEN 1 ELSE 0

\* The record tells which worktrees there are: a lane that is marked removed is
\* gone, every lane of an open comparison is there whatever was refused or failed
\* before, and one of a closed comparison that is not marked waits for the next
\* discard (compare.rs start, keep, remove_lanes, docs/COMPARE.md:58-66).  An
\* exception are removals that were not stored.
LanesAccounted ==
    /\ CompareTypes
    /\ \A l \in Lanes : group.lanes[l].removed => laneTree[l] = "gone"
    /\ compareOp = NoOp /\ ~unstored =>
          \A l \in Lanes :
             /\ group.state \in {"running", "done"} => laneTree[l] = "there"
             /\ group.state \in {"applied", "discarded"} /\ ~group.lanes[l].removed =>
                   laneTree[l] = "there" \/ CompareFaults

\* The record of a comparison agrees with the scoreboard and with the worktrees.
ComparisonsAgree == BoardCountsOnce /\ LanesAccounted

\* Every operation comes to its end, the ones that wait for turns, too.
CompareOpsEnd == compareOp # NoOp ~> compareOp = NoOp

\* Discard "stops running lanes and removes all lane worktrees" (docs/COMPARE.md:64):
\* it removes no worktree a turn of its lane still works in.
DiscardStops == [][\A l \in Lanes :
    compareOp.kind = "discard" /\ laneTree[l] = "there" /\ laneTree'[l] = "gone" =>
        \A i \in 1 .. Len(laneTurns[l]) : laneTurns[l][i] \notin {"running", "cancelling"}]_compareVars
=============================================================================
