--------------------------- MODULE RewindsProofs ---------------------------
(***************************************************************************)
(* What pausing a task promises holds for any number of requests,          *)
(* instructions and files, and what rewinds promise for any number of      *)
(* files, tasks and rewinds.  The first follows from the inductive         *)
(* invariant SteeringInv of SteeringProps, the second from CheckpointsInv  *)
(* of Checkpoints.                                                         *)
(***************************************************************************)
EXTENDS SteeringProps, Checkpoints, TLAPS

\* A wake-up moves only a waiting task, to where it reads the flag again; a
\* resume leaves a permit if it moves none.
LEMMA WakeFacts ==
  ASSUME TypeOK, Wake \/ WakeWaiters
  PROVE  /\ pc' = IF pc = "wait" THEN "test" ELSE pc
         /\ permit' \in BOOLEAN
         /\ Wake /\ pc # "wait" => permit'
BY DEF Wake, WakeWaiters, TypeOK

-----------------------------------------------------------------------------
(* Types                                                                   *)

\* The steps of a request keep the types.
LEMMA RequestTypes ==
  ASSUME TypeOK, NEW r \in Requests, Request(r) \/ RequestStep(r)
  PROVE  TypeOK'
<1>. USE DEF TypeOK, Versions, Awaiting, steerVars, taskVars, fileVars, Nothing
<1>1. CASE PauseCheck(r)
  BY <1>1 DEF PauseCheck
<1>2. CASE Pause(r)
  BY <1>2, WakeFacts DEF Pause
<1>3. CASE PauseRefused(r)
  BY <1>3 DEF PauseRefused
<1>4. CASE ResumeSteer(r)
  <2>1. /\ pc' = IF pc = "wait" THEN "test" ELSE pc
        /\ permit' \in BOOLEAN
    BY <1>4, WakeFacts DEF ResumeSteer
  <2>2. rpc' \in [Requests -> {"idle", "pause", "resume", "steer", "edit", "note"}]
    BY <1>4 DEF ResumeSteer
  <2>3. pc' \in {"new", "work", "done"} \cup Awaiting
    BY <2>1
  <2>. QED
    BY <1>4, <2>1, <2>2, <2>3 DEF ResumeSteer
<1>5. CASE ResumeRecord(r)
  BY <1>5 DEF ResumeRecord
<1>6. ASSUME NEW t \in Texts, SteerCheck(r, t) PROVE TypeOK'
  BY <1>6 DEF SteerCheck
<1>7. ASSUME NEW edited \in BOOLEAN, SteerSet(r, edited) PROVE TypeOK'
  BY <1>7 DEF SteerSet
<1>8. CASE NoteCheck(r)
  BY <1>8 DEF NoteCheck
<1>9. ASSUME NEW f \in Files, NoteEdit(r, f) PROVE TypeOK'
  BY <1>9 DEF NoteEdit
<1>10. CASE Rewind(r)
  BY <1>10 DEF Rewind, Restore, clientVars
<1>. QED
  BY <1>1, <1>2, <1>3, <1>4, <1>5, <1>6, <1>7, <1>8, <1>9, <1>10
     DEF Request, RequestStep

\* The steps of the task keep the types.
LEMMA TaskTypes ==
  ASSUME TypeOK, TaskStep \/ Working
  PROVE  TypeOK'
<1>. USE DEF TypeOK, Versions, Awaiting, steerVars, fileVars, clientVars, Nothing
<1>0. CASE TaskStops \/ TaskParks
  BY <1>0 DEF TaskStops, TaskParks
<1>1. CASE TaskTests \/ TaskArms
  BY <1>1 DEF TaskTests, TaskArms
<1>2. CASE TaskHashes
  BY <1>2 DEF TaskHashes
<1>3. CASE TaskRefreshes
  BY <1>3 DEF TaskRefreshes
<1>4. CASE TaskConsumes
  BY <1>4 DEF TaskConsumes
<1>5. CASE TaskLeaves
  BY <1>5 DEF TaskLeaves
<1>6. CASE TaskCancelled \/ TaskEnds
  BY <1>6 DEF TaskCancelled, TaskEnds
<1>7. CASE TaskBegin \/ TurnBegins \/ TaskForgets
  BY <1>7 DEF TaskBegin, TurnBegins, TaskForgets
<1>8. ASSUME NEW f \in Files, TaskRead(f) PROVE TypeOK'
  BY <1>8 DEF TaskRead
<1>9. ASSUME NEW f \in Files, TaskWrite(f) PROVE TypeOK'
  BY <1>9 DEF TaskWrite
<1>. QED
  BY <1>0, <1>1, <1>2, <1>3, <1>4, <1>5, <1>6, <1>7, <1>8, <1>9 DEF TaskStep, Working

-----------------------------------------------------------------------------
(* The inductive invariant                                                 *)

\* A task that has not begun is queued and unmarked; a parked one is inside
\* await_steering; a waiting one is paused.
LEMMA InvInit == Init => SteeringInv
<1>1. Init => TypeOK
  <2>. SUFFICES ASSUME Init PROVE TypeOK
    OBVIOUS
  <2>1. /\ hashes \in [Files -> Versions \cup {Absent}] /\ current \in [Files -> Versions \cup {Absent}]
        /\ observed \in [Files -> Versions \cup {Absent}]
    BY DEF Init, Nothing
  <2>2. /\ disk \in [Files -> Versions] /\ rtext \in [Requests -> Texts \cup {NoText}]
        /\ rpc \in [Requests -> {"idle", "pause", "resume", "steer", "edit", "note"}]
    BY DEF Init, Versions
  <2>3. /\ status \in {"queued", "running", "paused", "cancelling", "ended"}
        /\ pc \in {"new", "work", "done"} \cup Awaiting
        /\ cancelled \in BOOLEAN /\ paused \in BOOLEAN /\ permit \in BOOLEAN /\ parked \in BOOLEAN
        /\ rewound \in BOOLEAN /\ instruction \in Texts \cup {NoText}
        /\ notes = {} /\ reported = {} /\ heard = {} /\ changed = {} /\ given = {}
    BY DEF Init
  <2>. QED
    BY <2>1, <2>2, <2>3 DEF TypeOK
<1>. QED
  BY <1>1 DEF Init, SteeringInv, Awaiting, Nothing, HashesOfPause

\* The steps of a request keep the invariant.  A pause finds the task running
\* or paused, so never queued; a resume wakes a waiting task in the same
\* critical section that clears the flag.
LEMMA RequestInv ==
  ASSUME SteeringInv, NEW r \in Requests, Request(r) \/ RequestStep(r)
  PROVE  SteeringInv'
<1>1. TypeOK /\ TypeOK'
  BY RequestTypes DEF SteeringInv
<1>2. (\A s \in Requests : rpc[s] = "steer" => rtext[s] \in Texts)'
  BY <1>1 DEF Request, RequestStep, PauseCheck, Pause, PauseRefused, ResumeSteer, ResumeRecord,
      SteerCheck, SteerSet, NoteCheck, NoteEdit, Rewind, clientVars, SteeringInv, TypeOK
<1>. USE <1>1, <1>2 DEF SteeringInv, Awaiting, HashesOfPause
<1>3. CASE Pause(r)
  <2>1. pc' = IF pc = "wait" THEN "test" ELSE pc
    BY <1>3, WakeFacts DEF Pause
  <2>. QED
    BY <1>3, <2>1 DEF Pause
<1>4. CASE ResumeSteer(r)
  <2>1. pc' = (IF pc = "wait" THEN "test" ELSE pc) /\ (pc # "wait" => permit')
    BY <1>4, WakeFacts DEF ResumeSteer
  <2>. QED
    BY <1>4, <2>1 DEF ResumeSteer
<1>5. CASE ResumeRecord(r)
  BY <1>5 DEF ResumeRecord, steerVars, taskVars
<1>6. CASE UNCHANGED <<status, paused, parked, pc, permit, hashes, observed>>
  BY <1>6
<1>7. \/ UNCHANGED <<status, paused, parked, pc, permit, hashes, observed>>
      \/ Pause(r) \/ ResumeSteer(r) \/ ResumeRecord(r)
  BY DEF Request, RequestStep, PauseCheck, PauseRefused, SteerCheck, SteerSet, NoteCheck,
         NoteEdit, Rewind, steerVars, taskVars
<1>. QED
  BY <1>3, <1>4, <1>5, <1>6, <1>7

\* The steps of the task keep the invariant.  It waits only after it read the
\* flag as set and found no permit; a resume in between leaves one.
LEMMA TaskInv ==
  ASSUME SteeringInv, TaskStep \/ Working
  PROVE  SteeringInv'
<1>. TypeOK /\ TypeOK'
  BY TaskTypes DEF SteeringInv
<1>. USE DEF SteeringInv, Awaiting, steerVars, clientVars, HashesOfPause
<1>1. CASE TaskStops \/ TaskParks \/ TaskHashes
  BY <1>1 DEF TaskStops, TaskParks, TaskHashes
<1>2. CASE TaskTests \/ TaskArms \/ TaskRefreshes
  BY <1>2 DEF TaskTests, TaskArms, TaskRefreshes
<1>3. CASE TaskConsumes \/ TaskLeaves \/ TaskCancelled \/ TaskEnds
  BY <1>3 DEF TaskConsumes, TaskLeaves, TaskCancelled, TaskEnds
<1>4. CASE TaskBegin \/ TurnBegins \/ TaskForgets
  BY <1>4 DEF TaskBegin, TurnBegins, TaskForgets
<1>5. ASSUME NEW f \in Files, TaskRead(f) \/ TaskWrite(f) PROVE SteeringInv'
  BY <1>5 DEF TaskRead, TaskWrite
<1>. QED
  BY <1>1, <1>2, <1>3, <1>4, <1>5 DEF TaskStep, Working

\* Every step keeps the invariant.
LEMMA InvNext == SteeringInv /\ [Next]_vars => SteeringInv'
<1>. SUFFICES ASSUME SteeringInv, [Next]_vars PROVE SteeringInv'
  OBVIOUS
<1>1. ASSUME NEW r \in Requests, Request(r) \/ RequestStep(r) PROVE SteeringInv'
  BY <1>1, RequestInv
<1>2. CASE TaskStep \/ Working
  BY <1>2, TaskInv
<1>3. CASE Cancel
  <2>1. TypeOK'
    BY <1>3 DEF Cancel, SteeringInv, TypeOK, steerVars, taskVars, fileVars, clientVars
  <2>. QED
    BY <1>3, <2>1 DEF Cancel, SteeringInv, TypeOK, steerVars, taskVars, clientVars, Awaiting, HashesOfPause
<1>4. ASSUME NEW f \in Files, UserEdit(f) PROVE SteeringInv'
  <2>1. TypeOK'
    BY <1>4 DEF UserEdit, SteeringInv, TypeOK, Versions, steerVars, taskVars, clientVars
  <2>. QED
    BY <1>4, <2>1 DEF UserEdit, SteeringInv, steerVars, taskVars, clientVars, Awaiting, HashesOfPause,
                        Nothing
<1>5. CASE UNCHANGED vars
  BY <1>5 DEF vars, SteeringInv, TypeOK, steerVars, taskVars, fileVars, clientVars, Awaiting,
              Versions, HashesOfPause, Nothing
<1>. QED
  BY <1>1, <1>2, <1>3, <1>4, <1>5 DEF Next

-----------------------------------------------------------------------------
(* The theorems                                                            *)

\* The flags, the status and the place of the task agree: a task that has not
\* begun is queued and unmarked, a parked one is inside await_steering, a
\* waiting one is paused (steering.rs, engine.rs await_steering).
THEOREM SteeringInvariant == Spec => []SteeringInv
BY InvInit, InvNext, PTL DEF Spec

\* A rejected pause of a queued task leaves no mark, and no wake-up is lost
\* (engine.rs pause_job, await_steering, steering.rs resume).
THEOREM ParkingHolds == Spec => []ParkingAgrees
<1>1. SteeringInv => ParkingAgrees
  BY DEF SteeringInv, ParkingAgrees, QueuedIsUnmarked, WaitsOnlyPaused
<1>. QED
  BY <1>1, SteeringInvariant, PTL

\* An accepted instruction is kept until it enters the conversation or a newer
\* one replaces it (steering.rs set_instruction, take_resume_messages).
THEOREM InstructionsStay == Spec => InstructionsKept
<1>1. SteeringInv /\ [Next]_vars =>
        [\A t \in Texts : (instruction = t /\ instruction' # t)
                              => (t \in heard' \/ instruction' # NoText)]_vars
  <2>. SUFFICES ASSUME SteeringInv, Next, instruction' # instruction, instruction # NoText
                PROVE  instruction \in heard' \/ instruction' # NoText
    BY SteeringAssumption DEF vars, steerVars
  <2>1. CASE TaskConsumes
    BY <2>1 DEF TaskConsumes
  <2>2. ASSUME NEW r \in Requests, NEW edited \in BOOLEAN, SteerSet(r, edited)
        PROVE  instruction' # NoText
    BY <2>2, SteeringAssumption DEF SteerSet, SteeringInv
  <2>3. ~(TaskStep /\ ~TaskConsumes) /\ ~Working /\ ~Cancel /\ \A f \in Files : ~UserEdit(f)
    BY DEF TaskStep, TaskStops, TaskParks, TaskHashes, TaskTests, TaskArms, TaskRefreshes,
           TaskLeaves, TaskCancelled, Working, TaskBegin, TurnBegins, TaskForgets, TaskEnds,
           TaskRead, TaskWrite, Cancel, UserEdit, steerVars
  <2>4. ASSUME NEW r \in Requests, Request(r) \/ RequestStep(r)
        PROVE  \E edited \in BOOLEAN : SteerSet(r, edited)
    BY <2>4 DEF Request, RequestStep, PauseCheck, Pause, PauseRefused, ResumeSteer,
           ResumeRecord, SteerCheck, NoteCheck, NoteEdit, Rewind, steerVars
  <2>. QED
    BY <2>1, <2>2, <2>3, <2>4 DEF Next
<1>. QED
  BY <1>1, SteeringInvariant, PTL DEF Spec, InstructionsKept

\* A task that wakes is told of exactly the files that are not as it last saw
\* them, unless another pause emptied the hashes (steering.rs
\* ensure_pause_hashes, consume_resume).
THEOREM EditsAreTold == Spec => EditsTold
<1>1. SteeringInv /\ [Next]_vars =>
        [TaskConsumes /\ hashes # Nothing =>
            reported' = {f \in Files : observed[f] \notin {Absent, current[f]}}]_vars
  <2>. SUFFICES ASSUME SteeringInv, TaskConsumes, hashes # Nothing
                PROVE  reported' = {f \in Files : observed[f] \notin {Absent, current[f]}}
    OBVIOUS
  <2>1. hashes = observed
    BY DEF SteeringInv, HashesOfPause, TaskConsumes
  <2>. QED
    BY <2>1 DEF TaskConsumes
<1>. QED
  BY <1>1, SteeringInvariant, PTL DEF Spec, EditsTold

\* Files are restored only while the task is inside await_steering
\* (steering.rs rewind).
THEOREM RewindsOnlyParked == Spec => RewindsParked
<1>1. SteeringInv /\ [Next]_vars => [(\E r \in Requests : Rewind(r)) => pc \in Awaiting]_vars
  BY DEF SteeringInv, Rewind
<1>. QED
  BY <1>1, SteeringInvariant, PTL DEF Spec, RewindsParked

\* Files are restored only inside await_steering, and a task that collects its notes is
\* told which files changed (steering.rs rewind, consume_resume).
THEOREM ReportsHold == Spec => ChangesReported
BY RewindsOnlyParked, EditsAreTold DEF ChangesReported

-----------------------------------------------------------------------------
(* Checkpoints: the rows of the table                                      *)

\* A statement changes one row and keeps the original of it.
LEMMA UpsertFacts ==
  ASSUME CheckpointTypes, NEW o \in Owners, NEW f \in CpFiles,
         NEW b \in Contents, NEW a \in Contents, NEW s \in Contents, Upsert(o, f, b, a, s)
  PROVE  /\ fileChanges' \in [Owners -> [CpFiles -> Change \cup {NoChange}]]
         /\ \A p \in Owners, g \in CpFiles :
               p # o \/ g # f => fileChanges'[p][g] = fileChanges[p][g]
         /\ fileChanges'[o][f] # NoChange
         /\ fileChanges'[o][f].before = IF Has(o, f) THEN fileChanges[o][f].before ELSE b
         /\ fileChanges'[o][f].after = a /\ fileChanges'[o][f].observed = s
         /\ fileChanges'[o][f].restored = FALSE
<1>. DEFINE row == [before |-> IF Has(o, f) THEN fileChanges[o][f].before ELSE b,
                    after |-> a, observed |-> s, restored |-> FALSE]
<1>1. fileChanges' = [fileChanges EXCEPT ![o][f] = row]
  BY DEF Upsert, Has, CheckpointTypes
<1>2. row \in Change
  BY DEF Change, Has, CheckpointTypes
<1>3. row # NoChange
  BY <1>2, CheckpointsAssumption
<1>4. /\ row.before = IF Has(o, f) THEN fileChanges[o][f].before ELSE b
      /\ row.after = a /\ row.observed = s /\ row.restored = FALSE
  OBVIOUS
<1>. HIDE DEF row
<1>. QED
  BY <1>1, <1>2, <1>3, <1>4 DEF CheckpointTypes

\* A step that changes a row in place.
LEMMA RowFacts ==
  ASSUME CheckpointTypes, NEW o \in Owners, NEW f \in CpFiles, NEW row \in Change,
         fileChanges' = [fileChanges EXCEPT ![o][f] = row]
  PROVE  /\ fileChanges' \in [Owners -> [CpFiles -> Change \cup {NoChange}]]
         /\ \A p \in Owners, g \in CpFiles :
               p # o \/ g # f => fileChanges'[p][g] = fileChanges[p][g]
         /\ fileChanges'[o][f] = row /\ row # NoChange
BY CheckpointsAssumption DEF CheckpointTypes

-----------------------------------------------------------------------------
(* The end of an operation                                                 *)

\* Without an operation the invariant speaks only of what is stored.
LEMMA EndKeeps ==
  ASSUME CheckpointsInv,
         fileOp'.kind = "none", fileOp' \in FileOp,
         UNCHANGED <<onDisk, author, touched, replaced, atStart>>,
         fileChanges' \in [Owners -> [CpFiles -> Change \cup {NoChange}]],
         rewindOf' \in [CpUndos -> CpTasks \cup {NoCpTask}],
         phase' \in [CpTasks -> {"new", "running", "over"}],
         uncovered' \in [CpTasks -> SUBSET CpFiles],
         cpCalls' \in 0 .. MaxCalls, breaks' \in 0 .. MaxBreaks,
         \A t \in CpTasks : /\ phase'[t] = phase[t] \/ (Running(t) /\ phase'[t] = "over")
                            /\ fileChanges'[t] = fileChanges[t]
                            /\ uncovered[t] \subseteq uncovered'[t],
         \A u \in CpUndos : rewindOf'[u] # NoCpTask =>
                               rewindOf'[u] = rewindOf[u] /\ fileChanges'[u] = fileChanges[u],
         \A t \in CpTasks, f \in CpFiles :
             Running(t)' /\ ~Has(t, f) /\ f \notin touched[t] \cup uncovered'[t] =>
                 onDisk[f] = atStart[t][f]
  PROVE  CheckpointsInv'
<1>. /\ CheckpointTypes /\ OpKnown /\ TaskIsCovered /\ FirstIsKept /\ ReplacedKept /\ UndoRows
     /\ EditsKnown
  BY DEF CheckpointsInv
<1>1. CheckpointTypes'
  BY DEF CheckpointTypes
<1>2. OpKnown'
  <2>1. \A t \in CpTasks : Running(t)' => Running(t)
    BY DEF Running
  <2>2. \A t, v \in CpTasks : Running(t)' /\ Running(v)' => t = v
    BY <2>1 DEF OpKnown
  <2>3. \A t \in CpTasks, f \in CpFiles : phase'[t] = "new" => ~Has(t, f)'
    <3>1. \A t \in CpTasks, f \in CpFiles : phase[t] = "new" => ~Has(t, f)
      BY DEF OpKnown
    <3>2. \A t \in CpTasks : phase'[t] = "new" => phase[t] = "new"
      OBVIOUS
    <3>. QED
      BY <3>1, <3>2 DEF Has
  <2>. QED
    BY <2>2, <2>3 DEF OpKnown, Quiet
<1>3. OpFiles' /\ Journalled' /\ Fresh' /\ KeepsWhatItReplaces' /\ UndoPutsAll'
  BY DEF OpFiles, Journalled, Fresh, LookedAt, KeepsWhatItReplaces, UndoPutsAll, Restores
<1>4. TaskIsCovered' /\ FirstIsKept'
  BY DEF TaskIsCovered, FirstIsKept, Has, Knows
<1>5. UnchangedYet'
  BY DEF UnchangedYet, Has, Running
<1>6. ReplacedKept' /\ UndoRows'
  BY DEF ReplacedKept, UndoRows, Has, CheckpointTypes
<1>7. EditsKnown'
  BY DEF EditsKnown, Has, Knows, Running
<1>. QED
  BY <1>1, <1>2, <1>3, <1>4, <1>5, <1>6, <1>7 DEF CheckpointsInv

\* There is always an operation to end with.
LEMMA NoOpFacts == NoOp \in FileOp /\ NoOp.kind = "none"
BY DEF NoOp, FileOp

\* A break is counted.
LEMMA BreakFacts == ASSUME CheckpointTypes, Breaks PROVE breaks' \in 0 .. MaxBreaks
BY CheckpointsAssumption DEF Breaks, CheckpointTypes

\* The steps that end an operation, whatever it has left undone, and the end of the
\* program.
LEMMA EndSteps ==
  ASSUME CheckpointsInv,
         \/ CommitStops \/ CommandUncovered \/ JobRewindReturns \/ UndoEnds \/ OperationBreaks
         \/ RewindGivesUp \/ CpCrash \/ \E t \in CpTasks : CpTaskEnds(t)
  PROVE  CheckpointsInv'
<1>. CheckpointTypes /\ OpKnown /\ UnchangedYet /\ CpTasks \cap CpUndos = {}
  BY CheckpointsAssumption DEF CheckpointsInv
<1>. USE EndKeeps, NoOpFacts, BreakFacts
<1>1. CASE CommitStops
  BY <1>1 DEF CommitStops, ButBreaks, CheckpointTypes, UnchangedYet, Running
<1>2. CASE CommandUncovered
  <2>1. /\ fileOp.who \in CpTasks /\ LeftBehind \subseteq CpFiles
        /\ uncovered' = [uncovered EXCEPT ![fileOp.who] = uncovered[fileOp.who] \cup LeftBehind]
    BY <1>2 DEF CommandUncovered, OpKnown, Quiet, LeftBehind, Differing, CheckpointTypes, FileOp
  <2>2. /\ uncovered' \in [CpTasks -> SUBSET CpFiles]
        /\ \A t \in CpTasks : uncovered[t] \subseteq uncovered'[t]
        /\ LeftBehind \subseteq uncovered'[fileOp.who]
    BY <2>1 DEF CheckpointTypes
  <2>3. ASSUME NEW t \in CpTasks, NEW f \in CpFiles, Running(t), ~Has(t, f),
               f \notin touched[t] \cup uncovered'[t]
        PROVE  onDisk[f] = atStart[t][f]
    <3>1. t = fileOp.who /\ f \notin LeftBehind /\ f \notin touched[t] \cup uncovered[t]
      BY <1>2, <2>2, <2>3 DEF CommandUncovered, OpKnown, Quiet
    <3>. QED
      BY <1>2, <2>3, <3>1 DEF CommandUncovered, UnchangedYet, LeftBehind, Differing
  <2>4. /\ fileOp' = NoOp /\ breaks' \in 0 .. MaxBreaks
        /\ UNCHANGED <<onDisk, fileChanges, cpCalls, author, touched, replaced, rewindOf, phase,
                       atStart>>
    BY <1>2 DEF CommandUncovered, ButBreaks
  <2>. QED
    BY <2>2, <2>3, <2>4 DEF CheckpointTypes, Running
<1>3. CASE JobRewindReturns
  BY <1>3 DEF JobRewindReturns, TablesOnly, CheckpointTypes, UnchangedYet, Running
<1>4. CASE UndoEnds
  BY <1>4 DEF UndoEnds, CheckpointTypes, UnchangedYet, Running
<1>5. CASE OperationBreaks
  BY <1>5 DEF OperationBreaks, ButBreaks, CheckpointTypes, UnchangedYet, Running
<1>6. CASE RewindGivesUp
  BY <1>6 DEF RewindGivesUp, TablesOnly, Forgets, CheckpointTypes, UnchangedYet, Running, NoRows, Owners, OpKnown
<1>7. CASE CpCrash
  <2>1. /\ uncovered' \in [CpTasks -> SUBSET CpFiles]
        /\ \A t \in CpTasks : uncovered[t] \subseteq uncovered'[t]
    <3>1. CASE LeftBehind = {}
      BY <1>7, <3>1 DEF CpCrash, CheckpointTypes
    <3>2. CASE LeftBehind # {}
      <4>1. /\ LeftBehind \subseteq CpFiles
            /\ uncovered' = [uncovered EXCEPT ![fileOp.who] = uncovered[fileOp.who] \cup LeftBehind]
        BY <1>7, <3>2 DEF CpCrash, LeftBehind, Differing, CheckpointTypes, FileOp
      <4>. QED
        BY <4>1 DEF CheckpointTypes
    <3>. QED
      BY <3>1, <3>2
  <2>2. /\ phase' \in [CpTasks -> {"new", "running", "over"}]
        /\ \A t \in CpTasks : /\ phase'[t] = phase[t] \/ (Running(t) /\ phase'[t] = "over")
                              /\ ~Running(t)'
    BY <1>7 DEF CpCrash, CheckpointTypes, Running
  <2>3. /\ fileOp' = NoOp /\ breaks' \in 0 .. MaxBreaks
        /\ UNCHANGED <<onDisk, fileChanges, cpCalls, author, touched, replaced, rewindOf, atStart>>
    BY <1>7 DEF CpCrash
  <2>. QED
    BY <2>1, <2>2, <2>3 DEF CheckpointTypes
<1>8. ASSUME NEW t \in CpTasks, CpTaskEnds(t) PROVE CheckpointsInv'
  BY <1>8 DEF CpTaskEnds, CheckpointTypes, UnchangedYet, Running, Quiet
<1>. QED
  BY <1>1, <1>2, <1>3, <1>4, <1>5, <1>6, <1>7, <1>8

-----------------------------------------------------------------------------
(* The begin of an operation                                               *)

\* Before any operation the invariant speaks of what is stored; what the new one
\* holds must be right.
LEMMA BeginKeeps ==
  ASSUME CheckpointsInv, Quiet, fileOp' \in FileOp, cpCalls' \in 0 .. MaxCalls,
         UNCHANGED <<onDisk, fileChanges, rewindOf, phase, breaks, author, atStart, touched,
                     uncovered, replaced>>,
         fileOp'.kind # "review", fileOp'.at \notin {"record", "put", "close", "back", "forget", "drop"},
         (OpKnown /\ OpFiles /\ Journalled /\ Fresh /\ UndoRows /\ KeepsWhatItReplaces)',
         \A f \in CpFiles : fileOp'.kind = "command" \/ (fileOp'.kind = "commit" /\ f \in Planned') =>
                               fileOp'.seen[f] = onDisk[f],
         fileOp'.kind = "rewind" =>
             \A f \in CpFiles : ~Has(fileOp'.id, f) /\ replaced[fileOp'.id][f] = NoContent,
         fileOp'.kind = "undo" => fileOp'.todo = {} /\ fileOp'.done = {}
  PROVE  CheckpointsInv'
<1>. /\ CheckpointTypes /\ OpKnown /\ TaskIsCovered /\ FirstIsKept /\ UnchangedYet /\ ReplacedKept
     /\ EditsKnown
  BY DEF CheckpointsInv
<1>1. CheckpointTypes'
  BY DEF CheckpointTypes
<1>2. TaskIsCovered' /\ FirstIsKept'
  BY DEF TaskIsCovered, FirstIsKept, Has, Knows
<1>3. UnchangedYet'
  BY DEF UnchangedYet, Has, Running, Quiet
<1>4. ReplacedKept'
  BY DEF ReplacedKept, Has
<1>5. UndoPutsAll'
  BY DEF UndoPutsAll
<1>6. EditsKnown'
  BY DEF EditsKnown, Has, Knows, Running
<1>. QED
  BY <1>1, <1>2, <1>3, <1>4, <1>5, <1>6 DEF CheckpointsInv

\* A call of a file tool has seen the files it plans to write.
LEMMA CommitBeginsInv ==
  ASSUME CheckpointsInv, NEW t \in CpTasks, CommitBegins(t) PROVE CheckpointsInv'
<1>. CheckpointTypes /\ OpKnown /\ UndoRows /\ Quiet
  BY DEF CheckpointsInv, CommitBegins
<1>0. PICK files \in SUBSET CpFiles : \E plan \in [files -> Written \cup {Missing}] :
        Begins([NoOp EXCEPT !.kind = "commit", !.at = "journal", !.who = t,
                            !.plan = [f \in CpFiles |-> IF f \in files THEN plan[f] ELSE NoContent],
                            !.seen = LookAt(files), !.todo = files])
  BY DEF CommitBegins
<1>1. PICK plan \in [files -> Written \cup {Missing}] :
        Begins([NoOp EXCEPT !.kind = "commit", !.at = "journal", !.who = t,
                            !.plan = [f \in CpFiles |-> IF f \in files THEN plan[f] ELSE NoContent],
                            !.seen = LookAt(files), !.todo = files])
  BY <1>0
<1>2. /\ fileOp'.kind = "commit" /\ fileOp'.at = "journal" /\ fileOp'.who = t
      /\ fileOp'.todo = files /\ fileOp'.placed = {} /\ fileOp'.done = {} /\ fileOp'.id = NoUndo
      /\ fileOp'.plan = [f \in CpFiles |-> IF f \in files THEN plan[f] ELSE NoContent]
      /\ fileOp'.seen = LookAt(files)
  BY <1>1 DEF Begins, NoOp
<1>3. \A f \in CpFiles : fileOp'.seen[f] = IF f \in files THEN onDisk[f] ELSE NoContent
  BY <1>2 DEF LookAt
<1>4. \A f \in CpFiles : fileOp'.plan[f] = IF f \in files THEN plan[f] ELSE NoContent
  BY <1>2
<1>5. \A f \in files : plan[f] \in Contents /\ plan[f] # NoContent
  BY CheckpointsAssumption DEF Contents
<1>6. Planned' = files
  BY <1>4, <1>5 DEF Planned
<1>7. fileOp' \in FileOp
  <2>. DEFINE pl == [f \in CpFiles |-> IF f \in files THEN plan[f] ELSE NoContent]
              se == LookAt(files)
  <2>1. pl \in [CpFiles -> Contents \cup {NoContent}]
    BY <1>5
  <2>2. se \in [CpFiles -> Contents \cup {NoContent}]
    BY DEF LookAt, CheckpointTypes
  <2>3. fileOp' = [kind |-> "commit", at |-> "journal", who |-> t, id |-> NoUndo, plan |-> pl,
                   seen |-> se, todo |-> files, placed |-> {}, done |-> {}]
    BY <1>1 DEF Begins, NoOp
  <2>. HIDE DEF pl, se
  <2>. QED
    BY <2>1, <2>2, <2>3 DEF FileOp
<1>8. /\ UNCHANGED <<onDisk, fileChanges, rewindOf, phase, breaks, author, atStart, touched,
                     uncovered, replaced>>
      /\ cpCalls' \in 0 .. MaxCalls /\ Running(t)
  BY <1>1, CheckpointsAssumption DEF CommitBegins, Counts, Begins, TablesOnly, CheckpointTypes
<1>9. OpKnown'
  BY <1>2, <1>8 DEF OpKnown, Quiet, Running, Has
<1>10. OpFiles' /\ Journalled'
  BY <1>2, <1>3, <1>6 DEF OpFiles, Journalled, CheckpointTypes, Restores
<1>11. Fresh'
  BY <1>2, <1>3, <1>8 DEF Fresh, LookedAt, Restores
<1>12. UndoRows' /\ KeepsWhatItReplaces'
  BY <1>2, <1>8 DEF UndoRows, KeepsWhatItReplaces, Has
<1>. QED
  BY <1>2, <1>3, <1>6, <1>7, <1>8, <1>9, <1>10, <1>11, <1>12, BeginKeeps

\* A command has seen all files.
LEMMA CommandBeginsInv ==
  ASSUME CheckpointsInv, NEW t \in CpTasks, CommandBegins(t) PROVE CheckpointsInv'
<1>. CheckpointTypes /\ OpKnown /\ UndoRows /\ Quiet
  BY DEF CheckpointsInv, CommandBegins
<1>1. PICK at \in {"covered", "blind"} :
        Begins([NoOp EXCEPT !.kind = "command", !.at = at, !.who = t, !.seen = onDisk])
  BY DEF CommandBegins
<1>2. /\ fileOp'.kind = "command" /\ fileOp'.at = at /\ fileOp'.who = t /\ fileOp'.seen = onDisk
      /\ fileOp'.todo = {} /\ fileOp'.placed = {} /\ fileOp'.done = {}
      /\ fileOp' \in FileOp
  BY <1>1 DEF Begins, NoOp, FileOp, CheckpointTypes
<1>3. /\ UNCHANGED <<onDisk, fileChanges, rewindOf, phase, breaks, author, atStart, touched,
                     uncovered, replaced>>
      /\ cpCalls' \in 0 .. MaxCalls /\ Running(t)
  BY <1>1, CheckpointsAssumption DEF CommandBegins, Counts, Begins, TablesOnly, CheckpointTypes
<1>4. OpKnown'
  BY <1>2, <1>3 DEF OpKnown, Quiet, Running, Has
<1>5. OpFiles' /\ Journalled'
  BY <1>2 DEF OpFiles, Journalled, CheckpointTypes, Restores
<1>6. Fresh'
  BY <1>2, <1>3 DEF Fresh, LookedAt, Restores
<1>7. UndoRows' /\ KeepsWhatItReplaces'
  BY <1>2, <1>3 DEF UndoRows, KeepsWhatItReplaces, Has
<1>. QED
  BY <1>2, <1>3, <1>4, <1>5, <1>6, <1>7, BeginKeeps

\* A rewind takes an id that has no rows.
LEMMA RewindBeginsInv ==
  ASSUME CheckpointsInv, NEW t \in CpTasks, NEW u \in CpUndos, RewindBegins(t, u)
  PROVE  CheckpointsInv'
<1>. CheckpointTypes /\ OpKnown /\ UndoRows /\ Quiet
  BY DEF CheckpointsInv, RewindBegins, Resting
<1>. DEFINE at == IF Unrestored(t) = {} THEN "check" ELSE "keep"
<1>1. /\ fileOp'.kind = "rewind" /\ fileOp'.at = at /\ fileOp'.who = t /\ fileOp'.id = u
      /\ fileOp'.todo = Unrestored(t) /\ fileOp'.placed = {} /\ fileOp'.done = {}
      /\ fileOp' \in FileOp
  BY DEF RewindBegins, Begins, NoOp, FileOp, Unrestored
<1>2. /\ UNCHANGED <<onDisk, fileChanges, rewindOf, phase, breaks, author, atStart, touched,
                     uncovered, replaced>>
      /\ cpCalls' \in 0 .. MaxCalls /\ phase[t] = "over" /\ \A v \in CpTasks : ~Running(v)
  BY DEF RewindBegins, Begins, TablesOnly, CheckpointTypes, Resting
<1>3. /\ rewindOf[u] = NoCpTask /\ \A f \in CpFiles : ~Has(u, f) /\ replaced[u][f] = NoContent
  BY DEF RewindBegins, Unused, NoRows, NoContents, Has
<1>4. OpKnown'
  BY <1>1, <1>2, <1>3 DEF OpKnown, Quiet, Running, Has
<1>5. OpFiles' /\ Journalled' /\ Fresh'
  BY <1>1, <1>2 DEF OpFiles, Journalled, Fresh, LookedAt, Restores, Unrestored, Has
<1>6. UndoRows' /\ KeepsWhatItReplaces'
  BY <1>1, <1>2, <1>3 DEF UndoRows, KeepsWhatItReplaces, Has, Unrestored
<1>. QED
  BY <1>1, <1>2, <1>3, <1>4, <1>5, <1>6, BeginKeeps

\* The rewind of a job has the rows of its task, the undo of a rewind those of its id.
LEMMA RestoreBeginsInv ==
  ASSUME CheckpointsInv,
         (\E t \in CpTasks : JobRewindBegins(t)) \/ (\E u \in CpUndos : UndoBegins(u))
  PROVE  CheckpointsInv'
<1>. CheckpointTypes /\ OpKnown /\ UndoRows /\ Quiet
  BY DEF CheckpointsInv, JobRewindBegins, UndoBegins, Resting
<1>1. /\ UNCHANGED <<onDisk, fileChanges, rewindOf, phase, breaks, author, atStart, touched,
                     uncovered, replaced>>
      /\ cpCalls' \in 0 .. MaxCalls
  BY DEF JobRewindBegins, UndoBegins, Begins, TablesOnly, CheckpointTypes
<1>2. ASSUME fileOp'.at = "check", fileOp'.kind \in {"job rewind", "undo"}, fileOp'.todo = {},
             fileOp'.placed = {}, fileOp'.done = {}, fileOp' \in FileOp, OpKnown'
      PROVE  CheckpointsInv'
  <2>1. OpFiles' /\ Journalled' /\ Fresh'
    BY <1>1, <1>2 DEF OpFiles, Journalled, Fresh, LookedAt, Restores
  <2>2. UndoRows' /\ KeepsWhatItReplaces'
    BY <1>1, <1>2 DEF UndoRows, KeepsWhatItReplaces, Has
  <2>. QED
    BY <1>1, <1>2, <2>1, <2>2, BeginKeeps
<1>3. ASSUME NEW t \in CpTasks, JobRewindBegins(t) PROVE CheckpointsInv'
  <2>1. /\ fileOp'.kind = "job rewind" /\ fileOp'.at = "check" /\ fileOp'.who = t
        /\ fileOp'.todo = {} /\ fileOp'.placed = {} /\ fileOp'.done = {} /\ fileOp' \in FileOp
    BY <1>3 DEF JobRewindBegins, Begins, NoOp, FileOp
  <2>2. OpKnown'
    BY <1>1, <1>3, <2>1 DEF JobRewindBegins, OpKnown, Quiet, Running, Resting, Has
  <2>. QED
    BY <1>2, <2>1, <2>2
<1>4. ASSUME NEW u \in CpUndos, UndoBegins(u) PROVE CheckpointsInv'
  <2>1. /\ fileOp'.kind = "undo" /\ fileOp'.at = "check" /\ fileOp'.who = rewindOf[u] /\ fileOp'.id = u
        /\ fileOp'.todo = {} /\ fileOp'.placed = {} /\ fileOp'.done = {} /\ fileOp' \in FileOp
    BY <1>4 DEF UndoBegins, Begins, NoOp, FileOp, CheckpointTypes
  <2>2. OpKnown'
    BY <1>1, <1>4, <2>1 DEF UndoBegins, OpKnown, UndoRows, Quiet, Running, Resting, Has, CheckpointTypes
  <2>. QED
    BY <1>2, <2>1, <2>2
<1>. QED
  BY <1>3, <1>4

-----------------------------------------------------------------------------
(* An operation goes on                                                    *)

\* A restore that goes on without changing a file or a row.
LEMMA MoveKeeps ==
  ASSUME CheckpointsInv, fileOp.kind \in Restores, fileOp' \in FileOp,
         fileOp'.kind = fileOp.kind, fileOp'.who = fileOp.who, fileOp'.id = fileOp.id,
         fileOp'.at \in {"put", "close", "fail"} \/ (fileOp.kind = "undo" /\ fileOp'.at \in {"back", "forget"}),
         breaks' \in 0 .. MaxBreaks,
         UNCHANGED <<onDisk, fileChanges, rewindOf, phase, cpCalls, author, atStart, touched,
                     uncovered, replaced>>,
         (OpFiles /\ Fresh /\ KeepsWhatItReplaces /\ UndoPutsAll /\ EditsKnown)'
  PROVE  CheckpointsInv'
<1>. /\ CheckpointTypes /\ OpKnown /\ TaskIsCovered /\ FirstIsKept /\ UnchangedYet /\ ReplacedKept
     /\ UndoRows
  BY DEF CheckpointsInv
<1>1. CheckpointTypes'
  BY DEF CheckpointTypes
<1>2. TaskIsCovered' /\ FirstIsKept'
  BY DEF TaskIsCovered, FirstIsKept, Has, Knows
<1>3. UnchangedYet' /\ Journalled'
  BY DEF UnchangedYet, Journalled, Has, Running, Restores
<1>4. ReplacedKept' /\ UndoRows'
  BY DEF ReplacedKept, UndoRows, Has
<1>5. OpKnown'
  <2>1. ~Quiet /\ ~Quiet'
    BY DEF Quiet, Restores
  <2>2. \A t \in CpTasks : Running(t)' <=> Running(t)
    BY DEF Running
  <2>3. \A o \in Owners, f \in CpFiles : Has(o, f)' <=> Has(o, f)
    BY DEF Has
  <2>4. \A t \in CpTasks, f \in CpFiles : phase'[t] = "new" => ~Has(t, f)'
    BY <2>3 DEF OpKnown, Owners
  <2>5. fileOp.kind \in {"rewind", "job rewind", "undo"}
    BY DEF Restores
  <2>6. CASE fileOp.kind = "rewind"
    BY <2>1, <2>2, <2>4, <2>6 DEF OpKnown, Running
  <2>7. CASE fileOp.kind = "job rewind"
    BY <2>1, <2>2, <2>4, <2>7 DEF OpKnown, Running
  <2>8. CASE fileOp.kind = "undo"
    BY <2>1, <2>2, <2>4, <2>8 DEF OpKnown, Running
  <2>. QED
    BY <2>5, <2>6, <2>7, <2>8
<1>. QED
  BY <1>1, <1>2, <1>3, <1>4, <1>5 DEF CheckpointsInv

\* What a restore works with.
LEMMA OwnerFacts ==
  ASSUME CheckpointTypes, OpKnown, fileOp.kind \in Restores
  PROVE  /\ Owner \in Owners /\ fileOp.who \in CpTasks /\ fileOp.who # NoCpTask
         /\ fileOp.kind = "undo" => Owner = fileOp.id /\ fileOp.id \in CpUndos
         /\ fileOp.kind # "undo" => Owner = fileOp.who
         /\ fileOp.kind = "undo" => rewindOf[fileOp.id] # NoCpTask
         /\ Unrestored(Owner) \subseteq CpFiles
BY CheckpointsAssumption DEF OpKnown, Owner, Owners, Restores, Quiet, Unrestored

\* A restore goes on only when it recognises every file.
LEMMA RestoreChecksInv == ASSUME CheckpointsInv, RestoreChecks PROVE CheckpointsInv'
<1>. /\ CheckpointTypes /\ OpKnown /\ OpFiles /\ TaskIsCovered /\ ReplacedKept /\ UndoRows
     /\ KeepsWhatItReplaces /\ EditsKnown
  BY DEF CheckpointsInv
<1>. fileOp.kind \in Restores /\ fileOp.at = "check" /\ fileOp \in FileOp
  BY DEF RestoreChecks, CheckpointTypes
<1>1. UNCHANGED <<onDisk, fileChanges, rewindOf, phase, cpCalls, breaks, author, atStart, touched,
                  uncovered, replaced>>
  BY DEF RestoreChecks, TablesOnly
<1>2. CASE \E f \in Unrestored(Owner) : ~Knows(RowOf(f), onDisk[f])
  <2>1. fileOp' = [fileOp EXCEPT !.at = "fail"]
    BY <1>2 DEF RestoreChecks
  <2>2. /\ fileOp'.kind = fileOp.kind /\ fileOp'.who = fileOp.who /\ fileOp'.id = fileOp.id
        /\ fileOp'.at = "fail" /\ fileOp'.todo = fileOp.todo /\ fileOp'.done = fileOp.done
        /\ fileOp' \in FileOp
    BY <2>1 DEF FileOp
  <2>3. (OpFiles /\ Fresh /\ KeepsWhatItReplaces /\ UndoPutsAll)'
    BY <2>2 DEF OpFiles, Fresh, LookedAt, KeepsWhatItReplaces, UndoPutsAll, Restores
  <2>4. EditsKnown'
    BY <1>1, <2>2 DEF EditsKnown, Has, Knows, Running
  <2>. QED
    BY <1>1, <2>2, <2>3, <2>4, MoveKeeps DEF CheckpointTypes
<1>3. CASE ~\E f \in Unrestored(Owner) : ~Knows(RowOf(f), onDisk[f])
  <2>. DEFINE at == IF Unrestored(Owner) = {} THEN "close" ELSE "put"
  <2>1. fileOp' = [fileOp EXCEPT !.at = at, !.todo = Unrestored(Owner), !.seen = LookAt(Unrestored(Owner))]
    BY <1>3 DEF RestoreChecks
  <2>2. LookAt(Unrestored(Owner)) \in [CpFiles -> Contents \cup {NoContent}]
    BY DEF LookAt, CheckpointTypes
  <2>3. /\ fileOp'.kind = fileOp.kind /\ fileOp'.who = fileOp.who /\ fileOp'.id = fileOp.id
        /\ fileOp'.at = at /\ fileOp'.todo = Unrestored(Owner) /\ fileOp'.done = fileOp.done
        /\ fileOp'.placed = fileOp.placed /\ fileOp'.seen = LookAt(Unrestored(Owner))
        /\ fileOp' \in FileOp
    BY <2>1, <2>2, OwnerFacts DEF FileOp
  <2>4. \A f \in Unrestored(Owner) : fileOp'.seen[f] = onDisk[f]
    BY <2>3, OwnerFacts DEF LookAt
  <2>5. fileOp.placed = {} /\ Owner' = Owner
    BY <2>3 DEF OpFiles, Owner
  <2>6. \A f \in Unrestored(Owner) : Has(Owner, f) /\ Knows(RowOf(f), onDisk[f]) /\ onDisk[f] \in Contents
    BY <1>3 DEF Unrestored, CheckpointTypes
  <2>7. OpFiles'
    <3>1. \A f \in Unrestored(Owner) :
             Has(Owner, f)' /\ fileOp'.seen[f] \in Contents /\ Knows(RowOf(f)', fileOp'.seen[f])
      BY <1>1, <2>4, <2>5, <2>6 DEF Has, RowOf
    <3>2. fileOp.kind = "undo" => fileOp.done = {}
      BY DEF OpFiles
    <3>. QED
      BY <2>3, <2>5, <3>1, <3>2 DEF OpFiles, Restores, Has, Knows
  <2>8. Fresh'
    BY <1>1, <2>3, <2>4, <2>5 DEF Fresh, LookedAt, Restores
  <2>9. KeepsWhatItReplaces'
    BY <1>1, <2>3, <2>4, <2>6, OwnerFacts DEF KeepsWhatItReplaces, Has, RowOf, Restores
  <2>10. UndoPutsAll'
    BY <1>1, <2>3, <2>5, OwnerFacts DEF UndoPutsAll, ReplacedKept, Unrestored, Has
  <2>11. EditsKnown'
    <3>. SUFFICES ASSUME NEW f \in CpFiles, author[f] = "user"
                  PROVE  /\ fileOp.kind = "rewind" => ~Has(fileOp.id, f)
                         /\ fileOp.kind = "undo" => f \notin Unrestored(Owner) \cup fileOp.done
      BY <1>1, <2>3 DEF EditsKnown, Has, Knows, Running, Unrestored
    <3>1. ASSUME fileOp.kind = "rewind", Has(fileOp.id, f) PROVE FALSE
      BY <2>6, <3>1, OwnerFacts DEF EditsKnown, RowOf
    <3>2. ASSUME fileOp.kind = "undo", f \in Unrestored(Owner) PROVE FALSE
      BY <2>6, <3>2, OwnerFacts DEF EditsKnown, RowOf
    <3>. QED
      BY <3>1, <3>2 DEF EditsKnown
  <2>. QED
    BY <1>1, <2>3, <2>7, <2>8, <2>9, <2>10, <2>11, MoveKeeps DEF CheckpointTypes
<1>. QED
  BY <1>2, <1>3

\* A restore that fails half way, and an undo that has put its files back.
LEMMA RestoreMovesInv == ASSUME CheckpointsInv, RestoreFails \/ UndoRestored PROVE CheckpointsInv'
<1>. /\ CheckpointTypes /\ OpKnown /\ OpFiles /\ UndoPutsAll /\ EditsKnown
  BY DEF CheckpointsInv
<1>. fileOp.kind \in Restores /\ fileOp \in FileOp
  BY DEF RestoreFails, UndoRestored, CheckpointTypes, Restores
<1>1. /\ UNCHANGED <<onDisk, fileChanges, rewindOf, phase, cpCalls, author, atStart, touched,
                     uncovered, replaced>>
      /\ breaks' \in 0 .. MaxBreaks
  BY BreakFacts DEF RestoreFails, UndoRestored, TablesOnly, ButBreaks, CheckpointTypes
<1>2. CASE RestoreFails
  <2>1. /\ fileOp'.kind = fileOp.kind /\ fileOp'.who = fileOp.who /\ fileOp'.id = fileOp.id
        /\ fileOp'.at = "fail" /\ fileOp'.todo = fileOp.todo /\ fileOp'.done = fileOp.done
        /\ fileOp' \in FileOp
    BY <1>2 DEF RestoreFails, FileOp
  <2>2. (OpFiles /\ Fresh /\ KeepsWhatItReplaces /\ UndoPutsAll)'
    BY <2>1 DEF OpFiles, Fresh, LookedAt, KeepsWhatItReplaces, UndoPutsAll, Restores
  <2>3. EditsKnown'
    BY <1>1, <2>1 DEF EditsKnown, Has, Knows, Running
  <2>. QED
    BY <1>1, <2>1, <2>2, <2>3, MoveKeeps
<1>3. CASE UndoRestored
  <2>. DEFINE at == IF fileOp.done = {} THEN "forget" ELSE "back"
  <2>1. /\ fileOp'.kind = "undo" /\ fileOp'.who = fileOp.who /\ fileOp'.id = fileOp.id
        /\ fileOp'.at = at /\ fileOp'.todo = fileOp.done /\ fileOp'.done = fileOp.done
        /\ fileOp' \in FileOp
    BY <1>3 DEF UndoRestored, FileOp
  <2>2. (OpFiles /\ Fresh /\ KeepsWhatItReplaces)'
    BY <1>1, <1>3, <2>1 DEF UndoRestored, OpFiles, Fresh, LookedAt, KeepsWhatItReplaces, Restores, Has
  <2>3. UndoPutsAll'
    BY <1>1, <1>3, <2>1 DEF UndoRestored, UndoPutsAll
  <2>4. EditsKnown'
    BY <1>1, <1>3, <2>1 DEF UndoRestored, EditsKnown, Has, Knows, Running
  <2>. QED
    BY <1>1, <1>3, <2>1, <2>2, <2>3, <2>4, MoveKeeps DEF UndoRestored
<1>. QED
  BY <1>2, <1>3

\* What a command has changed is known when it ends.
LEMMA CommandEndsInv == ASSUME CheckpointsInv, CommandEnds PROVE CheckpointsInv'
<1>. /\ CheckpointTypes /\ OpKnown /\ OpFiles /\ Fresh /\ TaskIsCovered /\ UnchangedYet
     /\ FirstIsKept /\ ReplacedKept /\ UndoRows /\ EditsKnown
  BY DEF CheckpointsInv
<1>. fileOp.kind = "command" /\ fileOp.at \in {"covered", "blind"} /\ fileOp \in FileOp
  BY DEF CommandEnds, CheckpointTypes
<1>1. UNCHANGED <<onDisk, fileChanges, rewindOf, phase, cpCalls, breaks, author, atStart, touched,
                  uncovered, replaced>>
  BY DEF CommandEnds, TablesOnly
<1>2. CASE fileOp.at = "blind" \/ Differing = {}
  <2>1. fileOp' = NoOp
    BY <1>2 DEF CommandEnds
  <2>2. \A t \in CpTasks, f \in CpFiles :
           Running(t) /\ ~Has(t, f) /\ f \notin touched[t] \cup uncovered[t] =>
               onDisk[f] = atStart[t][f]
    BY <1>2 DEF UnchangedYet, Differing
  <2>. QED
    BY <1>1, <2>1, <2>2, EndKeeps, NoOpFacts DEF CheckpointTypes, Running
<1>3. CASE ~(fileOp.at = "blind" \/ Differing = {})
  <2>1. fileOp' = [fileOp EXCEPT !.at = "record", !.todo = Differing]
    BY <1>3 DEF CommandEnds
  <2>2. /\ fileOp'.kind = "command" /\ fileOp'.who = fileOp.who /\ fileOp'.id = fileOp.id
        /\ fileOp'.at = "record" /\ fileOp'.todo = Differing /\ fileOp'.seen = fileOp.seen
        /\ fileOp' \in FileOp
    BY <2>1 DEF FileOp, Differing
  <2>3. CheckpointTypes' /\ OpKnown'
    BY <1>1, <2>2 DEF CheckpointTypes, OpKnown, Quiet, Running, Has
  <2>4. OpFiles' /\ Journalled' /\ KeepsWhatItReplaces' /\ UndoPutsAll'
    BY <2>2 DEF OpFiles, Journalled, KeepsWhatItReplaces, UndoPutsAll, Restores
  <2>5. Fresh'
    BY <1>1, <1>3, <2>2 DEF Fresh, LookedAt, Differing, Restores, Settled
  <2>6. TaskIsCovered' /\ FirstIsKept'
    BY <1>1 DEF TaskIsCovered, FirstIsKept, Has, Knows
  <2>7. UnchangedYet'
    BY <1>1, <2>2 DEF UnchangedYet, Has, Running, Differing
  <2>8. ReplacedKept' /\ UndoRows'
    BY <1>1, <2>2 DEF ReplacedKept, UndoRows, Has
  <2>9. EditsKnown'
    BY <1>1, <2>2 DEF EditsKnown, Has, Knows, Running
  <2>. QED
    BY <2>3, <2>4, <2>5, <2>6, <2>7, <2>8, <2>9 DEF CheckpointsInv
<1>. QED
  BY <1>2, <1>3

-----------------------------------------------------------------------------
(* Files are written                                                       *)

\* No task is called like another author.
LEMMA AuthorFacts ==
  \A t \in CpTasks : t \notin {"nobody", "user", "typing", "command", "rewind", "undo", "review", "mixed"}
BY CheckpointsAssumption

\* A task starts with the files as they are.
LEMMA CpTaskStartsInv ==
  ASSUME CheckpointsInv, NEW t \in CpTasks, CpTaskStarts(t) PROVE CheckpointsInv'
<1>. /\ CheckpointTypes /\ OpKnown /\ OpFiles /\ Journalled /\ Fresh /\ TaskIsCovered /\ UnchangedYet
     /\ FirstIsKept /\ ReplacedKept /\ UndoRows /\ KeepsWhatItReplaces /\ UndoPutsAll /\ EditsKnown
  BY DEF CheckpointsInv
<1>. Quiet /\ phase[t] = "new" /\ \A v \in CpTasks : ~Running(v)
  BY DEF CpTaskStarts, Resting
<1>1. /\ UNCHANGED <<onDisk, fileChanges, rewindOf, fileOp, cpCalls, breaks, author, touched,
                     uncovered, replaced>>
      /\ phase' = [phase EXCEPT ![t] = "running"] /\ atStart' = [atStart EXCEPT ![t] = onDisk]
  BY DEF CpTaskStarts
<1>2. CheckpointTypes'
  BY <1>1 DEF CheckpointTypes
<1>3. \A v \in CpTasks : /\ phase'[v] = IF v = t THEN "running" ELSE phase[v]
                         /\ atStart'[v] = IF v = t THEN onDisk ELSE atStart[v]
  BY <1>1 DEF CheckpointTypes
<1>4. \A f \in CpFiles : ~Has(t, f)
  BY DEF OpKnown
<1>5. OpKnown'
  <2>1. \A v \in CpTasks : Running(v)' => v = t
    BY <1>3 DEF Running
  <2>2. \A v \in CpTasks, f \in CpFiles : phase'[v] = "new" => ~Has(v, f)'
    <3>1. \A v \in CpTasks, f \in CpFiles : phase[v] = "new" => ~Has(v, f)
      BY DEF OpKnown
    <3>2. \A v \in CpTasks : phase'[v] = "new" => phase[v] = "new"
      BY <1>3
    <3>. QED
      BY <1>1, <3>1, <3>2 DEF Has
  <2>. QED
    BY <1>1, <2>1, <2>2 DEF OpKnown, Quiet
<1>6. OpFiles' /\ Journalled' /\ Fresh' /\ KeepsWhatItReplaces' /\ UndoPutsAll'
  BY <1>1 DEF OpFiles, Journalled, Fresh, LookedAt, KeepsWhatItReplaces, UndoPutsAll, Restores, Quiet
<1>7. TaskIsCovered' /\ FirstIsKept'
  BY <1>1, <1>3, <1>4 DEF TaskIsCovered, FirstIsKept, Has, Knows
<1>8. UnchangedYet'
  BY <1>1, <1>3 DEF UnchangedYet, Has, Running, Quiet
<1>9. ReplacedKept' /\ UndoRows'
  BY <1>1, <1>2, <1>3 DEF ReplacedKept, UndoRows, Has, CheckpointTypes
<1>10. EditsKnown'
  BY <1>1, <1>3, <1>4 DEF EditsKnown, Has, Knows, Running, Quiet
<1>. QED
  BY <1>2, <1>5, <1>6, <1>7, <1>8, <1>9, <1>10 DEF CheckpointsInv

\* A file tool writes what its row says.
LEMMA CommitWritesInv ==
  ASSUME CheckpointsInv, NEW f \in CpFiles, CommitWrites(f) PROVE CheckpointsInv'
<1>. /\ CheckpointTypes /\ OpKnown /\ OpFiles /\ Journalled /\ Fresh /\ TaskIsCovered /\ UnchangedYet
     /\ FirstIsKept /\ ReplacedKept /\ UndoRows /\ KeepsWhatItReplaces /\ UndoPutsAll /\ EditsKnown
  BY DEF CheckpointsInv
<1>. fileOp.kind = "commit" /\ fileOp.at = "write" /\ f \in fileOp.todo /\ fileOp \in FileOp
  BY DEF CommitWrites, CheckpointTypes
<1>1. /\ UNCHANGED <<fileChanges, cpCalls, touched, uncovered, replaced, rewindOf, phase, breaks,
                     atStart>>
      /\ onDisk' = [onDisk EXCEPT ![f] = fileOp.plan[f]]
      /\ author' = [author EXCEPT ![f] = fileOp.who]
  BY DEF CommitWrites, TablesOnly
<1>2. /\ fileOp.who \in CpTasks /\ Running(fileOp.who) /\ f \in Planned
      /\ fileOp.plan[f] \in Contents
      /\ Has(fileOp.who, f) /\ fileChanges[fileOp.who][f].after = fileOp.plan[f]
      /\ ~fileChanges[fileOp.who][f].restored
  BY DEF OpKnown, Quiet, OpFiles, Journalled, Planned, FileOp
<1>3. /\ fileOp' \in FileOp
      /\ \/ fileOp'.kind = "none"
         \/ /\ fileOp'.kind = "commit" /\ fileOp'.at = "write" /\ fileOp'.who = fileOp.who
            /\ fileOp'.plan = fileOp.plan /\ fileOp'.seen = fileOp.seen
            /\ fileOp'.todo = fileOp.todo \ {f}
  <2>1. CASE fileOp.todo = {f}
    BY <2>1, NoOpFacts DEF CommitWrites
  <2>2. CASE fileOp.todo # {f}
    BY <2>2 DEF CommitWrites, FileOp
  <2>. QED
    BY <2>1, <2>2
<1>4. CheckpointTypes'
  BY <1>1, <1>2, <1>3 DEF CheckpointTypes, Authors
<1>5. /\ onDisk'[f] = fileOp.plan[f] /\ author'[f] = fileOp.who
      /\ \A g \in CpFiles : g # f => onDisk'[g] = onDisk[g] /\ author'[g] = author[g]
  BY <1>1 DEF CheckpointTypes
<1>6. OpKnown'
  BY <1>1, <1>3 DEF OpKnown, Quiet, Running, Has
<1>7. OpFiles' /\ Journalled'
  <2>1. CASE fileOp'.kind = "none"
    BY <2>1 DEF OpFiles, Journalled, Restores
  <2>2. CASE /\ fileOp'.kind = "commit" /\ fileOp'.at = "write" /\ fileOp'.who = fileOp.who
             /\ fileOp'.plan = fileOp.plan /\ fileOp'.seen = fileOp.seen
             /\ fileOp'.todo = fileOp.todo \ {f}
    <3>1. Planned' = Planned /\ fileOp.todo \subseteq Planned
          /\ \A g \in Planned : fileOp.seen[g] \in Contents
      BY <2>2 DEF Planned, OpFiles
    <3>2. OpFiles'
      BY <2>2, <3>1 DEF OpFiles, Restores
    <3>3. Journalled'
      BY <1>1, <2>2 DEF Journalled, Has
    <3>. QED
      BY <3>2, <3>3
  <2>. QED
    BY <1>3, <2>1, <2>2
<1>8. Fresh' /\ KeepsWhatItReplaces' /\ UndoPutsAll'
  BY <1>3 DEF Fresh, LookedAt, KeepsWhatItReplaces, UndoPutsAll, Restores
<1>9. TaskIsCovered' /\ FirstIsKept'
  BY <1>1, <1>2, <1>5 DEF TaskIsCovered, FirstIsKept, Has, Knows
<1>10. UnchangedYet'
  BY <1>1, <1>2, <1>3, <1>5 DEF UnchangedYet, Has, Running, OpKnown, Planned
<1>11. ReplacedKept' /\ UndoRows'
  BY <1>1, <1>3 DEF ReplacedKept, UndoRows, Has
<1>12. EditsKnown'
  <2>1. ASSUME NEW g \in CpFiles, author'[g] = "user"
        PROVE  author[g] = "user" /\ onDisk'[g] = onDisk[g]
    BY <1>2, <1>5, <2>1, AuthorFacts
  <2>2. fileOp'.kind \notin {"rewind", "undo"}
    BY <1>3
  <2>. QED
    BY <1>1, <2>1, <2>2 DEF EditsKnown, Has, Knows, Running
<1>. QED
  BY <1>4, <1>6, <1>7, <1>8, <1>9, <1>10, <1>11, <1>12 DEF CheckpointsInv

\* A command writes what it likes.
LEMMA CommandWritesInv ==
  ASSUME CheckpointsInv, NEW f \in CpFiles, CommandWrites(f) PROVE CheckpointsInv'
<1>. /\ CheckpointTypes /\ OpKnown /\ OpFiles /\ Journalled /\ Fresh /\ TaskIsCovered /\ UnchangedYet
     /\ FirstIsKept /\ ReplacedKept /\ UndoRows /\ KeepsWhatItReplaces /\ UndoPutsAll /\ EditsKnown
  BY DEF CheckpointsInv
<1>. fileOp.kind = "command" /\ fileOp.at \in {"covered", "blind"} /\ fileOp \in FileOp
  BY DEF CommandWrites, CheckpointTypes
<1>1. /\ UNCHANGED <<fileChanges, fileOp, cpCalls, touched, replaced, rewindOf, phase, breaks, atStart>>
      /\ author' = [author EXCEPT ![f] = "command"]
      /\ uncovered' = IF fileOp.at = "covered" THEN uncovered
                      ELSE [uncovered EXCEPT ![fileOp.who] = uncovered[fileOp.who] \cup {f}]
  BY DEF CommandWrites, TablesOnly
<1>2. PICK c \in Contents : onDisk' = [onDisk EXCEPT ![f] = c]
  BY DEF CommandWrites, Contents
<1>3. fileOp.who \in CpTasks /\ Running(fileOp.who)
  BY DEF OpKnown, Quiet
<1>4. CheckpointTypes'
  BY <1>1, <1>2, <1>3 DEF CheckpointTypes, Authors
<1>5. /\ author'[f] = "command"
      /\ \A g \in CpFiles : g # f => onDisk'[g] = onDisk[g] /\ author'[g] = author[g]
      /\ \A t \in CpTasks : uncovered[t] \subseteq uncovered'[t]
      /\ fileOp.at = "blind" => f \in uncovered'[fileOp.who]
  BY <1>1, <1>2, <1>3 DEF CheckpointTypes
<1>6. OpKnown'
  BY <1>1 DEF OpKnown, Quiet, Running, Has
<1>7. OpFiles' /\ Journalled' /\ KeepsWhatItReplaces' /\ UndoPutsAll'
  BY <1>1 DEF OpFiles, Journalled, KeepsWhatItReplaces, UndoPutsAll, Restores
<1>8. Fresh'
  BY <1>1, <1>5, AuthorFacts DEF Fresh, LookedAt, Restores, Settled
<1>9. TaskIsCovered' /\ FirstIsKept'
  BY <1>1, <1>5, AuthorFacts DEF TaskIsCovered, FirstIsKept, Has, Knows
<1>10. UnchangedYet'
  BY <1>1, <1>3, <1>5 DEF UnchangedYet, Has, Running, OpKnown
<1>11. ReplacedKept' /\ UndoRows'
  BY <1>1 DEF ReplacedKept, UndoRows, Has
<1>12. EditsKnown'
  BY <1>1, <1>5 DEF EditsKnown, Has, Knows, Running
<1>. QED
  BY <1>4, <1>6, <1>7, <1>8, <1>9, <1>10, <1>11, <1>12 DEF CheckpointsInv

\* A review writes a file the task has a row for.
LEMMA ReviewWritesInv ==
  ASSUME CheckpointsInv, NEW t \in CpTasks, NEW f \in CpFiles, ReviewWrites(t, f)
  PROVE  CheckpointsInv'
<1>. /\ CheckpointTypes /\ OpKnown /\ OpFiles /\ Journalled /\ Fresh /\ TaskIsCovered /\ UnchangedYet
     /\ FirstIsKept /\ ReplacedKept /\ UndoRows /\ KeepsWhatItReplaces /\ UndoPutsAll /\ EditsKnown
  BY DEF CheckpointsInv
<1>. Quiet /\ Has(t, f) /\ phase[t] = "over" /\ \A v \in CpTasks : ~Running(v)
  BY DEF ReviewWrites, Resting
<1>0. /\ UNCHANGED <<fileChanges, touched, uncovered, replaced, rewindOf, phase, breaks, atStart>>
      /\ cpCalls' \in 0 .. MaxCalls
  BY CheckpointsAssumption DEF ReviewWrites, TablesOnly, Counts, CheckpointTypes
<1>1. fileChanges[t][f].before \in Contents
  BY DEF CheckpointTypes, Change, Has, Owners
<1>2. PICK c \in Contents, a \in {"review", "mixed"} :
        /\ onDisk' = [onDisk EXCEPT ![f] = c]
        /\ author' = [author EXCEPT ![f] = a]
        /\ fileOp' = [NoOp EXCEPT !.kind = "review", !.at = "move", !.who = t,
                                  !.seen = [NoContents EXCEPT ![f] = c], !.todo = {f}]
  <2>1. PICK r \in ReviewResults(t, f) :
          /\ onDisk' = [onDisk EXCEPT ![f] = r.content]
          /\ author' = [author EXCEPT ![f] = r.author]
          /\ fileOp' = [NoOp EXCEPT !.kind = "review", !.at = "move", !.who = t,
                                    !.seen = [NoContents EXCEPT ![f] = r.content], !.todo = {f}]
    BY DEF ReviewWrites
  <2>2. r.content \in Contents /\ r.author \in {"review", "mixed"}
    BY <1>1 DEF ReviewResults, Contents
  <2>. QED
    BY <2>1, <2>2
<1>3. [NoContents EXCEPT ![f] = c] \in [CpFiles -> Contents \cup {NoContent}]
  BY DEF NoContents
<1>4. /\ fileOp'.kind = "review" /\ fileOp'.who = t /\ fileOp'.todo = {f}
      /\ fileOp'.seen = [NoContents EXCEPT ![f] = c] /\ fileOp' \in FileOp
  BY <1>2, <1>3 DEF NoOp, FileOp
<1>5. /\ author'[f] = a /\ onDisk'[f] = c /\ fileOp'.seen[f] = c
      /\ \A g \in CpFiles : g # f => onDisk'[g] = onDisk[g] /\ author'[g] = author[g]
  BY <1>0, <1>2, <1>4 DEF CheckpointTypes, NoContents
<1>6. CheckpointTypes'
  BY <1>0, <1>2, <1>4 DEF CheckpointTypes, Authors
<1>7. OpKnown'
  BY <1>0, <1>4 DEF OpKnown, Quiet, Running, Has
<1>8. OpFiles' /\ Journalled' /\ KeepsWhatItReplaces' /\ UndoPutsAll'
  <2>1. Has(t, f)' /\ fileOp'.seen[f] \in Contents
    BY <1>0, <1>5 DEF Has
  <2>2. OpFiles'
    BY <1>4, <2>1 DEF OpFiles, Restores
  <2>. QED
    BY <1>4, <2>2 DEF Journalled, KeepsWhatItReplaces, UndoPutsAll
<1>9. Fresh'
  BY <1>4, <1>5, AuthorFacts DEF Fresh, LookedAt, Restores, Settled
<1>10. TaskIsCovered' /\ FirstIsKept'
  BY <1>0, <1>5, AuthorFacts DEF TaskIsCovered, FirstIsKept, Has, Knows
<1>11. UnchangedYet'
  BY <1>0 DEF UnchangedYet, Running
<1>12. ReplacedKept' /\ UndoRows'
  BY <1>0, <1>4 DEF ReplacedKept, UndoRows, Has
<1>13. EditsKnown'
  BY <1>0, <1>4, <1>5 DEF EditsKnown, Has, Knows, Running
<1>. QED
  BY <1>6, <1>7, <1>8, <1>9, <1>10, <1>11, <1>12, <1>13 DEF CheckpointsInv

\* A text the user writes is in no row.
LEMMA TextIsNew ==
  ASSUME NEW e, e \notin UsedIn(CpFiles), NEW o \in Owners, NEW f \in CpFiles, Has(o, f)
  PROVE  ~Knows(fileChanges[o][f], e)
<1>1. Kept(o, f) \in {Kept(p, g) : p \in Owners, g \in CpFiles}
  OBVIOUS
<1>2. Kept(o, f) \subseteq UsedIn(CpFiles)
  BY <1>1 DEF UsedIn
<1>. QED
  BY <1>2 DEF Kept, Knows

\* The user's editor asks nobody, and its texts are new.
LEMMA UserEditsInv ==
  ASSUME CheckpointsInv, NEW f \in CpFiles, UserEdits(f) PROVE CheckpointsInv'
<1>. /\ CheckpointTypes /\ OpKnown /\ OpFiles /\ Journalled /\ Fresh /\ TaskIsCovered /\ UnchangedYet
     /\ FirstIsKept /\ ReplacedKept /\ UndoRows /\ KeepsWhatItReplaces /\ UndoPutsAll /\ EditsKnown
  BY DEF CheckpointsInv
<1>. DEFINE who == IF Resting THEN "user" ELSE "typing"
<1>1. /\ UNCHANGED <<fileChanges, fileOp, cpCalls, uncovered, replaced, rewindOf, phase, breaks,
                     atStart>>
      /\ author' = [author EXCEPT ![f] = who]
      /\ touched' = [t \in CpTasks |-> touched[t] \cup (IF Running(t) THEN {f} ELSE {})]
  BY DEF UserEdits, TablesOnly
<1>2. PICK e \in UserTexts \ UsedIn(CpFiles) : onDisk' = [onDisk EXCEPT ![f] = e]
  BY DEF UserEdits
<1>3. \A o \in Owners : Has(o, f) => ~Knows(fileChanges[o][f], e)
  BY <1>2, TextIsNew
<1>4. e \in Contents
  BY <1>2 DEF Contents
<1>5. /\ author'[f] = who /\ onDisk'[f] = e
      /\ \A g \in CpFiles : g # f => onDisk'[g] = onDisk[g] /\ author'[g] = author[g]
      /\ \A t \in CpTasks : touched[t] \subseteq touched'[t] /\ (Running(t) => f \in touched'[t])
  BY <1>1, <1>2 DEF CheckpointTypes
<1>6. CheckpointTypes'
  BY <1>1, <1>2, <1>4 DEF CheckpointTypes, Authors
<1>7. OpKnown'
  BY <1>1 DEF OpKnown, Quiet, Running, Has
<1>8. OpFiles' /\ Journalled' /\ UndoPutsAll'
  <2>1. /\ Planned' = Planned /\ Owner' = Owner
        /\ \A o : Unrestored(o)' = Unrestored(o)
        /\ \A g : RowOf(g)' = RowOf(g)
        /\ \A o, g : Has(o, g)' <=> Has(o, g)
    BY <1>1 DEF Planned, Owner, Unrestored, RowOf, Has
  <2>2. OpFiles'
    BY <1>1, <2>1 DEF OpFiles, Unrestored, Knows, Has
  <2>3. Journalled' /\ UndoPutsAll'
    BY <1>1, <2>1 DEF Journalled, UndoPutsAll, Unrestored, Has
  <2>. QED
    BY <2>2, <2>3
<1>9. Fresh'
  <2>1. LookedAt' = LookedAt
    BY <1>1 DEF LookedAt, Restores
  <2>2. \A g \in CpFiles : g # f => (Settled(g)' <=> Settled(g))
    BY <1>5 DEF Settled
  <2>3. ~Settled(f)' \/ Resting
    BY <1>5, AuthorFacts DEF Settled
  <2>4. author'[f] \notin CpTasks
    BY <1>5, AuthorFacts
  <2>5. Resting => LookedAt = {} /\ fileOp.kind = "none"
    BY DEF Resting, Quiet, LookedAt, Restores
  <2>6. \A g \in LookedAt : Settled(g)' => onDisk'[g] = fileOp.seen[g]
    <3>1. LookedAt \subseteq CpFiles
      BY DEF LookedAt, CheckpointTypes, FileOp
    <3>. QED
      BY <1>5, <2>2, <2>3, <2>5, <3>1 DEF Fresh
  <2>7. fileOp.kind \in Restores /\ fileOp.at = "put" =>
           \A g \in fileOp.placed : author'[g] \in CpTasks => onDisk'[g] = RowOf(g).before
    <3>1. fileOp.placed \subseteq CpFiles
      BY DEF CheckpointTypes, FileOp
    <3>. QED
      BY <1>5, <2>4, <3>1 DEF Fresh
  <2>8. fileOp.kind = "review" \/ (fileOp.kind = "command" /\ fileOp.at = "record") =>
           \A g \in fileOp.todo : ~Settled(g)'
    <3>1. fileOp.todo \subseteq CpFiles
      BY DEF CheckpointTypes, FileOp
    <3>. QED
      BY <2>2, <2>3, <2>5, <3>1 DEF Fresh
  <2>9. \A g : RowOf(g)' = RowOf(g)
    BY <1>1 DEF RowOf, Owner
  <2>. QED
    BY <1>1, <2>1, <2>6, <2>7, <2>8, <2>9 DEF Fresh, Restores
<1>10. TaskIsCovered' /\ FirstIsKept'
  BY <1>1, <1>5, AuthorFacts DEF TaskIsCovered, FirstIsKept, Has, Knows
<1>11. UnchangedYet'
  BY <1>1, <1>5 DEF UnchangedYet, Has, Running, Planned
<1>12. ReplacedKept' /\ UndoRows'
  BY <1>1 DEF ReplacedKept, UndoRows, Has
<1>13. KeepsWhatItReplaces'
  <2>1. ASSUME fileOp.kind = "rewind", f \in Unrestored(fileOp.who)
        PROVE  ~Knows(fileChanges[fileOp.who][f], e)
    BY <1>3, <2>1 DEF OpKnown, Quiet, Unrestored, Owners
  <2>2. \A o : Unrestored(o)' = Unrestored(o)
    BY <1>1 DEF Unrestored, Has
  <2>3. \A o, g : Has(o, g)' <=> Has(o, g)
    BY <1>1 DEF Has
  <2>. HIDE DEF who
  <2>. QED
    BY <1>1, <1>5, <2>1, <2>2, <2>3 DEF KeepsWhatItReplaces, Unrestored, Knows
<1>14. EditsKnown'
  <2>1. ASSUME author'[f] = "user" PROVE Resting
    BY <1>5, <2>1
  <2>2. ASSUME Resting PROVE Quiet /\ \A t \in CpTasks : ~Running(t)
    BY <2>2 DEF Resting
  <2>. HIDE DEF who
  <2>. QED
    BY <1>1, <1>3, <1>5, <2>1, <2>2 DEF EditsKnown, Has, Knows, Running, Quiet, Owners, Unrestored
<1>. QED
  BY <1>6, <1>7, <1>8, <1>9, <1>10, <1>11, <1>12, <1>13, <1>14 DEF CheckpointsInv

\* What a restore puts is in the row it restores, and what it replaces in the row of
\* the rewind that keeps it.
LEMMA RestorePutsInv ==
  ASSUME CheckpointsInv, NEW f \in CpFiles, RestorePuts(f) PROVE CheckpointsInv'
<1>. /\ CheckpointTypes /\ OpKnown /\ OpFiles /\ Journalled /\ Fresh /\ TaskIsCovered /\ UnchangedYet
     /\ FirstIsKept /\ ReplacedKept /\ UndoRows /\ KeepsWhatItReplaces /\ UndoPutsAll /\ EditsKnown
  BY DEF CheckpointsInv
<1>. fileOp.kind \in Restores /\ fileOp.at = "put" /\ fileOp.placed = {} /\ f \in fileOp.todo /\ fileOp \in FileOp
  BY DEF RestorePuts, CheckpointTypes
<1>. DEFINE before == RowOf(f).before
            putter == IF fileOp.kind = "undo" THEN "undo" ELSE "rewind"
<1>1. UNCHANGED <<fileChanges, cpCalls, touched, uncovered, rewindOf, phase, breaks, atStart>>
  BY DEF RestorePuts, TablesOnly
<1>2. /\ fileOp'.kind = fileOp.kind /\ fileOp'.at = "put" /\ fileOp'.who = fileOp.who
      /\ fileOp'.id = fileOp.id /\ fileOp'.seen = fileOp.seen /\ fileOp'.todo = fileOp.todo
      /\ fileOp'.done = fileOp.done /\ fileOp'.placed = {f} /\ fileOp' \in FileOp
  BY DEF RestorePuts, FileOp
<1>3. /\ Has(Owner, f) /\ before \in Contents /\ fileOp.seen[f] \in Contents
  BY OwnerFacts DEF OpFiles, RowOf, Has, CheckpointTypes, Change
<1>4. \/ before = fileOp.seen[f] /\ UNCHANGED <<onDisk, author>>
      \/ /\ before # fileOp.seen[f] /\ onDisk[f] = fileOp.seen[f]
         /\ onDisk' = [onDisk EXCEPT ![f] = before] /\ author' = [author EXCEPT ![f] = putter]
  BY DEF RestorePuts
<1>5. /\ fileOp.kind = "rewind" => fileOp.id \in CpUndos
      /\ fileOp.kind = "rewind" /\ before # fileOp.seen[f] =>
            replaced' = [replaced EXCEPT ![fileOp.id][f] = onDisk[f]] /\ onDisk[f] = fileOp.seen[f]
      /\ fileOp.kind = "undo" => replaced' = [replaced EXCEPT ![fileOp.id][f] = NoContent]
      /\ fileOp.kind = "job rewind" \/ (fileOp.kind = "rewind" /\ before = fileOp.seen[f]) =>
            replaced' = replaced
  BY DEF RestorePuts, OpKnown
<1>. HIDE DEF before
<1>6. /\ onDisk' \in [CpFiles -> Contents] /\ author' \in [CpFiles -> Authors]
      /\ \A g \in CpFiles : g # f => onDisk'[g] = onDisk[g] /\ author'[g] = author[g]
      /\ author'[f] \in CpTasks \cup {"user"} => onDisk'[f] = before /\ UNCHANGED <<onDisk, author>>
  <2>1. Settled(f) => onDisk[f] = fileOp.seen[f]
    BY DEF Fresh, LookedAt, Restores
  <2>2. putter \in Authors /\ putter \notin CpTasks \cup {"user"}
    BY AuthorFacts DEF Authors
  <2>. HIDE DEF putter
  <2>3. CASE before = fileOp.seen[f] /\ UNCHANGED <<onDisk, author>>
    BY <2>1, <2>3 DEF CheckpointTypes, Settled
  <2>4. CASE /\ before # fileOp.seen[f] /\ onDisk[f] = fileOp.seen[f]
             /\ onDisk' = [onDisk EXCEPT ![f] = before] /\ author' = [author EXCEPT ![f] = putter]
    BY <1>3, <2>2, <2>4 DEF CheckpointTypes
  <2>. QED
    BY <1>4, <2>3, <2>4
<1>7. /\ replaced' \in [CpUndos -> [CpFiles -> Contents \cup {NoContent}]]
      /\ \A u \in CpUndos, g \in CpFiles : u # fileOp.id \/ g # f => replaced'[u][g] = replaced[u][g]
      /\ fileOp.kind = "undo" => replaced'[fileOp.id][f] = NoContent
      /\ fileOp.kind = "rewind" => \/ replaced'[fileOp.id][f] = replaced[fileOp.id][f]
                                   \/ /\ replaced'[fileOp.id][f] = fileOp.seen[f]
                                      /\ before # fileOp.seen[f]
      /\ fileOp.kind = "job rewind" => replaced' = replaced
  <2>1. CASE fileOp.kind = "undo"
    <3>1. fileOp.id \in CpUndos
      BY <2>1 DEF OpKnown
    <3>2. replaced' = [replaced EXCEPT ![fileOp.id][f] = NoContent]
      BY <1>5, <2>1
    <3>3. /\ replaced' \in [CpUndos -> [CpFiles -> Contents \cup {NoContent}]]
          /\ \A u \in CpUndos, g \in CpFiles :
                u # fileOp.id \/ g # f => replaced'[u][g] = replaced[u][g]
          /\ replaced'[fileOp.id][f] = NoContent
      BY <3>1, <3>2 DEF CheckpointTypes
    <3>. QED
      BY <2>1, <3>3
  <2>2. CASE replaced' = replaced /\ fileOp.kind # "undo"
    BY <2>2 DEF CheckpointTypes
  <2>3. CASE fileOp.kind = "rewind" /\ before # fileOp.seen[f]
    <3>1. /\ fileOp.id \in CpUndos /\ fileOp.seen[f] \in Contents
          /\ replaced' = [replaced EXCEPT ![fileOp.id][f] = fileOp.seen[f]]
      BY <1>3, <1>5, <2>3
    <3>. QED
      BY <2>3, <3>1 DEF CheckpointTypes
  <2>. QED
    BY <1>5, <2>1, <2>2, <2>3 DEF Restores
<1>8. CheckpointTypes'
  BY <1>1, <1>2, <1>6, <1>7 DEF CheckpointTypes
<1>10. OpKnown'
  BY <1>1, <1>2 DEF OpKnown, Quiet, Running, Has
<1>11. OpFiles' /\ Journalled'
  <2>1. Owner' = Owner /\ \A g : RowOf(g)' = RowOf(g)
    BY <1>1, <1>2 DEF Owner, RowOf
  <2>2. \A p, g : Has(p, g)' <=> Has(p, g)
    BY <1>1 DEF Has
  <2>3. \A g \in fileOp.todo : Has(Owner, g) /\ fileOp.seen[g] \in Contents /\ Knows(RowOf(g), fileOp.seen[g])
    BY DEF OpFiles
  <2>4. fileOp.kind = "undo" => \A g \in fileOp.done : Has(fileOp.who, g)
    BY DEF OpFiles
  <2>5. Journalled' /\ fileOp'.kind \notin {"commit", "command", "review"}
    BY <1>2 DEF Journalled, Restores
  <2>. QED
    BY <1>2, <2>1, <2>2, <2>3, <2>4, <2>5 DEF OpFiles, Has, Knows
<1>12. Owner' = Owner /\ RowOf(f)' = RowOf(f)
  BY <1>1, <1>2 DEF Owner, RowOf
<1>13. Fresh'
  <2>1. LookedAt' = fileOp.todo \ {f} /\ LookedAt = fileOp.todo
    BY <1>2 DEF LookedAt, Restores
  <2>2. \A g \in CpFiles : g # f => (Settled(g)' <=> Settled(g))
    BY <1>6 DEF Settled
  <2>3. fileOp.todo \subseteq CpFiles
    BY DEF FileOp
  <2>4. author'[f] \in CpTasks => onDisk'[f] = RowOf(f)'.before
    BY <1>6, <1>12 DEF before
  <2>. QED
    BY <1>2, <1>6, <2>1, <2>2, <2>3, <2>4 DEF Fresh, Restores
<1>14. TaskIsCovered' /\ FirstIsKept'
  BY <1>1, <1>6 DEF TaskIsCovered, FirstIsKept, Has, Knows
<1>15. UnchangedYet'
  <2>1. ASSUME NEW t \in CpTasks, Running(t) PROVE Has(t, f)
    BY <1>3, <2>1, OwnerFacts DEF OpKnown, Quiet, Restores
  <2>2. ASSUME NEW v \in CpTasks, NEW g \in CpFiles, Running(v), ~Has(v, g),
               g \notin touched[v] \cup uncovered[v]
        PROVE  onDisk'[g] = atStart[v][g]
    BY <1>6, <2>1, <2>2 DEF UnchangedYet, Restores
  <2>3. fileOp'.kind \notin {"command", "commit"}
    BY <1>2 DEF Restores
  <2>. QED
    BY <1>1, <2>2, <2>3 DEF UnchangedYet, Has, Running
<1>16. ReplacedKept' /\ UndoRows'
  <2>1. ASSUME fileOp.kind = "rewind", before # fileOp.seen[f]
        PROVE  /\ Has(fileOp.id, f) /\ fileChanges[fileOp.id][f].before = fileOp.seen[f]
               /\ ~fileChanges[fileOp.id][f].restored
    BY <2>1, OwnerFacts DEF KeepsWhatItReplaces, UndoRows, before, RowOf
  <2>2. ReplacedKept'
    <3>. SUFFICES ASSUME NEW u \in CpUndos, NEW g \in CpFiles, replaced'[u][g] # NoContent,
                         rewindOf[u] # NoCpTask \/ (fileOp.kind = "rewind" /\ fileOp.id = u)
                  PROVE  /\ Has(u, g) /\ fileChanges[u][g].before = replaced'[u][g]
                         /\ ~fileChanges[u][g].restored
      BY <1>1, <1>2 DEF ReplacedKept, Has
    <3>1. CASE replaced'[u][g] = replaced[u][g]
      BY <3>1 DEF ReplacedKept
    <3>2. CASE replaced'[u][g] # replaced[u][g]
      <4>1. u = fileOp.id /\ g = f
        BY <1>7, <3>2
      <4>2. fileOp.kind = "rewind" /\ replaced'[u][g] = fileOp.seen[f] /\ before # fileOp.seen[f]
        BY <1>7, <3>2, <4>1 DEF Restores
      <4>. QED
        BY <2>1, <4>1, <4>2
    <3>. QED
      BY <3>1, <3>2
  <2>. QED
    BY <1>1, <1>2, <2>2 DEF UndoRows, Has
<1>17. KeepsWhatItReplaces' /\ UndoPutsAll'
  <2>1. KeepsWhatItReplaces'
    BY <1>1, <1>2 DEF KeepsWhatItReplaces, Has
  <2>2. \A p : Unrestored(p)' = Unrestored(p)
    BY <1>1 DEF Unrestored, Has
  <2>3. UndoPutsAll'
    BY <1>2, <1>7, <2>2 DEF UndoPutsAll
  <2>. QED
    BY <2>1, <2>3
<1>18. EditsKnown'
  BY <1>1, <1>2, <1>6 DEF EditsKnown, Has, Knows, Running, Unrestored
<1>. QED
  BY <1>8, <1>10, <1>11, <1>13, <1>14, <1>15, <1>16, <1>17, <1>18 DEF CheckpointsInv
-----------------------------------------------------------------------------
(* Rows are written                                                        *)

\* A step that changes a row, and no file.
LEMMA RowKeeps ==
  ASSUME TaskIsCovered, FirstIsKept, NEW o \in Owners, NEW f \in CpFiles,
         \A p \in Owners, g \in CpFiles : p # o \/ g # f => fileChanges'[p][g] = fileChanges[p][g],
         UNCHANGED <<onDisk, touched, atStart>>,
         \A t \in CpTasks : uncovered[t] \subseteq uncovered'[t],
         \A g \in CpFiles : author'[g] = author[g] \/ (g = f /\ author'[g] = o),
         o \in CpTasks /\ author'[f] = o =>
             /\ Has(o, f)' /\ Knows(fileChanges'[o][f], onDisk[f])
             /\ fileChanges'[o][f].restored => onDisk[f] = fileChanges'[o][f].before,
         o \in CpTasks /\ Has(o, f)' /\ f \notin touched[o] \cup uncovered'[o] =>
             fileChanges'[o][f].before = atStart[o][f]
  PROVE  TaskIsCovered' /\ FirstIsKept'
<1>1. ASSUME NEW t \in CpTasks, NEW g \in CpFiles, author'[g] = t
      PROVE  /\ Has(t, g)' /\ Knows(fileChanges'[t][g], onDisk[g])
             /\ fileChanges'[t][g].restored => onDisk[g] = fileChanges'[t][g].before
  <2>1. CASE t = o /\ g = f
    BY <1>1, <2>1
  <2>2. CASE ~(t = o /\ g = f)
    <3>1. fileChanges'[t][g] = fileChanges[t][g] /\ author[g] = t
      BY <1>1, <2>2 DEF Owners
    <3>. QED
      BY <3>1 DEF TaskIsCovered, Has
  <2>. QED
    BY <2>1, <2>2
<1>2. ASSUME NEW t \in CpTasks, NEW g \in CpFiles, Has(t, g)', g \notin touched[t] \cup uncovered'[t]
      PROVE  fileChanges'[t][g].before = atStart[t][g]
  <2>1. CASE t = o /\ g = f
    BY <1>2, <2>1
  <2>2. CASE ~(t = o /\ g = f)
    <3>1. fileChanges'[t][g] = fileChanges[t][g] /\ g \notin touched[t] \cup uncovered[t]
      BY <1>2, <2>2 DEF Owners
    <3>. QED
      BY <1>2, <3>1 DEF FirstIsKept, Has
  <2>. QED
    BY <2>1, <2>2
<1>3. TaskIsCovered'
  BY <1>1 DEF TaskIsCovered, Knows
<1>4. FirstIsKept'
  BY <1>2 DEF FirstIsKept
<1>. QED
  BY <1>3, <1>4

\* A step that gives tasks rows, and undos none.
LEMMA UndoRowsKept ==
  ASSUME CheckpointTypes, UndoRows, UNCHANGED <<rewindOf, phase>>,
         \A u \in CpUndos, g \in CpFiles : fileChanges'[u][g] = fileChanges[u][g],
         \A t \in CpTasks, g \in CpFiles : Has(t, g) => fileChanges'[t][g] # NoChange,
         fileOp'.kind # "rewind" \/ /\ fileOp.kind = "rewind" /\ fileOp'.at # "keep"
                                    /\ fileOp'.who = fileOp.who /\ fileOp'.id = fileOp.id,
         fileOp.kind = "rewind" => fileOp.who \in CpTasks /\ fileOp.id \in CpUndos
  PROVE  UndoRows'
<1>1. ASSUME NEW u \in CpUndos, NEW g \in CpFiles, rewindOf[u] # NoCpTask, fileChanges'[u][g] # NoChange
      PROVE  fileChanges'[rewindOf[u]][g] # NoChange
  <2>0. Has(u, g)
    BY <1>1 DEF Has
  <2>1. rewindOf[u] \in CpTasks /\ Has(rewindOf[u], g)
    BY <1>1, <2>0 DEF UndoRows, CheckpointTypes
  <2>. QED
    BY <2>1
<1>2. ASSUME NEW g \in CpFiles, fileOp.kind = "rewind", fileChanges'[fileOp.id][g] # NoChange
      PROVE  fileChanges'[fileOp.who][g] # NoChange /\ ~fileChanges'[fileOp.id][g].restored
  BY <1>2 DEF UndoRows, Has
<1>. QED
  BY <1>1, <1>2 DEF UndoRows, Has

\* A file tool journals a file that it has seen.
LEMMA CommitJournalsInv ==
  ASSUME CheckpointsInv, NEW f \in CpFiles, CommitJournals(f) PROVE CheckpointsInv'
<1>. /\ CheckpointTypes /\ OpKnown /\ OpFiles /\ Journalled /\ Fresh /\ TaskIsCovered /\ UnchangedYet
     /\ FirstIsKept /\ ReplacedKept /\ UndoRows /\ EditsKnown
  BY DEF CheckpointsInv
<1>. fileOp.kind = "commit" /\ fileOp.at = "journal" /\ f \in fileOp.todo /\ fileOp \in FileOp
  BY DEF CommitJournals, CheckpointTypes
<1>0. PICK t \in CpTasks : t = fileOp.who
  BY DEF OpKnown, Quiet
<1>. CpTasks \subseteq Owners /\ CpUndos \subseteq Owners
  BY DEF Owners
<1>1. /\ t \in CpTasks /\ Running(t) /\ phase[t] # "new" /\ t \in Owners /\ t \notin CpUndos
      /\ f \in Planned /\ fileOp.plan[f] \in Contents /\ fileOp.seen[f] \in Contents
  BY <1>0, CheckpointsAssumption DEF OpKnown, Quiet, OpFiles, Planned, FileOp, Owners
<1>2. PICK s \in Contents, a \in Contents : s = fileOp.seen[f] /\ a = fileOp.plan[f]
  BY <1>1
<1>3. /\ fileChanges' \in [Owners -> [CpFiles -> Change \cup {NoChange}]]
      /\ \A p \in Owners, g \in CpFiles : p # t \/ g # f => fileChanges'[p][g] = fileChanges[p][g]
      /\ fileChanges'[t][f] # NoChange
      /\ fileChanges'[t][f].before = IF Has(t, f) THEN fileChanges[t][f].before ELSE fileOp.seen[f]
      /\ fileChanges'[t][f].after = fileOp.plan[f] /\ fileChanges'[t][f].observed = fileOp.seen[f]
      /\ fileChanges'[t][f].restored = FALSE
  <2>1. Upsert(t, f, s, a, s)
    BY <1>0, <1>2 DEF CommitJournals
  <2>2. /\ fileChanges' \in [Owners -> [CpFiles -> Change \cup {NoChange}]]
        /\ \A p \in Owners, g \in CpFiles : p # t \/ g # f => fileChanges'[p][g] = fileChanges[p][g]
        /\ fileChanges'[t][f] # NoChange
        /\ fileChanges'[t][f].before = IF Has(t, f) THEN fileChanges[t][f].before ELSE s
        /\ fileChanges'[t][f].after = a /\ fileChanges'[t][f].observed = s
        /\ fileChanges'[t][f].restored = FALSE
    BY <1>1, <2>1, UpsertFacts
  <2>. QED
    BY <1>2, <2>2
<1>4. UNCHANGED <<onDisk, cpCalls, author, touched, uncovered, replaced, rewindOf, phase, breaks,
                  atStart>>
  BY DEF CommitJournals, TablesOnly
<1>5. /\ fileOp' \in FileOp /\ fileOp'.kind = "commit" /\ fileOp'.who = t
      /\ fileOp'.plan = fileOp.plan /\ fileOp'.seen = fileOp.seen
      /\ \/ fileOp'.at = "write" /\ fileOp'.todo = Planned /\ fileOp.todo = {f}
         \/ fileOp'.at = "journal" /\ fileOp'.todo = fileOp.todo \ {f}
  <2>1. Planned \subseteq CpFiles
    BY DEF Planned
  <2>2. CASE fileOp.todo = {f}
    BY <1>0, <2>1, <2>2 DEF CommitJournals, FileOp
  <2>3. CASE fileOp.todo # {f}
    BY <1>0, <2>3 DEF CommitJournals, FileOp
  <2>. QED
    BY <2>2, <2>3
<1>6. CheckpointTypes'
  BY <1>3, <1>4, <1>5 DEF CheckpointTypes
<1>7. /\ \A p \in Owners, g \in CpFiles : p # t \/ g # f => (Has(p, g)' <=> Has(p, g))
      /\ \A p \in Owners, g \in CpFiles : Has(p, g) => Has(p, g)'
      /\ Has(t, f)'
  <2>1. \A p \in Owners, g \in CpFiles : p # t \/ g # f => (Has(p, g)' <=> Has(p, g))
    BY <1>3 DEF Has
  <2>2. Has(t, f)'
    BY <1>3 DEF Has
  <2>. QED
    BY <2>1, <2>2
<1>8. OpKnown'
  <2>1. \A v \in CpTasks, g \in CpFiles : phase[v] = "new" => ~Has(v, g)'
    BY <1>1, <1>7 DEF OpKnown
  <2>. QED
    BY <1>0, <1>1, <1>4, <1>5, <2>1 DEF OpKnown, Quiet, Running
<1>9. Planned' = Planned
  BY <1>5 DEF Planned
<1>10. OpFiles'
  BY <1>5, <1>9 DEF OpFiles, Restores
<1>11. Journalled'
  <2>1. \A g \in (Planned \ fileOp.todo) \cup {f} :
           Has(t, g)' /\ fileChanges'[t][g].after = fileOp.plan[g] /\ ~fileChanges'[t][g].restored
    BY <1>0, <1>1, <1>3, <1>7 DEF Journalled, Planned
  <2>2. CASE fileOp'.at = "write" /\ fileOp'.todo = Planned /\ fileOp.todo = {f}
    BY <1>5, <1>9, <2>1, <2>2 DEF Journalled
  <2>3. CASE fileOp'.at = "journal" /\ fileOp'.todo = fileOp.todo \ {f}
    BY <1>5, <1>9, <2>1, <2>3 DEF Journalled
  <2>. QED
    BY <1>5, <2>2, <2>3
<1>12. Settled(f) => onDisk[f] = fileOp.seen[f]
  BY DEF Fresh, LookedAt
<1>13. Fresh'
  BY <1>4, <1>5 DEF Fresh, LookedAt, Restores, Settled
<1>14. TaskIsCovered' /\ FirstIsKept'
  <2>1. author[f] = t => Knows(fileChanges'[t][f], onDisk[f])
    BY <1>1, <1>3, <1>12 DEF Knows, Settled
  <2>2. f \notin touched[t] \cup uncovered[t] => fileChanges'[t][f].before = atStart[t][f]
    BY <1>1, <1>3 DEF FirstIsKept, UnchangedYet
  <2>. QED
    BY <1>1, <1>3, <1>4, <1>7, <2>1, <2>2, RowKeeps
<1>16. UnchangedYet'
  <2>1. ASSUME NEW v \in CpTasks, NEW g \in CpFiles, Running(v), ~Has(v, g)',
               g \notin touched[v] \cup uncovered[v]
        PROVE  onDisk[g] = atStart[v][g] /\ (g \in Planned => fileOp.seen[g] = atStart[v][g])
    BY <1>0, <1>7, <2>1 DEF UnchangedYet
  <2>. QED
    BY <1>4, <1>5, <1>9, <2>1 DEF UnchangedYet, Running
<1>17. ReplacedKept'
  BY <1>1, <1>3, <1>4, <1>5, <1>7 DEF ReplacedKept
<1>18. UndoRows'
  <2>1. \A u \in CpUndos, g \in CpFiles : fileChanges'[u][g] = fileChanges[u][g]
    BY <1>1, <1>3
  <2>2. \A v \in CpTasks, g \in CpFiles : Has(v, g) => fileChanges'[v][g] # NoChange
    BY <1>7 DEF Has
  <2>. QED
    BY <1>4, <1>5, <2>1, <2>2, UndoRowsKept
<1>19. KeepsWhatItReplaces' /\ UndoPutsAll'
  BY <1>5 DEF KeepsWhatItReplaces, UndoPutsAll
<1>20. EditsKnown'
  <2>1. ASSUME author[f] = "user" PROVE fileChanges'[t][f].before = onDisk[f]
    BY <1>1, <1>3, <1>12, <2>1 DEF EditsKnown, Settled
  <2>2. ASSUME NEW g \in CpFiles, author[g] = "user", NEW v \in CpTasks, Has(v, g)',
               Running(v) \/ Knows(fileChanges'[v][g], onDisk[g])
        PROVE  fileChanges'[v][g].before = onDisk[g]
    <3>1. CASE v = t /\ g = f
      BY <2>1, <2>2, <3>1
    <3>2. CASE ~(v = t /\ g = f)
      <4>1. fileChanges'[v][g] = fileChanges[v][g] /\ Has(v, g)
        BY <1>0, <1>3, <1>7, <2>2, <3>2
      <4>. QED
        BY <2>2, <4>1 DEF EditsKnown
    <3>. QED
      BY <3>1, <3>2
  <2>3. ASSUME NEW g \in CpFiles, author[g] = "user", NEW u \in CpUndos, rewindOf[u] # NoCpTask, Has(u, g)'
        PROVE  ~Knows(fileChanges'[u][g], onDisk[g])
    BY <1>1, <1>3, <1>7, <2>3 DEF EditsKnown
  <2>. QED
    BY <1>4, <1>5, <2>2, <2>3 DEF EditsKnown, Running, Knows
<1>. QED
  BY <1>6, <1>8, <1>10, <1>11, <1>13, <1>14, <1>16, <1>17, <1>18, <1>19, <1>20 DEF CheckpointsInv

\* A command's change is recorded by who ran it.
LEMMA CommandRecordsInv ==
  ASSUME CheckpointsInv, NEW f \in CpFiles, CommandRecords(f) PROVE CheckpointsInv'
<1>. /\ CheckpointTypes /\ OpKnown /\ OpFiles /\ Fresh /\ TaskIsCovered /\ UnchangedYet
     /\ FirstIsKept /\ ReplacedKept /\ UndoRows /\ EditsKnown
  BY DEF CheckpointsInv
<1>. fileOp.kind = "command" /\ fileOp.at = "record" /\ f \in fileOp.todo /\ fileOp \in FileOp
  BY DEF CommandRecords, CheckpointTypes
<1>0. PICK t \in CpTasks : t = fileOp.who
  BY DEF OpKnown, Quiet
<1>. CpTasks \subseteq Owners /\ CpUndos \subseteq Owners
  BY DEF Owners
<1>1. /\ Running(t) /\ phase[t] # "new" /\ t \notin CpUndos
      /\ onDisk[f] \in Contents /\ fileOp.seen[f] \in Contents /\ ~Settled(f)
  BY <1>0, CheckpointsAssumption DEF OpKnown, Quiet, OpFiles, Fresh, CheckpointTypes, FileOp
<1>2. UNCHANGED <<onDisk, cpCalls, touched, replaced, rewindOf, phase, breaks, atStart>>
  BY DEF CommandRecords, TablesOnly
<1>3. /\ fileOp' \in FileOp
      /\ \/ fileOp'.kind = "none" /\ fileOp.todo = {f}
         \/ /\ fileOp'.kind = "command" /\ fileOp'.at = "record" /\ fileOp'.who = t
            /\ fileOp'.seen = fileOp.seen /\ fileOp'.todo = fileOp.todo \ {f}
  <2>1. CASE fileOp.todo = {f}
    BY <2>1, NoOpFacts DEF CommandRecords
  <2>2. CASE fileOp.todo # {f}
    BY <1>0, <2>2 DEF CommandRecords, FileOp
  <2>. QED
    BY <2>1, <2>2
<1>4. /\ fileChanges' \in [Owners -> [CpFiles -> Change \cup {NoChange}]]
      /\ author' \in [CpFiles -> Authors] /\ uncovered' \in [CpTasks -> SUBSET CpFiles]
      /\ \A v \in CpTasks : uncovered[v] \subseteq uncovered'[v]
      /\ \A p \in Owners, g \in CpFiles : p # t \/ g # f => fileChanges'[p][g] = fileChanges[p][g]
      /\ \A g \in CpFiles : author'[g] = author[g] \/ (g = f /\ author'[g] = t)
      /\ Has(t, f) => fileChanges'[t][f] # NoChange
      /\ \/ /\ fileChanges'[t][f] # NoChange
            /\ fileChanges'[t][f].before = IF Has(t, f) THEN fileChanges[t][f].before ELSE fileOp.seen[f]
            /\ fileChanges'[t][f].after = onDisk[f] /\ ~fileChanges'[t][f].restored
         \/ UNCHANGED <<fileChanges, author>> /\ f \in uncovered'[t]
  <2>1. CASE /\ Upsert(t, f, fileOp.seen[f], onDisk[f], fileOp.seen[f])
             /\ author' = IF author[f] = "command" THEN [author EXCEPT ![f] = t] ELSE author
             /\ UNCHANGED uncovered
    <3>1. /\ fileChanges' \in [Owners -> [CpFiles -> Change \cup {NoChange}]]
          /\ \A p \in Owners, g \in CpFiles : p # t \/ g # f => fileChanges'[p][g] = fileChanges[p][g]
          /\ fileChanges'[t][f] # NoChange
          /\ fileChanges'[t][f].before = IF Has(t, f) THEN fileChanges[t][f].before ELSE fileOp.seen[f]
          /\ fileChanges'[t][f].after = onDisk[f] /\ fileChanges'[t][f].restored = FALSE
      <4>1. PICK c \in Contents : c = onDisk[f]
        BY <1>1
      <4>2. PICK s \in Contents : s = fileOp.seen[f]
        BY <1>1
      <4>3. Upsert(t, f, s, c, s)
        BY <2>1, <4>1, <4>2
      <4>4. t \in Owners
        OBVIOUS
      <4>5. /\ fileChanges' \in [Owners -> [CpFiles -> Change \cup {NoChange}]]
            /\ \A p \in Owners, g \in CpFiles :
                  p # t \/ g # f => fileChanges'[p][g] = fileChanges[p][g]
            /\ fileChanges'[t][f] # NoChange
            /\ fileChanges'[t][f].before = IF Has(t, f) THEN fileChanges[t][f].before ELSE s
            /\ fileChanges'[t][f].after = c /\ fileChanges'[t][f].observed = s
            /\ fileChanges'[t][f].restored = FALSE
        BY <4>3, <4>4, UpsertFacts
      <4>. QED
        BY <4>1, <4>2, <4>5
    <3>2. /\ author' \in [CpFiles -> Authors]
          /\ \A g \in CpFiles : author'[g] = author[g] \/ (g = f /\ author'[g] = t)
      BY <2>1 DEF CheckpointTypes, Authors
    <3>. QED
      BY <2>1, <3>1, <3>2 DEF CheckpointTypes
  <2>2. CASE /\ uncovered' = [uncovered EXCEPT ![t] = uncovered[t] \cup {f}]
             /\ UNCHANGED <<fileChanges, author>>
    BY <2>2 DEF CheckpointTypes, Has
  <2>. QED
    BY <1>0, <2>1, <2>2 DEF CommandRecords
<1>5. CheckpointTypes'
  BY <1>2, <1>3, <1>4 DEF CheckpointTypes
<1>6. /\ \A p \in Owners, g \in CpFiles : p # t \/ g # f => (Has(p, g)' <=> Has(p, g))
      /\ \A p \in Owners, g \in CpFiles : Has(p, g) => Has(p, g)'
  BY <1>4 DEF Has
<1>7. OpKnown'
  <2>1. \A v \in CpTasks, g \in CpFiles : phase[v] = "new" => ~Has(v, g)'
    BY <1>1, <1>6 DEF OpKnown
  <2>. QED
    BY <1>0, <1>1, <1>2, <1>3, <2>1 DEF OpKnown, Quiet, Running
<1>8. OpFiles' /\ Journalled' /\ KeepsWhatItReplaces' /\ UndoPutsAll'
  BY <1>3 DEF OpFiles, Journalled, KeepsWhatItReplaces, UndoPutsAll, Restores
<1>9. Fresh'
  <2>1. \A g \in fileOp.todo \ {f} : ~Settled(g)'
    BY <1>4 DEF Fresh, Settled, FileOp
  <2>. QED
    BY <1>3, <2>1 DEF Fresh, LookedAt, Restores
<1>10. TaskIsCovered' /\ FirstIsKept'
  <2>1. ASSUME author'[f] = t
        PROVE  Has(t, f)' /\ Knows(fileChanges'[t][f], onDisk[f]) /\ ~fileChanges'[t][f].restored
    BY <1>1, <1>4, <2>1 DEF Has, Knows, Settled
  <2>2. ASSUME Has(t, f)', f \notin touched[t] \cup uncovered'[t]
        PROVE  fileChanges'[t][f].before = atStart[t][f]
    BY <1>1, <1>4, <2>2 DEF FirstIsKept, UnchangedYet
  <2>. QED
    BY <1>2, <1>4, <2>1, <2>2, RowKeeps
<1>11. UnchangedYet'
  <2>1. ASSUME NEW v \in CpTasks, NEW g \in CpFiles, Running(v), ~Has(v, g)',
               g \notin touched[v] \cup uncovered'[v]
        PROVE  /\ fileOp.seen[g] = atStart[v][g]
               /\ g \notin fileOp.todo \ {f} => onDisk[g] = atStart[v][g]
    <3>1. v = t
      BY <1>1, <2>1 DEF OpKnown
    <3>2. g # f
      BY <1>4, <2>1, <3>1 DEF Has
    <3>3. ~Has(v, g) /\ g \notin touched[v] \cup uncovered[v]
      BY <1>4, <1>6, <2>1
    <3>. QED
      BY <2>1, <3>2, <3>3 DEF UnchangedYet
  <2>2. CASE fileOp'.kind = "none" /\ fileOp.todo = {f}
    BY <1>2, <2>1, <2>2 DEF UnchangedYet, Running
  <2>3. CASE /\ fileOp'.kind = "command" /\ fileOp'.at = "record" /\ fileOp'.who = t
             /\ fileOp'.seen = fileOp.seen /\ fileOp'.todo = fileOp.todo \ {f}
    BY <1>2, <2>1, <2>3 DEF UnchangedYet, Running
  <2>. QED
    BY <1>3, <2>2, <2>3
<1>12. ReplacedKept'
  BY <1>1, <1>2, <1>3, <1>4, <1>6 DEF ReplacedKept
<1>13. UndoRows'
  <2>1. \A u \in CpUndos, g \in CpFiles : fileChanges'[u][g] = fileChanges[u][g]
    BY <1>1, <1>4
  <2>2. \A v \in CpTasks, g \in CpFiles : Has(v, g) => fileChanges'[v][g] # NoChange
    BY <1>6 DEF Has
  <2>. QED
    BY <1>2, <1>3, <2>1, <2>2, UndoRowsKept
<1>14. EditsKnown'
  <2>1. ASSUME NEW g \in CpFiles, author'[g] = "user" PROVE g # f /\ author[g] = "user"
    BY <1>1, <1>4, <2>1, AuthorFacts DEF Settled
  <2>2. ASSUME NEW g \in CpFiles, author'[g] = "user", NEW p \in Owners
        PROVE  fileChanges'[p][g] = fileChanges[p][g] /\ (Has(p, g)' <=> Has(p, g))
    BY <1>4, <1>6, <2>1, <2>2
  <2>. QED
    BY <1>2, <1>3, <2>1, <2>2 DEF EditsKnown, Running, Knows
<1>. QED
  BY <1>5, <1>7, <1>8, <1>9, <1>10, <1>11, <1>12, <1>13, <1>14 DEF CheckpointsInv

\* A file that was put back is marked so in its row, which says what it said.
LEMMA RestoreMarksInv ==
  ASSUME CheckpointsInv, NEW f \in CpFiles, RestoreMarks(f) PROVE CheckpointsInv'
<1>. /\ CheckpointTypes /\ OpKnown /\ OpFiles /\ Fresh /\ TaskIsCovered /\ UnchangedYet
     /\ FirstIsKept /\ ReplacedKept /\ UndoRows /\ KeepsWhatItReplaces /\ UndoPutsAll /\ EditsKnown
  BY DEF CheckpointsInv
<1>. fileOp.kind \in Restores /\ fileOp.at = "put" /\ f \in fileOp.placed /\ fileOp \in FileOp
  BY DEF RestoreMarks, CheckpointTypes
<1>0. PICK o \in Owners : o = Owner
  BY OwnerFacts
<1>. CpTasks \subseteq Owners /\ CpUndos \subseteq Owners
  BY DEF Owners
<1>1. /\ f \in fileOp.todo /\ \A g \in fileOp.placed : g = f
      /\ Has(o, f) /\ fileChanges[o][f] \in Change
      /\ fileOp.kind = "undo" => o = fileOp.id /\ o \in CpUndos /\ o \notin CpTasks
      /\ fileOp.kind # "undo" => o = fileOp.who /\ o \in CpTasks /\ o \notin CpUndos
  <2>1. f \in fileOp.todo /\ (\A g \in fileOp.placed : g = f) /\ Has(Owner, f)
    BY DEF OpFiles
  <2>. QED
    BY <1>0, <2>1, OwnerFacts, CheckpointsAssumption DEF Has, CheckpointTypes
<1>2. UNCHANGED <<onDisk, cpCalls, author, touched, uncovered, replaced, rewindOf, phase, breaks,
                  atStart>>
  BY DEF RestoreMarks, TablesOnly
<1>3. /\ fileChanges' \in [Owners -> [CpFiles -> Change \cup {NoChange}]]
      /\ \A p \in Owners, g \in CpFiles : p # o \/ g # f => fileChanges'[p][g] = fileChanges[p][g]
      /\ fileChanges'[o][f] = [fileChanges[o][f] EXCEPT !.restored = TRUE]
      /\ fileChanges'[o][f] # NoChange
  <2>1. fileChanges' = [fileChanges EXCEPT ![o][f] = [fileChanges[o][f] EXCEPT !.restored = TRUE]]
    BY <1>0, <1>1 DEF RestoreMarks, Has, CheckpointTypes
  <2>2. PICK row \in Change : row = [fileChanges[o][f] EXCEPT !.restored = TRUE]
    BY <1>1 DEF Change
  <2>3. fileChanges' = [fileChanges EXCEPT ![o][f] = row]
    BY <2>1, <2>2
  <2>4. /\ fileChanges' \in [Owners -> [CpFiles -> Change \cup {NoChange}]]
        /\ \A p \in Owners, g \in CpFiles : p # o \/ g # f => fileChanges'[p][g] = fileChanges[p][g]
        /\ fileChanges'[o][f] = row /\ row # NoChange
    BY <2>3, RowFacts
  <2>. QED
    BY <2>2, <2>4
<1>4. /\ \A p \in Owners, g \in CpFiles : Has(p, g)' <=> Has(p, g)
      /\ \A p \in Owners, g \in CpFiles : Has(p, g) =>
            /\ fileChanges'[p][g].before = fileChanges[p][g].before
            /\ fileChanges'[p][g].after = fileChanges[p][g].after
            /\ fileChanges'[p][g].observed = fileChanges[p][g].observed
      /\ fileChanges'[o][f].restored
  <2>1. /\ fileChanges'[o][f].before = fileChanges[o][f].before
        /\ fileChanges'[o][f].after = fileChanges[o][f].after
        /\ fileChanges'[o][f].observed = fileChanges[o][f].observed
        /\ fileChanges'[o][f].restored
    BY <1>1, <1>3 DEF Change
  <2>2. \A p \in Owners, g \in CpFiles : Has(p, g)' <=> Has(p, g)
    BY <1>1, <1>3 DEF Has
  <2>3. ASSUME NEW p \in Owners, NEW g \in CpFiles
        PROVE  /\ fileChanges'[p][g].before = fileChanges[p][g].before
               /\ fileChanges'[p][g].after = fileChanges[p][g].after
               /\ fileChanges'[p][g].observed = fileChanges[p][g].observed
    <3>1. CASE p = o /\ g = f
      BY <2>1, <3>1
    <3>2. CASE ~(p = o /\ g = f)
      <4>1. fileChanges'[p][g] = fileChanges[p][g]
        BY <1>3, <3>2
      <4>. QED
        BY <4>1
    <3>. QED
      BY <3>1, <3>2
  <2>. QED
    BY <2>1, <2>2, <2>3
<1>5. \A p \in Owners, g \in CpFiles : Has(p, g) =>
         \A c : Knows(fileChanges'[p][g], c) <=> Knows(fileChanges[p][g], c)
  BY <1>4 DEF Knows
<1>6. /\ fileOp' \in FileOp /\ fileOp'.kind = fileOp.kind /\ fileOp'.who = fileOp.who
      /\ fileOp'.id = fileOp.id /\ fileOp'.seen = fileOp.seen /\ fileOp'.placed = {}
      /\ fileOp'.todo = fileOp.todo \ {f} /\ fileOp'.done = fileOp.done \cup {f}
      /\ \/ fileOp'.at = "close" /\ fileOp.todo = {f}
         \/ fileOp'.at = "put"
  BY DEF RestoreMarks, FileOp
<1>7. Owner' = o
  BY <1>0, <1>6 DEF Owner
<1>8. CheckpointTypes'
  BY <1>2, <1>3, <1>6 DEF CheckpointTypes
<1>9. OpKnown'
  <2>1. \A v \in CpTasks, g \in CpFiles : phase[v] = "new" => ~Has(v, g)'
    BY <1>4 DEF OpKnown
  <2>. QED
    BY <1>2, <1>6, <2>1 DEF OpKnown, Quiet, Running, Restores
<1>10. OpFiles'
  <2>1. \A g \in fileOp.todo : /\ Has(o, g)' /\ fileOp.seen[g] \in Contents
                               /\ Knows(fileChanges'[o][g], fileOp.seen[g])
    BY <1>0, <1>4, <1>5 DEF OpFiles, RowOf, FileOp
  <2>2. ASSUME fileOp.kind = "undo", NEW g \in fileOp.done \cup {f} PROVE Has(fileOp.who, g)'
    <3>1. Has(fileOp.who, g)
      <4>1. CASE g = f
        <5>1. fileOp.id \in CpUndos /\ rewindOf[fileOp.id] = fileOp.who /\ rewindOf[fileOp.id] # NoCpTask
          BY <2>2, OwnerFacts DEF OpKnown
        <5>2. Has(fileOp.id, f)
          BY <1>1, <2>2
        <5>. QED
          BY <4>1, <5>1, <5>2 DEF UndoRows
      <4>2. CASE g # f
        BY <2>2, <4>2 DEF OpFiles
      <4>. QED
        BY <4>1, <4>2
    <3>2. fileOp.who \in Owners /\ g \in CpFiles
      BY <2>2 DEF OpKnown, Quiet, FileOp
    <3>. QED
      BY <1>4, <1>6, <3>1, <3>2 DEF Has
  <2>. QED
    BY <1>6, <1>7, <2>1, <2>2 DEF OpFiles, Restores, RowOf, Has, Knows
<1>11. Journalled'
  BY <1>6 DEF Journalled, Restores
<1>12. Fresh'
  BY <1>1, <1>2, <1>6 DEF Fresh, LookedAt, Restores, Settled
<1>13. TaskIsCovered' /\ FirstIsKept'
  <2>1. ASSUME o \in CpTasks, author[f] = o PROVE onDisk[f] = fileChanges'[o][f].before
    BY <1>0, <1>1, <1>4, <2>1 DEF Fresh, RowOf
  <2>2. ASSUME o \in CpTasks, f \notin touched[o] \cup uncovered[o]
        PROVE  fileChanges'[o][f].before = atStart[o][f]
    BY <1>1, <1>4, <2>2 DEF FirstIsKept
  <2>3. ASSUME o \in CpTasks, author'[f] = o
        PROVE  /\ Has(o, f)' /\ Knows(fileChanges'[o][f], onDisk[f])
               /\ onDisk[f] = fileChanges'[o][f].before
    BY <1>1, <1>2, <1>4, <2>1, <2>3 DEF Knows
  <2>4. \A t \in CpTasks : uncovered[t] \subseteq uncovered'[t]
    BY <1>2
  <2>5. \A g \in CpFiles : author'[g] = author[g] \/ (g = f /\ author'[g] = o)
    BY <1>2
  <2>6. \A p \in Owners, g \in CpFiles : p # o \/ g # f => fileChanges'[p][g] = fileChanges[p][g]
    BY <1>3
  <2>. QED
    BY <1>2, <2>2, <2>3, <2>4, <2>5, <2>6, RowKeeps
<1>14. UnchangedYet'
  <2>1. ASSUME NEW v \in CpTasks, NEW g \in CpFiles, Running(v), ~Has(v, g)',
               g \notin touched[v] \cup uncovered[v]
        PROVE  onDisk[g] = atStart[v][g]
    BY <1>4, <2>1 DEF UnchangedYet, Restores
  <2>2. fileOp'.kind \notin {"command", "commit"}
    BY <1>6 DEF Restores
  <2>. QED
    BY <1>2, <2>1, <2>2 DEF UnchangedYet, Running
<1>15. ReplacedKept'
  <2>1. ASSUME NEW u \in CpUndos, NEW g \in CpFiles, replaced[u][g] # NoContent,
               rewindOf[u] # NoCpTask \/ (fileOp.kind = "rewind" /\ fileOp.id = u)
        PROVE  /\ Has(u, g)' /\ fileChanges'[u][g].before = replaced[u][g]
               /\ ~fileChanges'[u][g].restored
    <3>1. Has(u, g) /\ fileChanges[u][g].before = replaced[u][g] /\ ~fileChanges[u][g].restored
      BY <2>1 DEF ReplacedKept
    <3>2. ~(u = o /\ g = f)
      BY <1>1, <2>1 DEF UndoPutsAll
    <3>. QED
      BY <1>3, <1>4, <3>1, <3>2
  <2>. QED
    BY <1>2, <1>6, <2>1 DEF ReplacedKept
<1>16. UndoRows'
  <2>1. ASSUME NEW u \in CpUndos, NEW g \in CpFiles, rewindOf[u] # NoCpTask, Has(u, g)'
        PROVE  rewindOf[u] \in Owners /\ Has(rewindOf[u], g)
    BY <1>4, <2>1 DEF UndoRows, CheckpointTypes
  <2>2. ASSUME fileOp.kind = "rewind", NEW g \in CpFiles, Has(fileOp.id, g)'
        PROVE  fileChanges'[fileOp.who][g] # NoChange /\ ~fileChanges'[fileOp.id][g].restored
    <3>1. fileOp.id \in CpUndos /\ fileOp.who \in CpTasks /\ fileOp.id # o
      BY <1>1, <2>2 DEF OpKnown, Quiet
    <3>2. Has(fileOp.id, g)
      BY <1>4, <1>6, <2>2, <3>1 DEF Has
    <3>3. fileChanges'[fileOp.id][g] = fileChanges[fileOp.id][g]
      BY <1>3, <3>1
    <3>4. Has(fileOp.who, g) /\ ~fileChanges[fileOp.id][g].restored
      BY <2>2, <3>2 DEF UndoRows
    <3>. QED
      BY <1>4, <3>1, <3>3, <3>4 DEF Has
  <2>. QED
    BY <1>2, <1>4, <1>6, <2>1, <2>2 DEF UndoRows, Has
<1>17. KeepsWhatItReplaces'
  <2>1. ASSUME fileOp.kind = "rewind", NEW g \in fileOp.todo
        PROVE  \/ fileOp.seen[g] = fileChanges'[fileOp.who][g].before
               \/ /\ fileChanges'[fileOp.id][g] # NoChange
                  /\ fileChanges'[fileOp.id][g].before = fileOp.seen[g]
    <3>1. fileOp.id \in CpUndos /\ g \in CpFiles /\ Has(fileOp.who, g) /\ fileOp.who = o
      <4>1. fileOp.id \in CpUndos /\ fileOp.who = o
        BY <1>1, <2>1 DEF OpKnown
      <4>2. g \in CpFiles /\ Has(o, g)
        BY <1>0, <2>1 DEF OpFiles, FileOp
      <4>. QED
        BY <4>1, <4>2
    <3>2. \/ fileOp.seen[g] = fileChanges[fileOp.who][g].before
          \/ Has(fileOp.id, g) /\ fileChanges[fileOp.id][g].before = fileOp.seen[g]
      BY <2>1 DEF KeepsWhatItReplaces
    <3>. QED
      BY <1>4, <3>1, <3>2 DEF Has
  <2>. QED
    BY <1>6, <2>1 DEF KeepsWhatItReplaces, Has
<1>18. UndoPutsAll'
  <2>1. ASSUME fileOp.kind = "undo" PROVE Unrestored(o)' \subseteq fileOp.todo \ {f}
    <3>1. \A g \in Unrestored(o)' : g # f /\ g \in Unrestored(o)
      BY <1>3, <1>4 DEF Unrestored
    <3>. QED
      BY <1>1, <2>1, <3>1 DEF UndoPutsAll
  <2>2. ASSUME fileOp.kind = "undo", fileOp.todo = {f}, NEW g \in CpFiles
        PROVE  replaced[o][g] = NoContent
    <3>1. replaced[o][g] # NoContent => g \in Unrestored(o)
      BY <1>1, <2>2, OwnerFacts DEF ReplacedKept, Unrestored
    <3>. QED
      BY <1>1, <2>2, <3>1 DEF UndoPutsAll
  <2>. QED
    BY <1>1, <1>2, <1>6, <2>1, <2>2 DEF UndoPutsAll
<1>19. EditsKnown'
  <2>1. ASSUME NEW g \in CpFiles, author[g] = "user", NEW v \in CpTasks, Has(v, g)',
               Running(v) \/ Knows(fileChanges'[v][g], onDisk[g])
        PROVE  fileChanges'[v][g].before = onDisk[g]
    BY <1>4, <1>5, <2>1 DEF EditsKnown
  <2>2. ASSUME NEW g \in CpFiles, author[g] = "user", NEW u \in CpUndos, rewindOf[u] # NoCpTask, Has(u, g)'
        PROVE  ~Knows(fileChanges'[u][g], onDisk[g])
    BY <1>4, <1>5, <2>2 DEF EditsKnown
  <2>3. ASSUME NEW g \in CpFiles, author[g] = "user", fileOp.kind = "rewind"
        PROVE  fileChanges'[fileOp.id][g] = NoChange
    <3>1. fileOp.id \in CpUndos /\ ~Has(fileOp.id, g)
      BY <2>3 DEF EditsKnown, OpKnown
    <3>. QED
      BY <1>4, <1>6, <3>1 DEF Has
  <2>4. ASSUME NEW g \in CpFiles, author[g] = "user", fileOp.kind = "undo"
        PROVE  g \notin fileOp.todo \cup fileOp.done /\ g # f
    BY <1>1, <2>4 DEF EditsKnown
  <2>. QED
    BY <1>2, <1>6, <2>1, <2>2, <2>3, <2>4 DEF EditsKnown, Running, Knows, Has
<1>. QED
  BY <1>8, <1>9, <1>10, <1>11, <1>12, <1>13, <1>14, <1>15, <1>16, <1>17, <1>18, <1>19 DEF CheckpointsInv

\* A step that moves the row of a task to a file, which is as the row says then.
LEMMA MovesKeep ==
  ASSUME CheckpointsInv, NEW t \in CpTasks, NEW f \in CpFiles, ~Running(t),
         Has(t, f), NEW c \in Contents, NEW r \in BOOLEAN,
         fileChanges' = [fileChanges EXCEPT ![t][f] =
             [fileChanges[t][f] EXCEPT !.restored = r, !.after = c, !.observed = c]],
         UNCHANGED <<onDisk, rewindOf, phase, cpCalls, breaks, atStart, touched, uncovered, replaced>>,
         author' \in [CpFiles -> Authors], fileOp' \in FileOp,
         \A g \in CpFiles : author'[g] = author[g] \/ (g = f /\ author'[g] = t),
         author[f] # "user",
         author'[f] = t => c = onDisk[f] /\ (r => onDisk[f] = fileChanges[t][f].before),
         fileOp'.kind \notin {"commit", "command", "rewind"}, fileOp.kind \notin {"command", "rewind"},
         fileOp'.kind = "undo" => \A g \in CpFiles : author'[g] = "user" => g \notin fileOp'.todo \cup fileOp'.done,
         (OpKnown /\ OpFiles /\ Fresh /\ UndoPutsAll)'
  PROVE  CheckpointsInv'
<1>. /\ CheckpointTypes /\ OpKnown /\ TaskIsCovered /\ UnchangedYet /\ FirstIsKept /\ ReplacedKept
     /\ UndoRows /\ EditsKnown
  BY DEF CheckpointsInv
<1>. CpTasks \subseteq Owners /\ CpUndos \subseteq Owners /\ t \notin CpUndos
  BY CheckpointsAssumption DEF Owners
<1>1. PICK row \in Change :
        row = [fileChanges[t][f] EXCEPT !.restored = r, !.after = c, !.observed = c]
  <2>1. fileChanges[t][f] \in Change
    BY DEF Has, CheckpointTypes
  <2>. QED
    BY <2>1 DEF Change
<1>2. /\ row.before = fileChanges[t][f].before /\ row.restored = r /\ row.after = c
      /\ row.observed = c
  <2>1. fileChanges[t][f] \in Change
    BY DEF Has, CheckpointTypes
  <2>. QED
    BY <1>1, <2>1 DEF Change
<1>3. /\ fileChanges' \in [Owners -> [CpFiles -> Change \cup {NoChange}]]
      /\ \A p \in Owners, g \in CpFiles : p # t \/ g # f => fileChanges'[p][g] = fileChanges[p][g]
      /\ fileChanges'[t][f] = row /\ row # NoChange
  <2>1. fileChanges' = [fileChanges EXCEPT ![t][f] = row]
    BY <1>1
  <2>2. CheckpointTypes /\ t \in Owners /\ f \in CpFiles /\ row \in Change
    OBVIOUS
  <2>. QED
    BY ONLY <2>1, <2>2, RowFacts
<1>4. \A p \in Owners, g \in CpFiles : Has(p, g)' <=> Has(p, g)
  BY <1>3 DEF Has
<1>5. CheckpointTypes'
  BY <1>3 DEF CheckpointTypes
<1>6. Journalled' /\ KeepsWhatItReplaces'
  BY DEF Journalled, KeepsWhatItReplaces
<1>7. TaskIsCovered' /\ FirstIsKept'
  <2>1. ASSUME author'[f] = t
        PROVE  /\ Has(t, f)' /\ Knows(fileChanges'[t][f], onDisk[f])
               /\ fileChanges'[t][f].restored => onDisk[f] = fileChanges'[t][f].before
    BY <1>2, <1>3, <1>4, <2>1 DEF Knows
  <2>2. ASSUME f \notin touched[t] \cup uncovered[t]
        PROVE  fileChanges'[t][f].before = atStart[t][f]
    BY <1>2, <1>3, <2>2 DEF FirstIsKept
  <2>. QED
    BY <1>3, <2>1, <2>2, RowKeeps
<1>8. UnchangedYet'
  BY <1>4 DEF UnchangedYet, Running
<1>9. ReplacedKept'
  BY <1>3, <1>4 DEF ReplacedKept
<1>10. UndoRows'
  <2>1. \A u \in CpUndos, g \in CpFiles : fileChanges'[u][g] = fileChanges[u][g]
    BY <1>3
  <2>2. \A v \in CpTasks, g \in CpFiles : Has(v, g) => fileChanges'[v][g] # NoChange
    BY <1>4 DEF Has
  <2>. QED
    BY <2>1, <2>2, UndoRowsKept
<1>11. EditsKnown'
  <2>1. ASSUME NEW g \in CpFiles, author'[g] = "user" PROVE g # f /\ author[g] = "user"
    BY <2>1, AuthorFacts
  <2>2. ASSUME NEW g \in CpFiles, author'[g] = "user", NEW p \in Owners
        PROVE  fileChanges'[p][g] = fileChanges[p][g] /\ (Has(p, g)' <=> Has(p, g))
    BY <1>3, <1>4, <2>1, <2>2
  <2>3. fileOp'.kind # "rewind"
    OBVIOUS
  <2>4. \A g \in CpFiles : author'[g] = "user" /\ fileOp'.kind = "undo" =>
            g \notin fileOp'.todo \cup fileOp'.done
    OBVIOUS
  <2>5. ASSUME NEW g \in CpFiles, author'[g] = "user", NEW v \in CpTasks, Has(v, g)',
               Running(v)' \/ Knows(fileChanges'[v][g], onDisk'[g])
        PROVE  fileChanges'[v][g].before = onDisk'[g]
    <3>1. fileChanges'[v][g] = fileChanges[v][g] /\ Has(v, g) /\ author[g] = "user"
      BY <2>1, <2>2, <2>5
    <3>. QED
      BY <2>5, <3>1 DEF EditsKnown, Running
  <2>6. ASSUME NEW g \in CpFiles, author'[g] = "user", NEW u \in CpUndos, rewindOf'[u] # NoCpTask,
               Has(u, g)'
        PROVE  ~Knows(fileChanges'[u][g], onDisk'[g])
    <3>1. fileChanges'[u][g] = fileChanges[u][g] /\ Has(u, g) /\ author[g] = "user"
      BY <2>1, <2>2, <2>6
    <3>. QED
      BY <2>6, <3>1 DEF EditsKnown
  <2>. QED
    BY <2>3, <2>4, <2>5, <2>6 DEF EditsKnown
<1>. QED
  BY <1>5, <1>6, <1>7, <1>8, <1>9, <1>10, <1>11 DEF CheckpointsInv

\* A review says in the row what it wrote.
LEMMA ReviewMovesInv ==
  ASSUME CheckpointsInv, NEW f \in CpFiles, ReviewMoves(f) PROVE CheckpointsInv'
<1>. /\ CheckpointTypes /\ OpKnown /\ OpFiles /\ Fresh
  BY DEF CheckpointsInv
<1>. fileOp.kind = "review" /\ f \in fileOp.todo /\ fileOp \in FileOp
  BY DEF ReviewMoves, CheckpointTypes
<1>1. PICK t \in CpTasks : t = fileOp.who /\ ~Running(t) /\ Has(t, f) /\ phase[t] # "new"
  BY DEF OpKnown, OpFiles, Quiet
<1>2. PICK c \in Contents : c = fileOp.seen[f]
  BY DEF OpFiles
<1>3. t \in Owners /\ fileChanges[t][f] \in Change
  BY <1>1 DEF Owners, Has, CheckpointTypes
<1>4. PICK r \in BOOLEAN : r = fileChanges[t][f].restored
  BY <1>3 DEF Change
<1>5. fileChanges' = [fileChanges EXCEPT ![t][f] =
         [fileChanges[t][f] EXCEPT !.restored = r, !.after = c, !.observed = c]]
  <2>1. fileChanges' = [fileChanges EXCEPT ![t][f] =
           [fileChanges[t][f] EXCEPT !.after = c, !.observed = c]]
    BY <1>1, <1>2, <1>3 DEF ReviewMoves, Has, CheckpointTypes
  <2>2. [fileChanges[t][f] EXCEPT !.after = c, !.observed = c]
           = [fileChanges[t][f] EXCEPT !.restored = r, !.after = c, !.observed = c]
    BY <1>3, <1>4 DEF Change
  <2>. QED
    BY <2>1, <2>2
<1>6. /\ UNCHANGED <<onDisk, rewindOf, phase, cpCalls, breaks, atStart, touched, uncovered, replaced,
                     author>>
      /\ fileOp' = NoOp
  BY DEF ReviewMoves, TablesOnly
<1>7. author[f] \notin CpTasks \cup {"user"}
  BY DEF Fresh, Settled
<1>8. \A v \in CpTasks, g \in CpFiles : phase[v] = "new" => ~Has(v, g)'
  <2>1. \A v \in CpTasks, g \in CpFiles : ~Has(v, g) /\ v # t => ~Has(v, g)'
    BY <1>3, <1>5 DEF Has, CheckpointTypes, Owners
  <2>. QED
    BY <1>1, <2>1 DEF OpKnown
<1>9. (OpKnown /\ OpFiles /\ Fresh /\ UndoPutsAll)'
  BY <1>6, <1>8, NoOpFacts DEF OpKnown, OpFiles, Fresh, LookedAt, UndoPutsAll, Quiet, Running, Restores
<1>. QED
  BY <1>1, <1>5, <1>6, <1>7, <1>9, NoOpFacts, MovesKeep DEF CheckpointTypes

\* The row of a file that an undo has put back is the task's again.
LEMMA UndoMovesBackInv ==
  ASSUME CheckpointsInv, NEW f \in CpFiles, UndoMovesBack(f) PROVE CheckpointsInv'
<1>. /\ CheckpointTypes /\ OpKnown /\ OpFiles /\ UndoPutsAll /\ EditsKnown
  BY DEF CheckpointsInv
<1>. fileOp.kind = "undo" /\ fileOp.at = "back" /\ f \in fileOp.todo /\ fileOp \in FileOp
  BY DEF UndoMovesBack, CheckpointTypes
<1>1. PICK t \in CpTasks : t = fileOp.who /\ ~Running(t) /\ Has(t, f) /\ phase[t] # "new"
  BY DEF OpKnown, OpFiles, Quiet
<1>2. PICK c \in Contents : c = onDisk[f]
  BY DEF CheckpointTypes
<1>3. t \in Owners /\ fileChanges[t][f] \in Change
  BY <1>1 DEF Owners, Has, CheckpointTypes
<1>4. fileChanges' = [fileChanges EXCEPT ![t][f] =
         [fileChanges[t][f] EXCEPT !.restored = FALSE, !.after = c, !.observed = c]]
  BY <1>1, <1>2, <1>3 DEF UndoMovesBack, Has, CheckpointTypes
<1>5. UNCHANGED <<onDisk, rewindOf, phase, cpCalls, breaks, atStart, touched, uncovered, replaced>>
  BY DEF UndoMovesBack, TablesOnly
<1>6. /\ author' \in [CpFiles -> Authors]
      /\ \A g \in CpFiles : author'[g] = author[g] \/ (g = f /\ author'[g] = t)
  BY <1>1 DEF UndoMovesBack, CheckpointTypes, Authors
<1>7. /\ fileOp' \in FileOp /\ fileOp'.kind = "undo" /\ fileOp'.who = fileOp.who
      /\ fileOp'.id = fileOp.id /\ fileOp'.done = fileOp.done /\ fileOp'.todo = fileOp.todo \ {f}
      /\ fileOp'.at \in {"back", "forget"}
  BY DEF UndoMovesBack, FileOp
<1>8. author[f] # "user"
  BY DEF EditsKnown
<1>9. \A g \in CpFiles : author'[g] = "user" => g \notin fileOp'.todo \cup fileOp'.done
  BY <1>6, <1>7, AuthorFacts DEF EditsKnown
<1>10. \A v \in CpTasks, g \in CpFiles : Has(v, g)' <=> Has(v, g)
  <2>1. [fileChanges[t][f] EXCEPT !.restored = FALSE, !.after = c, !.observed = c] \in Change
    BY <1>3 DEF Change
  <2>2. [fileChanges[t][f] EXCEPT !.restored = FALSE, !.after = c, !.observed = c] # NoChange
    BY <2>1, CheckpointsAssumption
  <2>. QED
    BY <1>1, <1>3, <1>4, <2>2 DEF Has, CheckpointTypes, Owners
<1>11. OpKnown'
  <2>1. \A v \in CpTasks, g \in CpFiles : phase[v] = "new" => ~Has(v, g)'
    BY <1>10 DEF OpKnown
  <2>. QED
    BY <1>5, <1>7, <2>1 DEF OpKnown, Quiet, Running
<1>12. OpFiles'
  <2>1. \A g \in fileOp.todo : Has(t, g)'
    BY <1>1, <1>10 DEF OpFiles, FileOp
  <2>. QED
    BY <1>1, <1>7, <2>1 DEF OpFiles, Restores, Has
<1>13. (Fresh /\ UndoPutsAll)'
  BY <1>5, <1>7 DEF Fresh, LookedAt, UndoPutsAll, Restores
<1>. QED
  BY <1>1, <1>2, <1>4, <1>5, <1>6, <1>7, <1>8, <1>9, <1>11, <1>12, <1>13, MovesKeep

\* A rewind keeps in a row of its id what is there now.
LEMMA RewindKeepsInv ==
  ASSUME CheckpointsInv, NEW f \in CpFiles, RewindKeeps(f) PROVE CheckpointsInv'
<1>. /\ CheckpointTypes /\ OpKnown /\ OpFiles /\ TaskIsCovered /\ UnchangedYet
     /\ FirstIsKept /\ ReplacedKept /\ UndoRows /\ KeepsWhatItReplaces /\ EditsKnown
  BY DEF CheckpointsInv
<1>. fileOp.kind = "rewind" /\ fileOp.at = "keep" /\ f \in fileOp.todo /\ fileOp \in FileOp
  BY DEF RewindKeeps, CheckpointTypes
<1>. CpTasks \subseteq Owners /\ CpUndos \subseteq Owners
  BY DEF Owners
<1>1. PICK t \in CpTasks : /\ t = fileOp.who /\ f \in Unrestored(t) /\ Has(t, f)
                           /\ fileChanges[t][f] \in Change
  BY DEF OpKnown, OpFiles, Quiet, Unrestored, Has, CheckpointTypes
<1>2. PICK u \in CpUndos : u = fileOp.id /\ rewindOf[u] = NoCpTask /\ ~Has(u, f) /\ u \notin CpTasks
  BY CheckpointsAssumption DEF OpKnown, UndoRows
<1>3. UNCHANGED <<onDisk, cpCalls, author, touched, uncovered, replaced, rewindOf, phase, breaks, atStart>>
  BY DEF RewindKeeps, TablesOnly
<1>4. /\ fileOp' \in FileOp /\ fileOp'.kind = "rewind" /\ fileOp'.who = t /\ fileOp'.id = u
      /\ fileOp'.placed = fileOp.placed /\ fileOp'.todo = fileOp.todo \ {f}
      /\ \/ fileOp'.at = "check" /\ fileOp.todo = {f}
         \/ fileOp'.at = "keep"
  BY <1>1, <1>2 DEF RewindKeeps, FileOp
<1>5. /\ fileChanges' \in [Owners -> [CpFiles -> Change \cup {NoChange}]]
      /\ \A p \in Owners, g \in CpFiles : p # u \/ g # f => fileChanges'[p][g] = fileChanges[p][g]
      /\ \/ /\ onDisk[f] = fileChanges[t][f].before
            /\ fileChanges' = fileChanges
         \/ /\ onDisk[f] # fileChanges[t][f].before
            /\ fileChanges'[u][f] # NoChange /\ fileChanges'[u][f].before = onDisk[f]
            /\ ~fileChanges'[u][f].restored
  <2>1. CASE onDisk[f] = fileChanges[t][f].before
    BY <1>1, <2>1 DEF RewindKeeps, CheckpointTypes
  <2>2. CASE onDisk[f] # fileChanges[t][f].before
    <3>1. PICK b \in Contents : b = onDisk[f]
      BY DEF CheckpointTypes
    <3>2. PICK a \in Contents : a = fileChanges[t][f].before
      BY <1>1 DEF Change
    <3>3. Upsert(u, f, b, a, b)
      BY <1>1, <1>2, <2>2, <3>1, <3>2 DEF RewindKeeps
    <3>4. /\ fileChanges' \in [Owners -> [CpFiles -> Change \cup {NoChange}]]
          /\ \A p \in Owners, g \in CpFiles :
                p # u \/ g # f => fileChanges'[p][g] = fileChanges[p][g]
          /\ fileChanges'[u][f] # NoChange
          /\ fileChanges'[u][f].before = IF Has(u, f) THEN fileChanges[u][f].before ELSE b
          /\ fileChanges'[u][f].after = a /\ fileChanges'[u][f].observed = b
          /\ fileChanges'[u][f].restored = FALSE
      BY <3>3, UpsertFacts
    <3>. QED
      BY <1>2, <2>2, <3>1, <3>4
  <2>. QED
    BY <2>1, <2>2
<1>6. /\ \A v \in CpTasks, g \in CpFiles : fileChanges'[v][g] = fileChanges[v][g]
      /\ \A v \in CpTasks, g \in CpFiles : Has(v, g)' <=> Has(v, g)
      /\ \A w \in CpUndos, g \in CpFiles : w # u \/ g # f => (Has(w, g)' <=> Has(w, g))
      /\ \A w \in CpUndos, g \in CpFiles : Has(w, g) => fileChanges'[w][g] = fileChanges[w][g]
  <2>1. \A v \in CpTasks, g \in CpFiles : fileChanges'[v][g] = fileChanges[v][g]
    BY <1>2, <1>5
  <2>2. \A w \in CpUndos, g \in CpFiles : w # u \/ g # f => fileChanges'[w][g] = fileChanges[w][g]
    BY <1>5
  <2>. QED
    BY <1>2, <2>1, <2>2 DEF Has
<1>7. CheckpointTypes'
  BY <1>3, <1>4, <1>5 DEF CheckpointTypes
<1>8. OpKnown'
  <2>1. \A v \in CpTasks, g \in CpFiles : phase[v] = "new" => ~Has(v, g)'
    BY <1>6 DEF OpKnown
  <2>. QED
    BY <1>1, <1>2, <1>3, <1>4, <2>1 DEF OpKnown, Quiet, Running
<1>9. Unrestored(t)' = Unrestored(t)
  BY <1>1, <1>6 DEF Unrestored
<1>10. OpFiles'
  BY <1>1, <1>4, <1>9 DEF OpFiles, Restores
<1>11. Journalled' /\ Fresh' /\ UndoPutsAll'
  BY <1>4 DEF Journalled, Fresh, LookedAt, UndoPutsAll, Restores
<1>12. TaskIsCovered' /\ FirstIsKept'
  BY <1>2, <1>3, <1>5, RowKeeps
<1>13. UnchangedYet'
  BY <1>3, <1>4, <1>6 DEF UnchangedYet, Running
<1>14. ReplacedKept'
  <2>1. ASSUME NEW w \in CpUndos, NEW g \in CpFiles, replaced[w][g] # NoContent,
               rewindOf[w] # NoCpTask \/ w = u
        PROVE  /\ Has(w, g)' /\ fileChanges'[w][g].before = replaced[w][g]
               /\ ~fileChanges'[w][g].restored
    <3>1. Has(w, g) /\ fileChanges[w][g].before = replaced[w][g] /\ ~fileChanges[w][g].restored
      BY <1>2, <2>1 DEF ReplacedKept
    <3>. QED
      BY <1>2, <1>6, <3>1
  <2>. QED
    BY <1>3, <1>4, <2>1 DEF ReplacedKept
<1>15. UndoRows'
  <2>1. ASSUME NEW w \in CpUndos, NEW g \in CpFiles, rewindOf[w] # NoCpTask, Has(w, g)'
        PROVE  fileChanges'[rewindOf[w]][g] # NoChange
    <3>1. rewindOf[w] \in CpTasks /\ w # u
      BY <1>2, <2>1 DEF CheckpointTypes
    <3>2. Has(rewindOf[w], g)
      BY <1>6, <2>1, <3>1 DEF UndoRows
    <3>. QED
      BY <1>6, <3>1, <3>2 DEF Has
  <2>2. ASSUME NEW g \in CpFiles, Has(u, g)'
        PROVE  Has(t, g)' /\ ~fileChanges'[u][g].restored
    <3>1. CASE g = f
      BY <1>1, <1>2, <1>5, <1>6, <2>2, <3>1 DEF Has
    <3>2. CASE g # f
      <4>1. Has(t, g) /\ ~fileChanges[u][g].restored
        BY <1>1, <1>2, <1>6, <2>2, <3>2 DEF UndoRows
      <4>. QED
        BY <1>5, <1>6, <3>2, <4>1
    <3>. QED
      BY <3>1, <3>2
  <2>3. \A g \in fileOp.todo \ {f} : ~Has(u, g)'
    BY <1>2, <1>6 DEF UndoRows, FileOp
  <2>. QED
    BY <1>3, <1>4, <2>1, <2>2, <2>3 DEF UndoRows, Has
<1>16. KeepsWhatItReplaces'
  <2>1. ASSUME NEW g \in (Unrestored(t) \ fileOp.todo) \cup {f}
        PROVE  \/ onDisk[g] = fileChanges'[t][g].before
               \/ Has(u, g)' /\ fileChanges'[u][g].before = onDisk[g]
               \/ ~Knows(fileChanges'[t][g], onDisk[g])
    <3>1. CASE g = f
      BY <1>5, <1>6, <3>1 DEF Has
    <3>2. CASE g # f
      <4>1. g \in CpFiles
        BY DEF Unrestored
      <4>2. \/ onDisk[g] = fileChanges[t][g].before
            \/ Has(u, g) /\ fileChanges[u][g].before = onDisk[g]
            \/ ~Knows(fileChanges[t][g], onDisk[g])
        BY <1>1, <1>2, <2>1, <3>2 DEF KeepsWhatItReplaces
      <4>. QED
        BY <1>6, <3>2, <4>1, <4>2
    <3>. QED
      BY <3>1, <3>2
  <2>2. CASE fileOp'.at = "check" /\ fileOp.todo = {f}
    BY <1>3, <1>4, <1>9, <2>1, <2>2 DEF KeepsWhatItReplaces, Knows
  <2>3. CASE fileOp'.at = "keep"
    BY <1>3, <1>4, <1>9, <2>1, <2>3 DEF KeepsWhatItReplaces, Knows
  <2>. QED
    BY <1>4, <2>2, <2>3
<1>17. EditsKnown'
  <2>1. ASSUME NEW g \in CpFiles, author[g] = "user", Has(u, g)'
        PROVE  g \in Unrestored(t) /\ ~Knows(fileChanges[t][g], onDisk[g])
    <3>1. CASE g = f
      BY <1>1, <1>2, <1>5, <2>1, <3>1 DEF EditsKnown, Has
    <3>2. CASE g # f
      BY <1>1, <1>2, <1>6, <2>1, <3>2 DEF EditsKnown
    <3>. QED
      BY <3>1, <3>2
  <2>2. ASSUME NEW g \in CpFiles, author[g] = "user", NEW w \in CpUndos, rewindOf[w] # NoCpTask, Has(w, g)'
        PROVE  ~Knows(fileChanges'[w][g], onDisk[g])
    BY <1>2, <1>6, <2>2 DEF EditsKnown
  <2>3. ASSUME NEW g \in CpFiles, author[g] = "user", NEW v \in CpTasks, Has(v, g),
               Running(v) \/ Knows(fileChanges[v][g], onDisk[g])
        PROVE  fileChanges[v][g].before = onDisk[g]
    BY <2>3 DEF EditsKnown
  <2>. QED
    BY <1>1, <1>3, <1>4, <1>6, <1>9, <2>1, <2>2, <2>3 DEF EditsKnown, Running, Knows
<1>. QED
  BY <1>7, <1>8, <1>10, <1>11, <1>12, <1>13, <1>14, <1>15, <1>16, <1>17 DEF CheckpointsInv

\* A rewind that ends well can be undone, if it has replaced something.
LEMMA RewindClosesInv == ASSUME CheckpointsInv, RewindCloses PROVE CheckpointsInv'
<1>. /\ CheckpointTypes /\ OpKnown /\ TaskIsCovered /\ UnchangedYet /\ FirstIsKept
     /\ ReplacedKept /\ UndoRows /\ EditsKnown
  BY DEF CheckpointsInv
<1>. fileOp.kind = "rewind" /\ fileOp.at = "close"
  BY DEF RewindCloses
<1>. CpTasks \subseteq Owners /\ CpUndos \subseteq Owners
  BY DEF Owners
<1>1. PICK t \in CpTasks : t = fileOp.who /\ phase[t] # "new" /\ t # NoCpTask
  BY CheckpointsAssumption DEF OpKnown, Quiet
<1>2. PICK u \in CpUndos : u = fileOp.id /\ rewindOf[u] = NoCpTask /\ u \notin CpTasks
  BY CheckpointsAssumption DEF OpKnown
<1>3. /\ UNCHANGED <<onDisk, phase, cpCalls, breaks, author, atStart, touched, uncovered, replaced>>
      /\ fileOp' = NoOp /\ fileOp'.kind = "none" /\ fileOp' \in FileOp
  BY NoOpFacts DEF RewindCloses
<1>4. CASE rewindOf' = [rewindOf EXCEPT ![u] = t] /\ UNCHANGED fileChanges
  <2>1. /\ rewindOf' \in [CpUndos -> CpTasks \cup {NoCpTask}] /\ rewindOf'[u] = t
        /\ \A w \in CpUndos : w # u => rewindOf'[w] = rewindOf[w]
    BY <1>4 DEF CheckpointTypes
  <2>2. CheckpointTypes'
    BY <1>3, <1>4, <2>1 DEF CheckpointTypes
  <2>3. OpKnown'
    BY <1>3, <1>4 DEF OpKnown, Quiet, Running, Has
  <2>4. OpFiles' /\ Journalled' /\ Fresh' /\ KeepsWhatItReplaces' /\ UndoPutsAll'
    BY <1>3 DEF OpFiles, Journalled, Fresh, LookedAt, KeepsWhatItReplaces, UndoPutsAll, Restores
  <2>5. TaskIsCovered' /\ FirstIsKept'
    BY <1>3, <1>4 DEF TaskIsCovered, FirstIsKept, Has, Knows
  <2>6. UnchangedYet'
    BY <1>3, <1>4 DEF UnchangedYet, Has, Running
  <2>7. ReplacedKept'
    BY <1>2, <1>3, <1>4, <2>1 DEF ReplacedKept, Has
  <2>8. UndoRows'
    <3>1. \A w \in CpUndos : rewindOf'[w] # NoCpTask => phase[rewindOf'[w]] # "new"
      BY <1>1, <2>1 DEF UndoRows
    <3>2. \A w \in CpUndos, g \in CpFiles :
             rewindOf'[w] # NoCpTask /\ Has(w, g) => fileChanges[rewindOf'[w]][g] # NoChange
      BY <1>1, <1>2, <2>1 DEF UndoRows, Has
    <3>. QED
      BY <1>3, <1>4, <3>1, <3>2 DEF UndoRows, Has
  <2>9. EditsKnown'
    <3>1. \A g \in CpFiles : author[g] = "user" => ~Has(u, g)
      BY <1>2 DEF EditsKnown
    <3>2. \A g \in CpFiles : author[g] = "user" =>
             /\ \A v \in CpTasks : Has(v, g) /\ (Running(v) \/ Knows(fileChanges[v][g], onDisk[g])) =>
                   fileChanges[v][g].before = onDisk[g]
             /\ \A w \in CpUndos : rewindOf'[w] # NoCpTask /\ Has(w, g) =>
                   ~Knows(fileChanges[w][g], onDisk[g])
      BY <2>1, <3>1 DEF EditsKnown
    <3>. QED
      BY <1>3, <1>4, <3>2 DEF EditsKnown, Has, Knows, Running
  <2>. QED
    BY <2>2, <2>3, <2>4, <2>5, <2>6, <2>7, <2>8, <2>9 DEF CheckpointsInv
<1>5. CASE Forgets(u) /\ UNCHANGED rewindOf
  <2>1. /\ fileChanges' \in [Owners -> [CpFiles -> Change \cup {NoChange}]]
        /\ \A p \in Owners : p # u => fileChanges'[p] = fileChanges[p]
    BY <1>5 DEF Forgets, NoRows, CheckpointTypes
  <2>2. \A v \in CpTasks : fileChanges'[v] = fileChanges[v]
    BY <1>2, <2>1
  <2>3. \A w \in CpUndos : rewindOf[w] # NoCpTask => fileChanges'[w] = fileChanges[w]
    BY <1>2, <2>1
  <2>4. \A v \in CpTasks, g \in CpFiles :
           Running(v) /\ ~Has(v, g) /\ g \notin touched[v] \cup uncovered[v] => onDisk[g] = atStart[v][g]
    BY DEF UnchangedYet
  <2>. QED
    BY <1>3, <1>5, <2>1, <2>2, <2>3, <2>4, EndKeeps DEF CheckpointTypes, Running
<1>. QED
  BY <1>1, <1>2, <1>4, <1>5 DEF RewindCloses

\* An undo forgets rows that it has put back.
LEMMA UndoForgetsInv == ASSUME CheckpointsInv, UndoForgets PROVE CheckpointsInv'
<1>. /\ CheckpointTypes /\ OpKnown /\ TaskIsCovered /\ UnchangedYet /\ FirstIsKept
     /\ ReplacedKept /\ UndoRows /\ UndoPutsAll /\ EditsKnown
  BY DEF CheckpointsInv
<1>. fileOp.kind = "undo" /\ fileOp.at = "forget" /\ fileOp \in FileOp
  BY DEF UndoForgets, CheckpointTypes
<1>. CpTasks \subseteq Owners /\ CpUndos \subseteq Owners
  BY DEF Owners
<1>1. PICK u \in CpUndos : u = fileOp.id /\ u \notin CpTasks
  BY CheckpointsAssumption DEF OpKnown
<1>2. /\ UNCHANGED <<onDisk, cpCalls, author, touched, uncovered, replaced, rewindOf, phase, breaks,
                     atStart>>
      /\ fileChanges' = [fileChanges EXCEPT ![u] = NoRows]
  BY <1>1 DEF UndoForgets, Forgets, TablesOnly
<1>3. /\ fileOp' \in FileOp /\ fileOp'.kind = "undo" /\ fileOp'.who = fileOp.who
      /\ fileOp'.id = u /\ fileOp'.at = "drop" /\ fileOp'.todo = fileOp.todo /\ fileOp'.done = fileOp.done
  BY <1>1 DEF UndoForgets, FileOp
<1>4. /\ fileChanges' \in [Owners -> [CpFiles -> Change \cup {NoChange}]]
      /\ \A p \in Owners : p # u => fileChanges'[p] = fileChanges[p]
      /\ \A g \in CpFiles : fileChanges'[u][g] = NoChange
  BY <1>2 DEF NoRows, CheckpointTypes
<1>5. /\ \A v \in CpTasks : fileChanges'[v] = fileChanges[v]
      /\ \A v \in CpTasks, g \in CpFiles : Has(v, g)' <=> Has(v, g)
      /\ \A w \in CpUndos, g \in CpFiles : Has(w, g)' <=> w # u /\ Has(w, g)
  <2>1. \A v \in CpTasks : fileChanges'[v] = fileChanges[v]
    BY <1>1, <1>4
  <2>2. \A w \in CpUndos : w # u => fileChanges'[w] = fileChanges[w]
    BY <1>4
  <2>. QED
    BY <1>4, <2>1, <2>2 DEF Has
<1>6. CheckpointTypes'
  BY <1>2, <1>3, <1>4 DEF CheckpointTypes
<1>7. OpKnown'
  <2>1. \A v \in CpTasks, g \in CpFiles : phase[v] = "new" => ~Has(v, g)'
    BY <1>5 DEF OpKnown
  <2>. QED
    BY <1>1, <1>2, <1>3, <2>1 DEF OpKnown, Quiet, Running
<1>8. OpFiles' /\ Journalled' /\ Fresh' /\ KeepsWhatItReplaces'
  BY <1>3 DEF OpFiles, Journalled, Fresh, LookedAt, KeepsWhatItReplaces, Restores
<1>9. TaskIsCovered' /\ FirstIsKept'
  BY <1>2, <1>5 DEF TaskIsCovered, FirstIsKept, Knows
<1>10. UnchangedYet'
  BY <1>2, <1>3, <1>5 DEF UnchangedYet, Running
<1>11. ReplacedKept'
  <2>1. ASSUME NEW w \in CpUndos, NEW g \in CpFiles, rewindOf[w] # NoCpTask, replaced[w][g] # NoContent
        PROVE  /\ Has(w, g)' /\ fileChanges'[w][g].before = replaced[w][g]
               /\ ~fileChanges'[w][g].restored
    <3>1. w # u
      BY <1>1, <2>1 DEF UndoPutsAll
    <3>. QED
      BY <1>4, <1>5, <2>1, <3>1 DEF ReplacedKept
  <2>. QED
    BY <1>2, <1>3, <2>1 DEF ReplacedKept
<1>12. UndoRows'
  <2>1. ASSUME NEW w \in CpUndos, NEW g \in CpFiles, rewindOf[w] # NoCpTask, Has(w, g)'
        PROVE  fileChanges'[rewindOf[w]][g] # NoChange
    <3>1. rewindOf[w] \in CpTasks
      BY <2>1 DEF CheckpointTypes
    <3>2. Has(rewindOf[w], g)
      BY <1>5, <2>1 DEF UndoRows
    <3>. QED
      BY <1>5, <3>1, <3>2 DEF Has
  <2>. QED
    BY <1>2, <1>3, <2>1 DEF UndoRows, Has
<1>13. UndoPutsAll'
  BY <1>1, <1>2, <1>3 DEF UndoPutsAll
<1>14. EditsKnown'
  <2>1. ASSUME NEW g \in CpFiles, author[g] = "user"
        PROVE  /\ \A v \in CpTasks : Has(v, g) /\ (Running(v) \/ Knows(fileChanges[v][g], onDisk[g])) =>
                     fileChanges[v][g].before = onDisk[g]
               /\ \A w \in CpUndos : rewindOf[w] # NoCpTask /\ Has(w, g)' =>
                     ~Knows(fileChanges'[w][g], onDisk[g])
               /\ g \notin fileOp.todo \cup fileOp.done
    BY <1>4, <1>5, <2>1 DEF EditsKnown
  <2>. QED
    BY <1>2, <1>3, <1>5, <2>1 DEF EditsKnown, Running, Knows
<1>. QED
  BY <1>6, <1>7, <1>8, <1>9, <1>10, <1>11, <1>12, <1>13, <1>14 DEF CheckpointsInv

-----------------------------------------------------------------------------
(* The theorems                                                            *)

\* Before the first task nothing is journalled and nobody has written anything.
LEMMA CheckpointsStart == CheckpointsInit => CheckpointsInv
<1>. SUFFICES ASSUME CheckpointsInit PROVE CheckpointsInv
  OBVIOUS
<1>1. /\ \A o \in Owners, f \in CpFiles : ~Has(o, f)
      /\ \A t \in CpTasks : phase[t] = "new" /\ ~Running(t)
      /\ \A u \in CpUndos : rewindOf[u] = NoCpTask
      /\ \A f \in CpFiles : author[f] = "nobody"
      /\ fileOp.kind = "none" /\ fileOp \in FileOp
  BY NoOpFacts DEF CheckpointsInit, NoRows, Has, Running
<1>2. CpTasks \subseteq Owners /\ CpUndos \subseteq Owners
  BY DEF Owners
<1>3. CheckpointTypes
  BY <1>1, CheckpointsAssumption
  DEF CheckpointsInit, CheckpointTypes, NoRows, NoContents, Contents, Authors
<1>4. OpKnown /\ OpFiles /\ Journalled /\ Fresh /\ KeepsWhatItReplaces /\ UndoPutsAll
  BY <1>1, <1>2
  DEF OpKnown, OpFiles, Journalled, Fresh, LookedAt, KeepsWhatItReplaces, UndoPutsAll, Quiet, Restores
<1>5. TaskIsCovered /\ FirstIsKept /\ UnchangedYet /\ UndoRows
  BY <1>1, <1>2, AuthorFacts DEF TaskIsCovered, FirstIsKept, UnchangedYet, UndoRows
<1>6. ReplacedKept /\ EditsKnown
  BY <1>1 DEF ReplacedKept, EditsKnown
<1>. QED
  BY <1>3, <1>4, <1>5, <1>6 DEF CheckpointsInv

\* Every step keeps the invariant.
LEMMA CheckpointsStep == CheckpointsInv /\ [CheckpointsNext]_cpVars => CheckpointsInv'
<1>. SUFFICES ASSUME CheckpointsInv, [CheckpointsNext]_cpVars PROVE CheckpointsInv'
  OBVIOUS
<1>1. CASE UNCHANGED cpVars
  <2>1. /\ UNCHANGED <<onDisk, fileChanges, rewindOf, phase, fileOp, cpCalls, breaks, author, atStart>>
        /\ UNCHANGED <<touched, uncovered, replaced>>
    BY <1>1 DEF cpVars
  <2>2. CheckpointTypes' /\ OpKnown'
    BY <2>1 DEF CheckpointsInv, CheckpointTypes, OpKnown, Running, Quiet, Has
  <2>3. OpFiles' /\ Journalled' /\ Fresh'
    <3>1. OpFiles'
      <4>1. Planned' = Planned /\ Owner' = Owner
        BY <2>1 DEF Planned, Owner
      <4>2. (\A p : Unrestored(p)' = Unrestored(p)) /\ \A p, g : Has(p, g)' <=> Has(p, g)
        BY <2>1 DEF Unrestored, Has
      <4>3. \A g : RowOf(g)' = RowOf(g)
        BY <2>1, <4>1 DEF RowOf
      <4>4. OpFiles
        BY DEF CheckpointsInv
      <4>. QED
        BY <2>1, <4>1, <4>2, <4>3, <4>4 DEF OpFiles, Knows
    <3>2. Journalled'
      BY <2>1 DEF CheckpointsInv, Journalled, Planned, Has
    <3>3. Fresh'
      BY <2>1 DEF CheckpointsInv, Fresh, RowOf, Owner, LookedAt, Settled
    <3>. QED
      BY <3>1, <3>2, <3>3
  <2>4. TaskIsCovered' /\ FirstIsKept' /\ UnchangedYet'
    BY <2>1 DEF CheckpointsInv, TaskIsCovered, FirstIsKept, UnchangedYet, Has, Knows, Running, Planned
  <2>5. ReplacedKept' /\ UndoRows' /\ KeepsWhatItReplaces' /\ UndoPutsAll'
    BY <2>1
    DEF CheckpointsInv, ReplacedKept, UndoRows, KeepsWhatItReplaces, UndoPutsAll, Has, Knows, Unrestored
  <2>6. EditsKnown'
    BY <2>1 DEF CheckpointsInv, EditsKnown, Has, Knows, Running, Unrestored
  <2>. QED
    BY <2>2, <2>3, <2>4, <2>5, <2>6 DEF CheckpointsInv
<1>2. ASSUME NEW t \in CpTasks,
             \/ CpTaskStarts(t) \/ CpTaskEnds(t) \/ CommitBegins(t) \/ CommandBegins(t)
             \/ JobRewindBegins(t)
             \/ \E u \in CpUndos : RewindBegins(t, u)
             \/ \E f \in CpFiles : ReviewWrites(t, f)
      PROVE  CheckpointsInv'
  BY <1>2, CpTaskStartsInv, EndSteps, CommitBeginsInv, CommandBeginsInv, RestoreBeginsInv,
     RewindBeginsInv, ReviewWritesInv
<1>3. ASSUME NEW f \in CpFiles,
             \/ CommitJournals(f) \/ CommitWrites(f) \/ CommandWrites(f) \/ CommandRecords(f)
             \/ RestorePuts(f) \/ RestoreMarks(f) \/ RewindKeeps(f) \/ UndoMovesBack(f)
             \/ ReviewMoves(f) \/ UserEdits(f)
      PROVE  CheckpointsInv'
  BY <1>3, CommitJournalsInv, CommitWritesInv, CommandWritesInv, CommandRecordsInv, RestorePutsInv,
     RestoreMarksInv, RewindKeepsInv, UndoMovesBackInv, ReviewMovesInv, UserEditsInv
<1>4. ASSUME NEW u \in CpUndos, UndoBegins(u) PROVE CheckpointsInv'
  BY <1>4, RestoreBeginsInv
<1>5. ASSUME \/ CommitStops \/ CommandEnds \/ CommandUncovered \/ RestoreChecks \/ RestoreFails
             \/ RewindCloses \/ RewindGivesUp \/ JobRewindReturns
             \/ UndoRestored \/ UndoForgets \/ UndoEnds \/ OperationBreaks \/ CpCrash
      PROVE  CheckpointsInv'
  BY <1>5, EndSteps, CommandEndsInv, RestoreChecksInv, RestoreMovesInv, RewindClosesInv, UndoForgetsInv
<1>. QED
  BY <1>1, <1>2, <1>3, <1>4, <1>5 DEF CheckpointsNext

\* Whatever stops, is refused or is typed in between: the journal says what the invariant
\* says, for every set of files, tasks and undo ids (checkpoint.rs, review.rs).
THEOREM CheckpointsInvariant == CheckpointsSpec => []CheckpointsInv
BY CheckpointsStart, CheckpointsStep, PTL DEF CheckpointsSpec

\* The journal of the changes agrees with the files: a rewind takes back what the task
\* wrote, puts back what was there when it started, and can itself be undone.
THEOREM JournalAgrees == CheckpointsSpec => []CheckpointsAgree
<1>1. ASSUME CheckpointsInv PROVE UndoKeepsAll
  BY <1>1 DEF CheckpointsInv, ReplacedKept, UndoKeepsAll
<1>2. CheckpointsInv => CheckpointsAgree
  BY <1>1 DEF CheckpointsInv, CheckpointsAgree
<1>. QED
  BY <1>2, CheckpointsInvariant, PTL

\* What a restore puts over the user's text is that text.
LEMMA RestoreSparesEdits ==
  ASSUME CheckpointsInv, NEW f \in CpFiles, RestorePuts(f), author[f] = "user"
  PROVE  UNCHANGED <<onDisk, author>>
<1>. CheckpointTypes /\ OpKnown /\ OpFiles /\ Fresh /\ EditsKnown
  BY DEF CheckpointsInv
<1>. fileOp.kind \in Restores /\ fileOp.at = "put" /\ fileOp.placed = {} /\ f \in fileOp.todo
  BY DEF RestorePuts
<1>1. onDisk[f] = fileOp.seen[f]
  BY DEF Fresh, LookedAt, Settled, Restores
<1>2. Has(Owner, f) /\ Knows(RowOf(f), onDisk[f])
  BY <1>1 DEF OpFiles
<1>3. Owner \in CpTasks
  BY OwnerFacts DEF EditsKnown
<1>4. RowOf(f).before = onDisk[f]
  BY <1>2, <1>3 DEF EditsKnown, RowOf
<1>. QED
  BY <1>1, <1>4 DEF RestorePuts

\* No rewind, undo of one or rewind of a paused task replaces what the user wrote while
\* nothing worked in the project, unless a change of the same file was undone in the
\* review since (review.rs, checkpoint.rs restore).
THEOREM EditsStay == CheckpointsSpec => EditsSurvive
<1>1. ASSUME CheckpointsInv, CheckpointsNext, NEW f \in CpFiles, author[f] = "user",
             fileOp.kind \in Restores
      PROVE  onDisk'[f] = onDisk[f] \/ author'[f] = "typing"
  <2>. CheckpointTypes
    BY <1>1 DEF CheckpointsInv
  <2>1. ASSUME NEW t \in CpTasks,
               \/ CpTaskStarts(t) \/ CpTaskEnds(t) \/ CommitBegins(t) \/ CommandBegins(t)
               \/ JobRewindBegins(t)
               \/ \E u \in CpUndos : RewindBegins(t, u)
               \/ \E g \in CpFiles : ReviewWrites(t, g)
        PROVE  UNCHANGED onDisk
    BY <1>1, <2>1
    DEF CpTaskStarts, CpTaskEnds, CommitBegins, CommandBegins, JobRewindBegins, RewindBegins,
        ReviewWrites, Begins, Resting, Quiet, Restores
  <2>2. ASSUME NEW g \in CpFiles, CommitWrites(g) \/ CommandWrites(g) PROVE FALSE
    BY <1>1, <2>2 DEF CommitWrites, CommandWrites, Restores
  <2>3. ASSUME NEW g \in CpFiles,
               \/ CommitJournals(g) \/ CommandRecords(g) \/ RestoreMarks(g) \/ RewindKeeps(g)
               \/ UndoMovesBack(g) \/ ReviewMoves(g)
        PROVE  UNCHANGED onDisk
    BY <2>3 DEF CommitJournals, CommandRecords, RestoreMarks, RewindKeeps, UndoMovesBack, ReviewMoves
  <2>4. ASSUME NEW g \in CpFiles, RestorePuts(g) PROVE onDisk'[f] = onDisk[f]
    <3>1. CASE g = f
      BY <1>1, <2>4, <3>1, RestoreSparesEdits
    <3>2. CASE g # f
      BY <2>4, <3>2 DEF RestorePuts, CheckpointTypes
    <3>. QED
      BY <3>1, <3>2
  <2>5. ASSUME NEW g \in CpFiles, UserEdits(g)
        PROVE  onDisk'[f] = onDisk[f] \/ author'[f] = "typing"
    <3>1. ~Resting
      BY <1>1 DEF Resting, Quiet, Restores
    <3>2. PICK e : onDisk' = [onDisk EXCEPT ![g] = e]
      BY <2>5 DEF UserEdits
    <3>. QED
      BY <2>5, <3>1, <3>2 DEF UserEdits, CheckpointTypes
  <2>6. ASSUME NEW u \in CpUndos, UndoBegins(u) PROVE UNCHANGED onDisk
    BY <2>6 DEF UndoBegins, Begins
  <2>7. ASSUME \/ CommitStops \/ CommandEnds \/ CommandUncovered \/ RestoreChecks \/ RestoreFails
               \/ RewindCloses \/ RewindGivesUp \/ JobRewindReturns
               \/ UndoRestored \/ UndoForgets \/ UndoEnds \/ OperationBreaks \/ CpCrash
        PROVE  UNCHANGED onDisk
    BY <2>7
    DEF CommitStops, CommandEnds, CommandUncovered, RestoreChecks, RestoreFails, RewindCloses,
        RewindGivesUp, JobRewindReturns, UndoRestored, UndoForgets, UndoEnds, OperationBreaks, CpCrash
  <2>. QED
    BY <1>1, <2>1, <2>2, <2>3, <2>4, <2>5, <2>6, <2>7 DEF CheckpointsNext
<1>2. CheckpointsInv /\ [CheckpointsNext]_cpVars =>
         [\A f \in CpFiles : author[f] = "user" /\ fileOp.kind \in Restores =>
             onDisk'[f] = onDisk[f] \/ author'[f] = "typing"]_cpVars
  BY <1>1
<1>. QED
  BY <1>2, CheckpointsInvariant, PTL DEF CheckpointsSpec, EditsSurvive
=============================================================================
