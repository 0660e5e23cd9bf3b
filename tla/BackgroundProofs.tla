--------------------------- MODULE BackgroundProofs ---------------------------
(***************************************************************************)
(* The processes the program starts.  For any number of processes,         *)
(* workspaces and stops of the program: what the registry of background    *)
(* processes promises, and that the end of a process is never rewritten.   *)
(* Both follow from ProcInv, which ties where the worker of a process is   *)
(* to its status in memory and in the database.  For any number of slots,  *)
(* language servers, tools and cancellations: what their pool promises,    *)
(* from LspInv, which says who holds which slot.                           *)
(***************************************************************************)
EXTENDS Background, LanguageServers, FiniteSetTheorems, TLAPS

-----------------------------------------------------------------------------
(* The inductive invariant                                                 *)

\* The worker knows how its process ended before it stores it, and not earlier.
WorkerKnows ==
    \A p \in Procs :
        /\ proc[p].at = "none" => /\ procRow[p] = "none" /\ proc[p].status = "STARTING"
                                   /\ p \notin procListed /\ stopping[p] = "none"
        /\ proc[p].at # "none" => procRow[p] # "none"
        /\ proc[p].at = "running" => proc[p].status \in Stoppable
        /\ proc[p].at = "storing" => proc[p].status \in ProcEnded
        /\ proc[p].at \in {"running", "storing"} => procRow[p] \notin ProcEnded

\* What BackgroundAgrees says of the processes in a workspace.
PlacesKept ==
    /\ \A w \in reservedPlaces : AliveAt(w) = {}
    /\ \A p, q \in Alive : p # q => <<proc[p].place, proc[p].name>> # <<proc[q].place, proc[q].name>>

\* The shutdown is over only when no process is left, and none comes after it.
DownIsDown == procsDown => procsClosing /\ Alive = {}

LimitsKept ==
    /\ IsFiniteSet(Alive)
    /\ Cardinality(Alive) <= MaxProcs
    /\ \A w \in ProcPlaces : Cardinality(AliveAt(w)) <= MaxPerPlace

\* A process that is over is stored so, unless the write failed.
EndsStored ==
    \A p \in Procs : proc[p].at \in {"closing", "finished"} /\ p \notin unwritten =>
        procRow[p] \in ProcEnded \cup {"INTERRUPTED"}

ProcInv == BackgroundTypes /\ WorkerKnows /\ PlacesKept /\ DownIsDown /\ LimitsKept /\ EndsStored

\* What no step but a start changes for the worse: who lives, and where.
NoNewAlive ==
    /\ Alive' \subseteq Alive
    /\ \A p \in Alive' : proc'[p].place = proc[p].place /\ proc'[p].name = proc[p].name

-----------------------------------------------------------------------------
(* The limits                                                              *)

\* Subsets of what lives keep to the limits.
LEMMA FewerLive ==
  ASSUME BackgroundTypes, BackgroundTypes', LimitsKept, NoNewAlive
  PROVE  LimitsKept'
<1>1. IsFiniteSet(Alive') /\ Cardinality(Alive') <= Cardinality(Alive)
  BY FS_Subset DEF LimitsKept, NoNewAlive
<1>2. Cardinality(Alive) \in Nat /\ Cardinality(Alive') \in Nat
  BY <1>1, FS_CardinalityType DEF LimitsKept
<1>3. ASSUME NEW w \in ProcPlaces PROVE Cardinality(AliveAt(w)') <= MaxPerPlace
  <2>1. AliveAt(w)' \subseteq AliveAt(w)
    BY DEF AliveAt, NoNewAlive
  <2>2. IsFiniteSet(AliveAt(w))
    BY FS_Subset DEF AliveAt, LimitsKept
  <2>3. IsFiniteSet(AliveAt(w)') /\ Cardinality(AliveAt(w)') <= Cardinality(AliveAt(w))
    BY <2>1, <2>2, FS_Subset
  <2>4. Cardinality(AliveAt(w)) \in Nat /\ Cardinality(AliveAt(w)') \in Nat
    BY <2>2, <2>3, FS_CardinalityType
  <2>. QED
    BY <2>3, <2>4, BackgroundAssumption DEF LimitsKept
<1>. QED
  BY <1>1, <1>2, <1>3, BackgroundAssumption DEF LimitsKept

\* What holds of all who live holds of fewer.
LEMMA FewerClash ==
  ASSUME BackgroundTypes, PlacesKept, NoNewAlive, reservedPlaces' \subseteq reservedPlaces
  PROVE  PlacesKept'
BY DEF PlacesKept, NoNewAlive, AliveAt

\* Steps that list nobody and bring nobody back.
LEMMA NobodyNew ==
  ASSUME procListed \subseteq Procs, procListed' = procListed,
         \A q \in Procs :
            /\ proc'[q].place = proc[q].place /\ proc'[q].name = proc[q].name
            /\ proc[q].at = "finished" => proc'[q].at = "finished"
  PROVE  NoNewAlive
BY DEF NoNewAlive, Alive

-----------------------------------------------------------------------------
(* The steps                                                               *)

LEMMA ProcInitInv == BackgroundInit => ProcInv
<1>. SUFFICES ASSUME BackgroundInit PROVE ProcInv
  OBVIOUS
<1>. USE DEF BackgroundInit
<1>1. BackgroundTypes
  <2>1. PICK w \in ProcPlaces, n \in ProcNames : TRUE
    BY BackgroundAssumption
  <2>2. (CHOOSE v \in ProcPlaces : TRUE) \in ProcPlaces
    BY <2>1
  <2>3. (CHOOSE m \in ProcNames : TRUE) \in ProcNames
    BY <2>1
  <2>4. NoProc \in ProcRecord
    BY <2>2, <2>3 DEF NoProc, ProcRecord, Stoppable, ProcEnded
  <2>. QED
    BY <2>4, BackgroundAssumption, 0 \in 0 .. MaxProcCrashes DEF BackgroundTypes
<1>2. Alive = {} /\ \A w : AliveAt(w) = {}
  BY DEF Alive, AliveAt
<1>3. LimitsKept
  BY <1>2, FS_EmptySet, BackgroundAssumption DEF LimitsKept
<1>4. WorkerKnows /\ EndsStored
  BY DEF WorkerKnows, EndsStored, NoProc, Stoppable, ProcEnded
<1>. QED
  BY <1>1, <1>2, <1>3, <1>4 DEF ProcInv, PlacesKept, DownIsDown

\* A start looks at the limits, the names and the reservations under the lock.
LEMMA StartKeeps ==
  ASSUME ProcInv, NEW p \in Procs, NEW w \in ProcPlaces, NEW n \in ProcNames, ProcStarts(p, w, n)
  PROVE  ProcInv'
<1>. USE DEF ProcStarts, ProcInv
<1>1. BackgroundTypes'
  BY BackgroundAssumption DEF BackgroundTypes, ProcRecord, NoProc, Stoppable, ProcEnded, Alive
<1>2. WorkerKnows' /\ EndsStored'
  BY DEF BackgroundTypes, ProcRecord, WorkerKnows, EndsStored, NoProc, Stoppable, ProcEnded, Alive
<1>3. Alive' = Alive \cup {p} /\ p \notin Alive
  BY DEF BackgroundTypes, ProcRecord, WorkerKnows, Alive, NoProc
<1>4. \A q \in Alive : proc'[q] = proc[q]
  BY <1>3 DEF BackgroundTypes, Alive
<1>5. proc'[p].place = w /\ proc'[p].name = n
  BY DEF BackgroundTypes, NoProc
<1>6. PlacesKept'
  BY <1>3, <1>4, <1>5 DEF PlacesKept, AliveAt, PlaceOpen
<1>7. DownIsDown'
  BY DEF DownIsDown, PlaceOpen
<1>8. IsFiniteSet(Alive') /\ Cardinality(Alive') = Cardinality(Alive) + 1
  BY <1>3, FS_AddElement DEF LimitsKept
<1>9. ASSUME NEW v \in ProcPlaces PROVE Cardinality(AliveAt(v)') <= MaxPerPlace
  <2>1. IsFiniteSet(AliveAt(v))
    BY FS_Subset DEF AliveAt, LimitsKept
  <2>2. Cardinality(AliveAt(v)) \in Nat
    BY <2>1, FS_CardinalityType
  <2>3. CASE v = w
    <3>1. AliveAt(v)' = AliveAt(v) \cup {p} /\ p \notin AliveAt(v)
      BY <1>3, <1>4, <1>5, <2>3 DEF AliveAt
    <3>2. Cardinality(AliveAt(v)') = Cardinality(AliveAt(v)) + 1
      BY <2>1, <3>1, FS_AddElement
    <3>. QED
      BY <2>2, <2>3, <3>2, BackgroundAssumption
  <2>4. CASE v # w
    <3>1. AliveAt(v)' = AliveAt(v)
      BY <1>3, <1>4, <1>5, <2>4 DEF AliveAt
    <3>. QED
      BY <3>1 DEF LimitsKept
  <2>. QED
    BY <2>3, <2>4
<1>10. LimitsKept'
  <2>1. Cardinality(Alive) \in Nat
    BY FS_CardinalityType DEF LimitsKept
  <2>. QED
    BY <1>8, <1>9, <2>1, BackgroundAssumption DEF LimitsKept
<1>. QED
  BY <1>1, <1>2, <1>6, <1>7, <1>10

\* Steps of a worker move it forward, and it ends in the registry as in the row.
LEMMA WorkerKeeps ==
  ASSUME ProcInv, NEW p \in Procs,
         \/ ProcHasPid(p) \/ ProcReports(p) \/ ProcExits(p) \/ ProcBreaks(p) \/ WorkerNext(p)
  PROVE  ProcInv'
<1>. USE DEF ProcInv, ProcOnly
<1>1. BackgroundTypes'
  <2>. USE DEF BackgroundTypes, ProcRecord, Stoppable, ProcEnded
  <2>1. CASE ProcHasPid(p)
    BY <2>1 DEF ProcHasPid
  <2>2. CASE ProcReports(p)
    BY <2>2 DEF ProcReports, Shown
  <2>3. CASE ProcExits(p)
    BY <2>3 DEF ProcExits
  <2>4. CASE ProcBreaks(p)
    BY <2>4 DEF ProcBreaks, Fails
  <2>5. CASE WorkerNext(p)
    <3>1. CASE ProcEndStored(p)
      BY <3>1 DEF ProcEndStored
    <3>2. CASE ProcFinishes(p)
      BY <3>2 DEF ProcFinishes
    <3>. QED
      BY <2>5, <3>1, <3>2 DEF WorkerNext
  <2>. QED
    BY <2>1, <2>2, <2>3, <2>4, <2>5
<1>6. WorkerKnows' /\ EndsStored'
  <2>. USE DEF BackgroundTypes, ProcRecord, WorkerKnows, EndsStored, Stoppable, ProcEnded
  <2>1. CASE ProcHasPid(p)
    BY <2>1 DEF ProcHasPid
  <2>2. CASE ProcReports(p)
    BY <2>2 DEF ProcReports, Shown
  <2>3. CASE ProcExits(p)
    BY <2>3 DEF ProcExits
  <2>4. CASE ProcBreaks(p)
    BY <2>4 DEF ProcBreaks, Fails
  <2>5. CASE WorkerNext(p)
    <3>1. CASE ProcEndStored(p)
      BY <3>1 DEF ProcEndStored
    <3>2. CASE ProcFinishes(p)
      BY <3>2 DEF ProcFinishes
    <3>. QED
      BY <2>5, <3>1, <3>2 DEF WorkerNext
  <2>. QED
    BY <2>1, <2>2, <2>3, <2>4, <2>5
<1>2. UNCHANGED <<procListed, reservedPlaces, procsClosing, procsDown>>
  BY DEF ProcHasPid, ProcReports, ProcExits, ProcBreaks, Fails, WorkerNext, ProcEndStored,
         ProcFinishes
<1>3. \A q \in Procs :
         /\ proc'[q].place = proc[q].place /\ proc'[q].name = proc[q].name
         /\ proc[q].at = "finished" => proc'[q].at = "finished"
  <2>. USE DEF BackgroundTypes, ProcRecord
  <2>1. CASE ProcHasPid(p) \/ ProcReports(p)
    BY <2>1 DEF ProcHasPid, ProcReports
  <2>4. CASE ProcExits(p)
    <3>1. PICK s \in ProcEnded : proc' = [proc EXCEPT ![p].status = s, ![p].at = "storing"]
      BY <2>4 DEF ProcExits
    <3>2. proc[p].at = "running"
      BY <2>4 DEF ProcExits
    <3>. QED
      BY <3>1, <3>2
  <2>2. CASE ProcBreaks(p)
    BY <2>2 DEF ProcBreaks, Fails
  <2>3. CASE WorkerNext(p)
    BY <2>3 DEF WorkerNext, ProcEndStored, ProcFinishes
  <2>. QED
    BY <2>1, <2>2, <2>3, <2>4
<1>4. NoNewAlive
  BY <1>2, <1>3, NobodyNew DEF BackgroundTypes
<1>5. DownIsDown'
  BY <1>2, <1>4 DEF DownIsDown, NoNewAlive
<1>. QED
  BY <1>1, <1>2, <1>4, <1>5, <1>6, FewerLive, FewerClash

\* Steps that start and end nothing: a status only changes as long as nothing
\* has ended.
LEMMA QuietSteps ==
  ASSUME ProcInv, BackgroundTypes', UNCHANGED <<procRow, procListed, unwritten>>,
         \A q \in Procs :
            /\ proc'[q].at = proc[q].at
            /\ proc'[q].place = proc[q].place /\ proc'[q].name = proc[q].name
            /\ proc'[q].status = proc[q].status \/ {proc[q].status, proc'[q].status} \subseteq Stoppable
            /\ proc[q].at = "none" => proc'[q].status = proc[q].status /\ stopping'[q] = "none"
  PROVE  WorkerKnows' /\ LimitsKept' /\ EndsStored' /\ NoNewAlive
<1>1. procListed \subseteq Procs
  BY DEF ProcInv, BackgroundTypes
<1>2. NoNewAlive
  BY <1>1, NobodyNew
<1>3. LimitsKept'
  BY <1>2, FewerLive DEF ProcInv
<1>4. WorkerKnows'
  BY DEF ProcInv, WorkerKnows, Stoppable, ProcEnded
<1>5. EndsStored'
  BY DEF ProcInv, EndsStored
<1>. QED
  BY <1>2, <1>3, <1>4, <1>5

\* A stop marks what has not ended, and a reservation is of an idle workspace.
LEMMA CallersKeep ==
  ASSUME ProcInv,
         \/ \E p \in Procs : StopsProc(p) \/ StopNext(p)
         \/ \E w \in ProcPlaces : PlaceReserved(w) \/ PlaceReleased(w)
         \/ ProcsClose \/ ProcsAreDown \/ ProcsCrash
  PROVE  ProcInv'
<1>. USE DEF ProcInv
<1>1. ASSUME NEW p \in Procs, StopsProc(p) \/ StopReturns(p) PROVE ProcInv'
  <2>. USE <1>1 DEF StopsProc, StopReturns, RegistryOnly
  <2>1. BackgroundTypes' /\ UNCHANGED <<proc, procRow, procListed, unwritten, reservedPlaces>>
    BY DEF BackgroundTypes
  <2>2. \A q \in Procs : proc[q].at = "none" => stopping'[q] = "none"
    BY DEF WorkerKnows, Alive, BackgroundTypes
  <2>3. NoNewAlive /\ WorkerKnows' /\ LimitsKept' /\ EndsStored'
    BY <2>1, <2>2, QuietSteps
  <2>. QED
    BY <2>1, <2>3, FewerClash DEF DownIsDown, NoNewAlive
<1>2. ASSUME NEW p \in Procs, StopMarks(p) PROVE ProcInv'
  <2>. USE <1>2 DEF StopMarks, Marks
  <2>1. BackgroundTypes'
    BY DEF BackgroundTypes, ProcRecord, Stoppable, ProcEnded
  <2>2. \A q \in Procs :
            /\ proc'[q].at = proc[q].at
            /\ proc'[q].place = proc[q].place /\ proc'[q].name = proc[q].name
            /\ proc'[q].status = proc[q].status \/ {proc[q].status, proc'[q].status} \subseteq Stoppable
    BY DEF BackgroundTypes, ProcRecord, Stoppable
  <2>3. \A q \in Procs : proc[q].at = "none" => q # p /\ stopping'[q] = "none"
    BY DEF WorkerKnows, BackgroundTypes
  <2>4. \A q \in Procs : q # p => proc'[q] = proc[q]
    BY DEF BackgroundTypes
  <2>5. NoNewAlive /\ WorkerKnows' /\ LimitsKept' /\ EndsStored'
    BY <2>1, <2>2, <2>3, <2>4, QuietSteps
  <2>. QED
    BY <2>1, <2>5, FewerClash DEF DownIsDown, NoNewAlive
<1>3. ASSUME NEW w \in ProcPlaces, PlaceReserved(w) \/ PlaceReleased(w) PROVE ProcInv'
  <2>. USE <1>3 DEF PlaceReserved, PlaceReleased, RegistryOnly
  <2>1. BackgroundTypes' /\ UNCHANGED <<proc, procRow, procListed, unwritten, stopping>>
    BY DEF BackgroundTypes
  <2>2. NoNewAlive /\ WorkerKnows' /\ LimitsKept' /\ EndsStored'
    BY <2>1, QuietSteps DEF WorkerKnows
  <2>3. Alive' = Alive /\ \A v : AliveAt(v)' = AliveAt(v)
    BY <2>1 DEF Alive, AliveAt
  <2>. QED
    BY <2>1, <2>2, <2>3 DEF PlacesKept, DownIsDown
<1>4. CASE ProcsClose
  <2>. USE <1>4 DEF ProcsClose
  <2>1. BackgroundTypes'
    BY DEF BackgroundTypes
  <2>2. NoNewAlive /\ WorkerKnows' /\ LimitsKept' /\ EndsStored'
    BY <2>1, QuietSteps DEF WorkerKnows
  <2>. QED
    BY <2>1, <2>2, FewerClash DEF DownIsDown, NoNewAlive
<1>5. CASE ProcsAreDown
  <2>. USE <1>5 DEF ProcsAreDown, RegistryOnly
  <2>1. BackgroundTypes' /\ UNCHANGED <<proc, procRow, procListed, unwritten, stopping>>
    BY DEF BackgroundTypes
  <2>2. NoNewAlive /\ WorkerKnows' /\ LimitsKept' /\ EndsStored'
    BY <2>1, QuietSteps DEF WorkerKnows
  <2>. QED
    BY <2>1, <2>2, FewerClash DEF DownIsDown, NoNewAlive
<1>6. CASE ProcsCrash
  <2>1. /\ proc' = [q \in Procs |-> IF proc[q].at = "none" THEN proc[q]
                                    ELSE [proc[q] EXCEPT !.at = "finished"]]
        /\ procListed' = {} /\ reservedPlaces' = {} /\ procsDown' = FALSE
        /\ stopping' = [q \in Procs |-> "none"] /\ unwritten' = unwritten
    BY <1>6 DEF ProcsCrash
  <2>2. ASSUME NEW q \in Procs
        PROVE  /\ proc'[q] \in ProcRecord
               /\ proc'[q].status = proc[q].status
               /\ proc'[q].at = IF proc[q].at = "none" THEN "none" ELSE "finished"
    BY <2>1 DEF BackgroundTypes, ProcRecord
  <2>3. proc' \in [Procs -> ProcRecord]
    BY <2>1, <2>2
  <2>4. BackgroundTypes'
    <3>1. procCrashes' \in 0 .. MaxProcCrashes
      BY <1>6, BackgroundAssumption DEF ProcsCrash, BackgroundTypes
    <3>2. procRow' \in [Procs -> {"none", "RUNNING", "INTERRUPTED"} \cup Stoppable \cup ProcEnded]
      BY <1>6 DEF ProcsCrash, BackgroundTypes
    <3>. QED
      BY <1>6, <2>3, <3>1, <3>2 DEF ProcsCrash, BackgroundTypes
  <2>5. WorkerKnows'
    BY <1>6, <2>1, <2>2 DEF ProcsCrash, WorkerKnows, BackgroundTypes, Stoppable, ProcEnded
  <2>6. EndsStored'
    BY <1>6, <2>1, <2>2 DEF ProcsCrash, EndsStored, WorkerKnows, BackgroundTypes, Stoppable, ProcEnded
  <2>7. NoNewAlive
    BY <2>1 DEF NoNewAlive, Alive
  <2>. QED
    BY <2>1, <2>4, <2>5, <2>6, <2>7, FewerLive, FewerClash DEF DownIsDown
<1>. QED
  BY <1>1, <1>2, <1>3, <1>4, <1>5, <1>6 DEF StopNext

LEMMA ProcNextInv == ProcInv /\ [BackgroundNext]_procVars => ProcInv'
<1>. SUFFICES ASSUME ProcInv, [BackgroundNext]_procVars PROVE ProcInv'
  OBVIOUS
<1>1. CASE UNCHANGED procVars
  BY <1>1 DEF procVars, ProcInv, BackgroundTypes, WorkerKnows, PlacesKept, DownIsDown, LimitsKept,
              EndsStored, Alive, AliveAt
<1>2. ASSUME NEW p \in Procs,
             \/ \E w \in ProcPlaces, n \in ProcNames : ProcStarts(p, w, n)
             \/ ProcHasPid(p) \/ ProcReports(p) \/ ProcExits(p) \/ ProcBreaks(p)
             \/ WorkerNext(p) \/ StopsProc(p) \/ StopNext(p)
      PROVE  ProcInv'
  BY <1>2, StartKeeps, WorkerKeeps, CallersKeep
<1>. QED
  BY <1>1, <1>2, CallersKeep DEF BackgroundNext

-----------------------------------------------------------------------------
(* The theorems                                                            *)

\* The worker of a process, its status and its row belong together
\* (background.rs worker, run_process).
THEOREM ProcInvariant == BackgroundSpec => []ProcInv
BY ProcInitInv, ProcNextInv, PTL DEF BackgroundSpec

\* Reservations, limits, names, the shutdown and the rows of background
\* processes agree (background.rs start_inner, reserve_idle_workspace,
\* wait_shutdown).
THEOREM BackgroundHolds == BackgroundSpec => []BackgroundAgrees
<1>1. ProcInv => BackgroundAgrees
  BY DEF ProcInv, PlacesKept, DownIsDown, LimitsKept, EndsStored, BackgroundAgrees
<1>. QED
  BY <1>1, ProcInvariant, PTL

\* A status that says how a process ended changes only to FAILED, and a stored
\* one never (background.rs stop).
THEOREM EndsStay == BackgroundSpec => EndsAreKept
<1>. DEFINE Kept == \A p \in Procs :
        /\ proc[p].status \in ProcEnded => proc'[p].status \in {proc[p].status, "FAILED"}
        /\ procRow[p] \in ProcEnded => procRow'[p] = procRow[p]
<1>1. ProcInv /\ [BackgroundNext]_procVars => [Kept]_procVars
  <2>. SUFFICES ASSUME ProcInv, BackgroundNext, NEW p \in Procs
                PROVE  /\ proc[p].status \in ProcEnded => proc'[p].status \in {proc[p].status, "FAILED"}
                       /\ procRow[p] \in ProcEnded => procRow'[p] = procRow[p]
    OBVIOUS
  <2>. USE DEF ProcInv, BackgroundTypes, ProcRecord, WorkerKnows, Stoppable, ProcEnded
  <2>1. ASSUME NEW q \in Procs, NEW w \in ProcPlaces, NEW n \in ProcNames, ProcStarts(q, w, n)
        PROVE  /\ proc[p].status \in ProcEnded => proc'[p].status \in {proc[p].status, "FAILED"}
               /\ procRow[p] \in ProcEnded => procRow'[p] = procRow[p]
    BY <2>1 DEF ProcStarts
  <2>2. ASSUME NEW q \in Procs,
               ProcHasPid(q) \/ ProcReports(q) \/ ProcExits(q) \/ ProcBreaks(q) \/ WorkerNext(q)
        PROVE  /\ proc[p].status \in ProcEnded => proc'[p].status \in {proc[p].status, "FAILED"}
               /\ procRow[p] \in ProcEnded => procRow'[p] = procRow[p]
    <3>1. CASE ProcHasPid(q) \/ ProcReports(q)
      BY <3>1 DEF ProcHasPid, ProcReports
    <3>2. CASE ProcExits(q)
      BY <3>2 DEF ProcExits
    <3>3. CASE ProcBreaks(q)
      BY <3>3 DEF ProcBreaks, Fails
    <3>4. CASE ProcEndStored(q)
      BY <3>4 DEF ProcEndStored
    <3>5. CASE ProcFinishes(q)
      BY <3>5 DEF ProcFinishes
    <3>. QED
      BY <2>2, <3>1, <3>2, <3>3, <3>4, <3>5 DEF WorkerNext
  <2>3. ASSUME NEW q \in Procs, StopsProc(q) \/ StopNext(q)
        PROVE  /\ proc[p].status \in ProcEnded => proc'[p].status \in {proc[p].status, "FAILED"}
               /\ procRow[p] \in ProcEnded => procRow'[p] = procRow[p]
    BY <2>3 DEF StopsProc, StopNext, StopMarks, StopReturns, Marks, RegistryOnly
  <2>4. ASSUME NEW w \in ProcPlaces, PlaceReserved(w) \/ PlaceReleased(w)
        PROVE  UNCHANGED <<proc, procRow>>
    BY <2>4 DEF PlaceReserved, PlaceReleased, RegistryOnly
  <2>5. CASE ProcsClose \/ ProcsAreDown \/ ProcsCrash
    BY <2>5 DEF ProcsClose, ProcsAreDown, ProcsCrash, RegistryOnly
  <2>. QED
    BY <2>1, <2>2, <2>3, <2>4, <2>5 DEF BackgroundNext
<1>. QED
  BY <1>1, ProcInvariant, PTL DEF BackgroundSpec, EndsAreKept

-----------------------------------------------------------------------------
(* Language servers: the inductive invariant                               *)

AtStop == {"ask", "exit", "poll"}

\* A tool keeps its slot, which is empty, from its look at it to the end of its
\* start; what it starts is for that slot.
ToolHolds(a) ==
    /\ agent[a].at = "lock" => agent[a].slot \in LspKeys /\ agent[a].stops = NoLsp
    /\ agent[a].at \in {"room", "start"} \cup AtStop =>
          /\ agent[a].slot \in LspKeys /\ agent[a].stops # agent[a].slot
          /\ slotLock[agent[a].slot] = a /\ slotServer[agent[a].slot] = NoLsp
    /\ agent[a].at = "start" =>
          /\ agent[a].srv \in LspServers
          /\ server[agent[a].srv].key = agent[a].slot /\ ~server[agent[a].srv].putDown

\* Who stops a server keeps the slot it was in, which only the reaper leaves as it is.
StopHolds(a) ==
    /\ agent[a].at \in AtStop =>
          /\ agent[a].stops \in LspKeys /\ agent[a].srv \in LspServers
          /\ slotLock[agent[a].stops] = a
          /\ server[agent[a].srv].key = agent[a].stops
          /\ slotServer[agent[a].stops] = IF a = Reaper THEN agent[a].srv ELSE NoLsp
    /\ a \in LspStoppers /\ agent[a].at = "lock" => agent[a].stops \in LspKeys
    /\ agent[a].at = "start" => a \in LspTools

AgentsHold == \A a \in Agents : (a \in LspTools => ToolHolds(a)) /\ StopHolds(a)

\* A server in a slot is one for it, and in use.
SlotsHold ==
    \A k \in LspKeys : slotServer[k] # NoLsp =>
        /\ server[slotServer[k]].key = k /\ k \notin backoff
        /\ ~server[slotServer[k]].putDown

\* A number no process has stands for no key.
NoneIsFree == \A s \in LspServers : server[s].state = "none" => server[s].key = NoLsp

LspInv == LspTypes /\ AgentsHold /\ SlotsHold /\ NoneIsFree

\* What a step of one agent does to the agents and the servers.
LEMMA StepFacts ==
  ASSUME LspTypes, NEW a \in Agents, NEW next \in AgentRecord, Does(a, next),
         NEW clients \in [LspServers -> ServerRecord], Processes(clients) \/ server' = clients
  PROVE  /\ agent' \in [Agents -> AgentRecord] /\ server' \in [LspServers -> ServerRecord]
         /\ agent'[a] = next /\ \A b \in Agents : b # a => agent'[b] = agent[b]
         /\ \A s \in LspServers : server'[s] \in {clients[s], NoServer}
         /\ \A k \in LspKeys :
               slotServer'[k] \in LspServers => server'[slotServer'[k]] = clients[slotServer'[k]]
         /\ \A b \in Agents :
               agent'[b].srv \in LspServers => server'[agent'[b].srv] = clients[agent'[b].srv]
<1>1. /\ agent' \in [Agents -> AgentRecord]
      /\ agent'[a] = next /\ \A b \in Agents : b # a => agent'[b] = agent[b]
  BY DEF Does, LspTypes
<1>2. CASE Processes(clients)
  BY <1>1, <1>2 DEF Processes, Referred, NoServer, ServerRecord
<1>3. CASE server' = clients
  BY <1>1, <1>3
<1>. QED
  BY <1>1, <1>2, <1>3

\* The step of one agent keeps what the others hold, when it touches no slot that
\* another has locked, and puts down no server but the one it stops.
LEMMA StepKeeps ==
  ASSUME LspInv, NEW a \in Agents, NEW next \in AgentRecord, Does(a, next),
         NEW clients \in [LspServers -> ServerRecord], Processes(clients) \/ server' = clients,
         slotLock' \in [LspKeys -> Agents \cup {NoLsp}], slotServer' \in [LspKeys -> LspServers \cup {NoLsp}],
         backoff' \subseteq LspKeys,
         \A k \in LspKeys : slotLock[k] \notin {a, NoLsp} =>
            slotLock'[k] = slotLock[k] /\ slotServer'[k] = slotServer[k],
         \A s \in LspServers :
            /\ server[s].state # "none" => clients[s].key = server[s].key
            /\ clients[s].state = "none" => clients[s].key = NoLsp
            /\ clients[s].putDown => server[s].putDown \/ (agent[a].at \in AtStop /\ s = agent[a].srv),
         \A k \in LspKeys : slotServer'[k] # NoLsp =>
            /\ clients[slotServer'[k]].key = k /\ k \notin backoff'
            /\ ~clients[slotServer'[k]].putDown,
         (a \in LspTools => ToolHolds(a)') /\ StopHolds(a)'
  PROVE  LspInv'
<1>1. LspTypes /\ AgentsHold /\ SlotsHold /\ NoneIsFree /\ NoLsp \notin LspKeys \cup LspServers \cup Agents
  BY LspAssumption DEF LspInv, Agents
<1>2. /\ agent' \in [Agents -> AgentRecord] /\ server' \in [LspServers -> ServerRecord]
      /\ agent'[a] = next /\ \A b \in Agents : b # a => agent'[b] = agent[b]
      /\ \A s \in LspServers : server'[s] \in {clients[s], NoServer}
      /\ \A k \in LspKeys :
            slotServer'[k] \in LspServers => server'[slotServer'[k]] = clients[slotServer'[k]]
      /\ \A b \in Agents :
            agent'[b].srv \in LspServers => server'[agent'[b].srv] = clients[agent'[b].srv]
  BY <1>1, StepFacts
<1>3. LspTypes'
  BY <1>2 DEF LspTypes
<1>4. SlotsHold' /\ NoneIsFree'
  BY <1>1, <1>2 DEF SlotsHold, NoneIsFree, NoServer
<1>5. ASSUME NEW b \in Agents, b # a PROVE (b \in LspTools => ToolHolds(b)') /\ StopHolds(b)'
  <2>1. agent'[b] = agent[b] /\ (b \in LspTools => ToolHolds(b)) /\ StopHolds(b)
    BY <1>1, <1>2, <1>5 DEF AgentsHold
  <2>2. \A k \in LspKeys : slotLock[k] = b => slotLock'[k] = b /\ slotServer'[k] = slotServer[k]
    BY <1>1, <1>5
  <2>3. StopHolds(b)'
    BY <1>1, <1>2, <2>1, <2>2 DEF StopHolds, AtStop, NoneIsFree
  <2>4. ASSUME b \in LspTools, agent[b].at = "start"
        PROVE  server'[agent[b].srv].key = agent[b].slot /\ ~server'[agent[b].srv].putDown
    <3>1. StopHolds(a) /\ ToolHolds(b) /\ agent[b].srv \in LspServers
      BY <1>1, <2>1, <2>4 DEF AgentsHold, ToolHolds
    <3>2. server'[agent[b].srv] = clients[agent[b].srv]
      BY <1>2, <2>1, <3>1
    <3>3. server[agent[b].srv].key = agent[b].slot /\ agent[b].slot \in LspKeys /\ slotLock[agent[b].slot] = b
      BY <2>4, <3>1 DEF ToolHolds
    <3>4. agent[a].at \in AtStop => agent[b].srv # agent[a].srv
      BY <1>5, <3>1, <3>3 DEF StopHolds
    <3>. QED
      BY <1>1, <2>4, <3>1, <3>2, <3>3, <3>4 DEF NoneIsFree, ToolHolds
  <2>5. b \in LspTools => ToolHolds(b)'
    BY <1>1, <2>1, <2>2, <2>4, <1>2 DEF ToolHolds, AtStop
  <2>. QED
    BY <2>3, <2>5
<1>6. AgentsHold'
  BY <1>5 DEF AgentsHold
<1>. QED
  BY <1>3, <1>4, <1>6 DEF LspInv

\* The same for a step after which the servers are the same, or are dropped.
LEMMA AgentStepKeeps ==
  ASSUME LspInv, NEW a \in Agents, NEW next \in AgentRecord, Does(a, next),
         Processes(server) \/ UNCHANGED server,
         slotLock' \in [LspKeys -> Agents \cup {NoLsp}], slotServer' \in [LspKeys -> LspServers \cup {NoLsp}],
         backoff' \subseteq LspKeys,
         \A k \in LspKeys : slotLock[k] \notin {a, NoLsp} =>
            slotLock'[k] = slotLock[k] /\ slotServer'[k] = slotServer[k],
         \A k \in LspKeys : slotServer'[k] # NoLsp =>
            /\ k \notin backoff'
            /\ slotServer'[k] = slotServer[k] \/ (/\ server[slotServer'[k]].key = k
                                                  /\ ~server[slotServer'[k]].putDown),
         (a \in LspTools => ToolHolds(a)') /\ StopHolds(a)'
  PROVE  LspInv'
<1>1. server \in [LspServers -> ServerRecord] /\ SlotsHold /\ NoneIsFree
  BY DEF LspInv, LspTypes
<1>. QED
  BY <1>1, StepKeeps DEF SlotsHold, NoneIsFree

\* What the assumption says of the sets of agents.
Apart ==
    /\ NoLsp \notin LspKeys \cup LspServers \cup Agents
    /\ Reaper \in Agents /\ Reaper \notin LspTools \cup LspStoppers /\ LspTools \cap LspStoppers = {}
    /\ LspTools \cup LspStoppers \subseteq Agents

LEMMA LspKnown ==
  ASSUME LspInv, NEW a \in Agents
  PROVE  /\ LspTypes /\ Apart /\ SlotsHold /\ NoneIsFree
         /\ (a \in LspTools => ToolHolds(a)) /\ StopHolds(a)
         /\ NoAgent \in AgentRecord /\ agent[a] \in AgentRecord
BY LspAssumption DEF LspInv, AgentsHold, Apart, Agents, LspTypes, NoAgent, AgentRecord

LEMMA AgentIsNext ==
  ASSUME LspTypes, NEW a \in Agents, NEW next, Does(a, next)
  PROVE  agent'[a] = next
BY DEF Does, LspTypes

\* An agent that ends, or only uses a server, holds nothing.
LEMMA FreeHolds ==
  ASSUME NEW a \in Agents, agent'[a].at \in {"idle", "use"}
  PROVE  ToolHolds(a)' /\ StopHolds(a)'
BY DEF ToolHolds, StopHolds, AtStop

-----------------------------------------------------------------------------
(* The steps of the pool                                                   *)

LEMMA ToolWantsKeeps ==
  ASSUME LspInv, NEW a \in Agents, NEW k \in LspKeys, ToolWants(a, k)
  PROVE  LspInv'
<1>. DEFINE next == [NoAgent EXCEPT !.at = "lock", !.slot = k]
<1>1. next \in AgentRecord /\ Does(a, next) /\ SlotsKept /\ UNCHANGED server /\ a \in LspTools
  BY DEF ToolWants, NoAgent, AgentRecord
<1>2. agent'[a] = next /\ next.at = "lock" /\ next.slot = k /\ next.stops = NoLsp
  BY <1>1, LspKnown, AgentIsNext DEF NoAgent
<1>. HIDE DEF next
<1>3. ToolHolds(a)' /\ StopHolds(a)'
  BY <1>1, <1>2, LspKnown DEF ToolHolds, StopHolds, AtStop, Apart
<1>. QED
  BY <1>1, <1>3, AgentStepKeeps, LspKnown DEF SlotsKept, LspTypes, SlotsHold

LEMMA ToolLocksKeeps ==
  ASSUME LspInv, NEW a \in Agents, ToolLocks(a)
  PROVE  LspInv'
<1>. DEFINE k == agent[a].slot
           s == slotServer[k]
<1>1. /\ LspTypes /\ Apart /\ SlotsHold /\ NoAgent \in AgentRecord /\ agent[a] \in AgentRecord
      /\ a \in LspTools /\ agent[a].stops = NoLsp
      /\ k \in LspKeys /\ s \in LspServers \cup {NoLsp} /\ slotLock[k] = NoLsp
      /\ Processes(server)
  BY LspKnown DEF ToolHolds, ToolLocks, LspTypes
<1>2. CASE s \in AliveServers /\ Does(a, [NoAgent EXCEPT !.at = "use", !.srv = s]) /\ SlotsKept
  <2>. DEFINE next == [NoAgent EXCEPT !.at = "use", !.srv = s]
  <2>1. next \in AgentRecord /\ next.at = "use" /\ agent'[a] = next
    BY <1>1, <1>2, AgentIsNext DEF NoAgent, AgentRecord, AliveServers
  <2>2. ToolHolds(a)' /\ StopHolds(a)'
    BY <2>1, FreeHolds
  <2>. QED
    BY <1>1, <1>2, <2>1, <2>2, AgentStepKeeps DEF SlotsKept, LspTypes, SlotsHold
<1>3. CASE Does(a, NoAgent) /\ UNCHANGED slotLock /\
           \/ UNCHANGED <<slotServer, backoff>>
           \/ slotServer' = [slotServer EXCEPT ![k] = NoLsp] /\ backoff' = backoff \cup {k}
  <2>1. agent'[a].at = "idle"
    BY <1>1, <1>3, AgentIsNext DEF NoAgent
  <2>2. ToolHolds(a)' /\ StopHolds(a)'
    BY <2>1, FreeHolds
  <2>. QED
    BY <1>1, <1>3, <2>2, AgentStepKeeps DEF LspTypes, SlotsHold
<1>4. ASSUME NEW room \in MakesRoom(k), s = NoLsp, k \notin backoff, Locks(a, k), UNCHANGED <<slotServer, backoff>>,
             Does(a, [agent[a] EXCEPT !.at = "room", !.todo = room])
      PROVE  LspInv'
  <2>. DEFINE next == [agent[a] EXCEPT !.at = "room", !.todo = room]
  <2>1. room \in SUBSET LspKeys
    BY DEF MakesRoom, Excess, Others
  <2>2. next \in AgentRecord /\ next.at = "room" /\ next.slot = k /\ next.stops = NoLsp /\ agent'[a] = next
    BY <1>1, <1>4, <2>1, AgentIsNext DEF AgentRecord
  <2>. HIDE DEF next
  <2>3. ToolHolds(a)' /\ StopHolds(a)'
    BY <1>1, <1>4, <2>2 DEF ToolHolds, StopHolds, AtStop, Apart, Locks, LspTypes
  <2>4. Does(a, next)
    BY <1>4 DEF next
  <2>. QED
    BY <1>1, <1>4, <2>2, <2>3, <2>4, AgentStepKeeps DEF LspTypes, SlotsHold, Locks
<1>. QED
  BY <1>2, <1>3, <1>4 DEF ToolLocks, SlotsKept

LEMMA RoomNextKeeps ==
  ASSUME LspInv, NEW a \in LspTools, NEW k \in LspKeys, RoomNext(a, k)
  PROVE  LspInv'
<1>1. a \in Agents
  BY DEF Agents
<1>2. /\ LspTypes /\ Apart /\ SlotsHold /\ agent[a] \in AgentRecord /\ UNCHANGED server
      /\ agent[a].at = "room" /\ ToolHolds(a) /\ slotServer[k] \in LspServers \cup {NoLsp}
  BY <1>1, LspKnown DEF RoomNext, LspTypes
<1>3. CASE slotLock[k] = NoLsp /\ slotServer[k] # NoLsp
  <2>. DEFINE next == [agent[a] EXCEPT !.at = "ask", !.srv = slotServer[k], !.stops = k]
  <2>1. Does(a, next) /\ Locks(a, k) /\ TakesServer(k) /\ UNCHANGED backoff
    BY <1>3 DEF RoomNext
  <2>2. /\ next \in AgentRecord /\ agent'[a] = next /\ next.at = "ask"
        /\ next.slot = agent[a].slot /\ next.srv = slotServer[k] /\ next.stops = k
    BY <1>1, <1>2, <1>3, <2>1, AgentIsNext DEF AgentRecord
  <2>. HIDE DEF next
  <2>3. ToolHolds(a)' /\ StopHolds(a)'
    BY <1>1, <1>2, <1>3, <2>1, <2>2
       DEF ToolHolds, StopHolds, AtStop, Apart, Locks, TakesServer, LspTypes, SlotsHold
  <2>. QED
    BY <1>1, <1>2, <1>3, <2>1, <2>2, <2>3, AgentStepKeeps DEF LspTypes, SlotsHold, Locks, TakesServer, Apart
<1>4. CASE slotLock[k] # NoLsp \/ slotServer[k] = NoLsp
  <2>. DEFINE next == [agent[a] EXCEPT !.todo = @ \ {k}]
  <2>1. Does(a, next) /\ SlotsKept
    BY <1>4 DEF RoomNext
  <2>2. /\ next \in AgentRecord /\ agent'[a] = next /\ next.at = "room"
        /\ next.slot = agent[a].slot /\ next.stops = agent[a].stops
    BY <1>1, <1>2, <2>1, AgentIsNext DEF AgentRecord
  <2>. HIDE DEF next
  <2>3. ToolHolds(a)' /\ StopHolds(a)'
    BY <1>1, <1>2, <2>1, <2>2 DEF ToolHolds, StopHolds, AtStop, SlotsKept, Apart
  <2>. QED
    BY <1>1, <1>2, <2>1, <2>2, <2>3, AgentStepKeeps DEF LspTypes, SlotsHold, SlotsKept
<1>. QED
  BY <1>3, <1>4

LEMMA ServerStartsKeeps ==
  ASSUME LspInv, NEW a \in LspTools, NEW s \in LspServers, ServerStarts(a, s)
  PROVE  LspInv'
<1>. DEFINE next == [agent[a] EXCEPT !.at = "start", !.srv = s]
            clients == [server EXCEPT ![s] = [NoServer EXCEPT !.state = "runs", !.key = agent[a].slot]]
<1>1. a \in Agents
  BY DEF Agents
<1>2. /\ LspTypes /\ Apart /\ SlotsHold /\ NoneIsFree /\ agent[a] \in AgentRecord
      /\ agent[a].at = "room" /\ ToolHolds(a)
      /\ Does(a, next) /\ SlotsKept /\ Processes(clients) /\ server[s].state = "none"
  BY <1>1, LspKnown DEF ServerStarts
<1>3. /\ next \in AgentRecord /\ agent'[a] = next /\ next.at = "start"
      /\ next.slot = agent[a].slot /\ next.stops = agent[a].stops /\ next.srv = s
  BY <1>1, <1>2, AgentIsNext DEF AgentRecord
<1>4. /\ clients \in [LspServers -> ServerRecord] /\ clients[s].key = agent[a].slot
      /\ clients[s].state = "runs" /\ ~clients[s].putDown
      /\ \A t \in LspServers : t # s => clients[t] = server[t]
  BY <1>2 DEF LspTypes, ServerRecord, NoServer, ToolHolds
<1>. HIDE DEF next, clients
<1>5. server'[s] = clients[s]
  BY <1>1, <1>2, <1>3, <1>4, StepFacts
<1>6. ToolHolds(a)' /\ StopHolds(a)'
  BY <1>2, <1>3, <1>4, <1>5 DEF ToolHolds, StopHolds, AtStop, SlotsKept
<1>7. \A k \in LspKeys : slotServer[k] # NoLsp => slotServer[k] \in LspServers \ {s}
  BY <1>2 DEF SlotsHold, NoneIsFree, LspTypes, Apart
<1>. QED
  BY <1>1, <1>2, <1>3, <1>4, <1>6, <1>7, StepKeeps DEF LspTypes, SlotsHold, NoneIsFree, SlotsKept

LEMMA ToolEndsKeep ==
  ASSUME LspInv, NEW a \in LspTools, ServerReady(a) \/ StartFails(a) \/ UseEnds(a)
  PROVE  LspInv'
<1>1. a \in Agents
  BY DEF Agents
<1>2. LspTypes /\ Apart /\ SlotsHold /\ agent[a] \in AgentRecord /\ ToolHolds(a) /\ NoAgent \in AgentRecord
  BY <1>1, LspKnown
<1>3. CASE ServerReady(a)
  <2>. DEFINE next == [NoAgent EXCEPT !.at = "use", !.srv = agent[a].srv]
  <2>1. agent[a].srv \in LspServers /\ agent[a].slot \in LspKeys /\ Does(a, next)
    BY <1>2, <1>3 DEF ServerReady, ToolHolds
  <2>2. next \in AgentRecord /\ next.at = "use" /\ agent'[a] = next
    BY <1>1, <1>2, <2>1, AgentIsNext DEF NoAgent, AgentRecord
  <2>3. ToolHolds(a)' /\ StopHolds(a)'
    BY <1>1, <2>2, FreeHolds
  <2>. QED
    BY <1>1, <1>2, <1>3, <2>1, <2>2, <2>3, AgentStepKeeps
       DEF ServerReady, ToolHolds, AtStop, Unlocks, LspTypes, SlotsHold, Apart
<1>4. CASE StartFails(a)
  <2>1. agent[a].slot \in LspKeys /\ Does(a, NoAgent) /\ slotLock[agent[a].slot] = a
        /\ slotServer[agent[a].slot] = NoLsp
    BY <1>2, <1>4 DEF StartFails, ToolHolds
  <2>2. agent'[a].at = "idle"
    BY <1>1, <1>2, <2>1, AgentIsNext DEF NoAgent
  <2>3. ToolHolds(a)' /\ StopHolds(a)'
    BY <1>1, <2>2, FreeHolds
  <2>. QED
    BY <1>1, <1>2, <1>4, <2>1, <2>3, AgentStepKeeps DEF StartFails, Unlocks, LspTypes, SlotsHold
<1>5. CASE UseEnds(a)
  <2>1. agent'[a].at = "idle"
    BY <1>1, <1>2, <1>5, AgentIsNext DEF UseEnds, NoAgent
  <2>2. ToolHolds(a)' /\ StopHolds(a)'
    BY <1>1, <2>1, FreeHolds
  <2>. QED
    BY <1>1, <1>2, <1>5, <2>2, AgentStepKeeps DEF UseEnds, SlotsKept, LspTypes, SlotsHold
<1>. QED
  BY <1>3, <1>4, <1>5

LEMMA StopAsksKeeps ==
  ASSUME LspInv, NEW a \in Agents, StopAsks(a) \/ StopSaysExit(a)
  PROVE  LspInv'
<1>1. LspTypes /\ Apart /\ SlotsHold /\ agent[a] \in AgentRecord /\ (a \in LspTools => ToolHolds(a)) /\ StopHolds(a)
  BY LspKnown
<1>2. PICK at \in {"exit", "poll"} : Does(a, [agent[a] EXCEPT !.at = at])
  BY DEF StopAsks, StopSaysExit
<1>. DEFINE next == [agent[a] EXCEPT !.at = at]
<1>3. /\ next \in AgentRecord /\ agent'[a] = next /\ next.at = at /\ agent[a].at \in AtStop
      /\ next.slot = agent[a].slot /\ next.stops = agent[a].stops /\ next.srv = agent[a].srv
      /\ SlotsKept /\ UNCHANGED server
  BY <1>1, <1>2, AgentIsNext DEF AgentRecord, StopAsks, StopSaysExit, AtStop
<1>. HIDE DEF next
<1>4. StopHolds(a)' /\ (a \in LspTools => ToolHolds(a)')
  BY <1>1, <1>3 DEF ToolHolds, StopHolds, AtStop, SlotsKept
<1>5. Does(a, next)
  BY <1>2 DEF next
<1>. QED
  BY <1>1, <1>3, <1>4, <1>5, AgentStepKeeps DEF SlotsKept, LspTypes, SlotsHold

LEMMA StopKillsKeeps ==
  ASSUME LspInv, NEW a \in Agents, StopKills(a)
  PROVE  LspInv'
<1>. DEFINE s == agent[a].srv
            k == agent[a].stops
            next == [agent[a] EXCEPT !.at = "room", !.srv = NoLsp, !.stops = NoLsp, !.todo = @ \ {k}]
            clients == [server EXCEPT ![s].state = "gone", ![s].dead = TRUE, ![s].putDown = TRUE]
<1>1. /\ LspTypes /\ Apart /\ SlotsHold /\ NoneIsFree /\ agent[a] \in AgentRecord
      /\ (a \in LspTools => ToolHolds(a)) /\ StopHolds(a)
      /\ agent[a].at \in AtStop /\ Does(a, next) /\ SlotAfterStop(a, k) /\ Unlocks(k) /\ Processes(clients)
  BY LspKnown DEF StopKills, AtStop
<1>2. /\ k \in LspKeys /\ s \in LspServers /\ slotLock[k] = a /\ server[s].key = k
      /\ slotServer[k] \in {s, NoLsp} /\ (a # Reaper => slotServer[k] = NoLsp)
  BY <1>1 DEF StopHolds
<1>3. /\ next \in AgentRecord /\ agent'[a] = next /\ next.at = "room"
      /\ next.slot = agent[a].slot /\ next.stops = NoLsp
  BY <1>1, AgentIsNext DEF AgentRecord
<1>4. /\ clients \in [LspServers -> ServerRecord] /\ clients[s].key = k /\ clients[s].state = "gone"
      /\ \A t \in LspServers : t # s => clients[t] = server[t]
  <2>1. server[s] \in ServerRecord
    BY <1>1, <1>2 DEF LspTypes
  <2>. QED
    BY <1>1, <1>2, <2>1 DEF LspTypes, ServerRecord
<1>5. \A l \in LspKeys : slotServer'[l] # NoLsp => slotServer'[l] = slotServer[l] /\ slotServer[l] # s
  BY <1>1, <1>2 DEF SlotAfterStop, SlotsHold, LspTypes
<1>. HIDE DEF s, k, next, clients
<1>6. StopHolds(a)' /\ (a \in LspTools => ToolHolds(a)')
  BY <1>1, <1>2, <1>3 DEF ToolHolds, StopHolds, AtStop, Unlocks, SlotAfterStop, LspTypes, Apart, s, k
<1>7. /\ slotServer' \in [LspKeys -> LspServers \cup {NoLsp}] /\ backoff' \subseteq backoff
      /\ slotLock' \in [LspKeys -> Agents \cup {NoLsp}]
      /\ \A l \in LspKeys : slotLock[l] \notin {a, NoLsp} =>
            slotLock'[l] = slotLock[l] /\ slotServer'[l] = slotServer[l]
  BY <1>1, <1>2 DEF SlotAfterStop, Unlocks, LspTypes
<1>8. \A t \in LspServers :
            /\ server[t].state # "none" => clients[t].key = server[t].key
            /\ clients[t].state = "none" => clients[t].key = NoLsp
            /\ clients[t].putDown => server[t].putDown \/ (agent[a].at \in AtStop /\ t = agent[a].srv)
  BY <1>1, <1>2, <1>4 DEF NoneIsFree, s
<1>9. \A l \in LspKeys : slotServer'[l] # NoLsp =>
            /\ clients[slotServer'[l]].key = l /\ l \notin backoff'
            /\ ~clients[slotServer'[l]].putDown
  BY <1>1, <1>4, <1>5, <1>7 DEF SlotsHold, LspTypes
<1>10. backoff' \subseteq LspKeys
  BY <1>1, <1>7 DEF LspTypes
<1>. QED
  BY <1>1, <1>3, <1>4, <1>6, <1>7, <1>8, <1>9, <1>10, StepKeeps

LEMMA SweepsKeep ==
  ASSUME LspInv, NEW a \in Agents,
         SweepBegins(a) \/ SweepEnds(a) \/ StopperLocks(a) \/ \E k \in LspKeys : StopperPicks(a, k)
  PROVE  LspInv'
<1>1. /\ LspTypes /\ Apart /\ SlotsHold /\ agent[a] \in AgentRecord /\ StopHolds(a) /\ NoAgent \in AgentRecord
      /\ a \notin LspTools
  BY LspKnown DEF SweepBegins, SweepEnds, StopperLocks, StopperPicks, Apart
<1>2. CASE SweepBegins(a)
  <2>1. PICK slots \in SUBSET LspKeys : Does(a, [NoAgent EXCEPT !.at = "room", !.todo = slots])
    BY <1>2 DEF SweepBegins
  <2>. DEFINE next == [NoAgent EXCEPT !.at = "room", !.todo = slots]
  <2>2. next \in AgentRecord /\ agent'[a] = next /\ next.at = "room"
    BY <1>1, <2>1, AgentIsNext DEF NoAgent, AgentRecord
  <2>3. StopHolds(a)'
    BY <2>2 DEF StopHolds, AtStop
  <2>. QED
    BY <1>1, <1>2, <2>1, <2>2, <2>3, AgentStepKeeps DEF SweepBegins, SlotsKept, LspTypes, SlotsHold
<1>3. CASE SweepEnds(a)
  <2>1. agent'[a].at = "idle" /\ Does(a, NoAgent)
    BY <1>1, <1>3, AgentIsNext DEF SweepEnds, NoAgent
  <2>. QED
    BY <1>1, <1>3, <2>1, FreeHolds, AgentStepKeeps DEF SweepEnds, SlotsKept, LspTypes, SlotsHold
<1>4. ASSUME NEW k \in LspKeys, StopperPicks(a, k) PROVE LspInv'
  <2>. DEFINE next == [agent[a] EXCEPT !.at = "lock", !.stops = k]
  <2>1. next \in AgentRecord /\ Does(a, next) /\ agent'[a] = next /\ next.at = "lock" /\ next.stops = k
    BY <1>1, <1>4, AgentIsNext DEF StopperPicks, AgentRecord
  <2>2. StopHolds(a)'
    BY <2>1 DEF StopHolds, AtStop
  <2>. QED
    BY <1>1, <1>4, <2>1, <2>2, AgentStepKeeps DEF StopperPicks, SlotsKept, LspTypes, SlotsHold
<1>5. CASE StopperLocks(a)
  <2>. DEFINE k == agent[a].stops
  <2>1. /\ a \in LspStoppers /\ a # Reaper /\ agent[a].at = "lock" /\ k \in LspKeys
        /\ slotLock[k] = NoLsp /\ slotServer[k] \in LspServers \cup {NoLsp} /\ UNCHANGED server
    BY <1>1, <1>5 DEF StopperLocks, StopHolds, Apart, LspTypes
  <2>2. CASE slotServer[k] # NoLsp
    <3>. DEFINE next == [agent[a] EXCEPT !.at = "ask", !.srv = slotServer[k]]
    <3>1. Locks(a, k) /\ TakesServer(k) /\ Does(a, next) /\ UNCHANGED backoff
      BY <1>5, <2>2 DEF StopperLocks
    <3>2. /\ next \in AgentRecord /\ agent'[a] = next /\ next.at = "ask"
          /\ next.srv = slotServer[k] /\ next.stops = k
      BY <1>1, <2>1, <2>2, <3>1, AgentIsNext DEF AgentRecord
    <3>. HIDE DEF next
    <3>3. StopHolds(a)'
      BY <1>1, <2>1, <2>2, <3>1, <3>2
         DEF StopHolds, AtStop, Apart, Locks, TakesServer, LspTypes, SlotsHold
    <3>. QED
      BY <1>1, <2>1, <2>2, <3>1, <3>2, <3>3, AgentStepKeeps
         DEF LspTypes, SlotsHold, Locks, TakesServer, Apart
  <2>3. CASE slotServer[k] = NoLsp
    <3>. DEFINE next == [agent[a] EXCEPT !.at = "room", !.stops = NoLsp, !.todo = @ \ {k}]
    <3>1. /\ next \in AgentRecord /\ Does(a, next) /\ agent'[a] = next /\ next.at = "room"
          /\ backoff' = backoff \ {k} /\ UNCHANGED <<slotLock, slotServer>>
      BY <1>1, <1>5, <2>3, AgentIsNext DEF StopperLocks, AgentRecord
    <3>2. StopHolds(a)'
      BY <3>1 DEF StopHolds, AtStop
    <3>. QED
      BY <1>1, <2>1, <3>1, <3>2, AgentStepKeeps DEF LspTypes, SlotsHold
  <2>. QED
    BY <2>2, <2>3
<1>. QED
  BY <1>2, <1>3, <1>4, <1>5

LEMMA ReaperLooksKeeps ==
  ASSUME LspInv, NEW k \in LspKeys, ReaperLooks(k)
  PROVE  LspInv'
<1>1. Reaper \in Agents
  BY DEF Agents
<1>2. /\ LspTypes /\ Apart /\ SlotsHold /\ agent[Reaper] \in AgentRecord
      /\ slotServer[k] \in LspServers \cup {NoLsp} /\ UNCHANGED <<slotServer, backoff, server>>
  BY <1>1, LspKnown DEF ReaperLooks, LspTypes
<1>3. CASE Does(Reaper, [agent[Reaper] EXCEPT !.at = "ask", !.srv = slotServer[k], !.stops = k])
           /\ slotLock[k] = NoLsp /\ slotServer[k] # NoLsp /\ Locks(Reaper, k)
  <2>. DEFINE next == [agent[Reaper] EXCEPT !.at = "ask", !.srv = slotServer[k], !.stops = k]
  <2>1. /\ next \in AgentRecord /\ Does(Reaper, next) /\ agent'[Reaper] = next /\ next.at = "ask"
        /\ next.srv = slotServer[k] /\ next.stops = k
    BY <1>1, <1>2, <1>3, AgentIsNext DEF AgentRecord
  <2>. HIDE DEF next
  <2>2. StopHolds(Reaper)'
    BY <1>1, <1>2, <1>3, <2>1 DEF StopHolds, AtStop, Apart, Locks, LspTypes, SlotsHold
  <2>. QED
    BY <1>1, <1>2, <1>3, <2>1, <2>2, AgentStepKeeps DEF LspTypes, SlotsHold, Locks, Apart
<1>4. CASE Does(Reaper, [agent[Reaper] EXCEPT !.todo = @ \ {k}]) /\ UNCHANGED slotLock
  <2>. DEFINE next == [agent[Reaper] EXCEPT !.todo = @ \ {k}]
  <2>1. next \in AgentRecord /\ Does(Reaper, next) /\ agent'[Reaper] = next /\ next.at = "room"
    BY <1>1, <1>2, <1>4, AgentIsNext DEF AgentRecord, ReaperLooks
  <2>2. StopHolds(Reaper)'
    BY <2>1 DEF StopHolds, AtStop
  <2>. QED
    BY <1>1, <1>2, <1>4, <2>1, <2>2, AgentStepKeeps DEF LspTypes, SlotsHold, Apart
<1>. QED
  BY <1>3, <1>4 DEF ReaperLooks

LEMMA CancelledKeeps ==
  ASSUME LspInv, NEW a \in Agents, AgentCancelled(a)
  PROVE  LspInv'
<1>1. LspTypes /\ SlotsHold /\ NoAgent \in AgentRecord /\ Does(a, NoAgent)
  BY LspKnown DEF AgentCancelled
<1>2. agent'[a].at = "idle"
  BY <1>1, AgentIsNext DEF NoAgent
<1>. QED
  BY <1>1, <1>2, FreeHolds, AgentStepKeeps DEF AgentCancelled, LspTypes, SlotsHold

\* A server that changes by itself keeps what it was started for.
LEMMA ServersKeep ==
  ASSUME LspInv,
         \/ \E a \in LspTools : PipeFills(a)
         \/ \E s \in LspServers : ServerExits(s) \/ ServerHangs(s) \/ ServerGoesOn(s) \/ ReaderFails(s)
         \/ \E k \in LspKeys : BackoffPasses(k)
  PROVE  LspInv'
<1>1. LspTypes /\ AgentsHold /\ SlotsHold /\ NoneIsFree
  BY DEF LspInv
<1>2. CASE \E k \in LspKeys : BackoffPasses(k)
  BY <1>1, <1>2 DEF BackoffPasses, LspInv, LspTypes, AgentsHold, ToolHolds, StopHolds, SlotsHold, NoneIsFree
<1>3. ASSUME UNCHANGED <<slotLock, slotServer, backoff, agent>>, server' \in [LspServers -> ServerRecord],
             \A s \in LspServers : /\ server'[s].key = server[s].key /\ server'[s].putDown = server[s].putDown
                                   /\ server'[s].state = "none" => server[s].state = "none"
      PROVE  LspInv'
  <2>1. LspTypes' /\ NoneIsFree'
    BY <1>1, <1>3 DEF LspTypes, NoneIsFree
  <2>2. SlotsHold'
    BY <1>1, <1>3, LspAssumption DEF LspTypes, SlotsHold
  <2>3. AgentsHold'
    BY <1>1, <1>3 DEF AgentsHold, ToolHolds, StopHolds
  <2>. QED
    BY <2>1, <2>2, <2>3 DEF LspInv
<1>4. ASSUME NEW t, NEW r \in ServerRecord, server' = [server EXCEPT ![t] = r],
             UNCHANGED <<slotLock, slotServer, backoff, agent>>,
             t \in LspServers => /\ r.key = server[t].key /\ r.putDown = server[t].putDown
                                 /\ r.state = "none" => server[t].state = "none"
      PROVE  LspInv'
  BY <1>1, <1>3, <1>4 DEF LspTypes
<1>5. ASSUME NEW a \in LspTools, PipeFills(a) PROVE LspInv'
  <2>1. CASE agent[a].srv \in LspServers
    <3>1. server[agent[a].srv] \in ServerRecord
      BY <1>1, <2>1 DEF LspTypes
    <3>2. [server[agent[a].srv] EXCEPT !.full = TRUE] \in ServerRecord
      BY <3>1 DEF ServerRecord
    <3>. QED
      BY <1>4, <1>5, <2>1, <3>1, <3>2 DEF PipeFills, SlotsKept, ServerRecord
  <2>2. CASE agent[a].srv \notin LspServers
    <3>1. server' = server
      BY <1>1, <1>5, <2>2 DEF PipeFills, LspTypes
    <3>. QED
      BY <1>1, <1>3, <1>5, <3>1 DEF PipeFills, SlotsKept, LspTypes
  <2>. QED
    BY <2>1, <2>2
<1>6. ASSUME NEW s \in LspServers, ServerExits(s) \/ ServerHangs(s) \/ ServerGoesOn(s) PROVE LspInv'
  <2>1. PICK to \in {"gone", "hung", "runs"} : server' = [server EXCEPT ![s].state = to, ![s].full = FALSE]
    BY <1>6 DEF ServerExits, ServerHangs, ServerGoesOn, ServerBecomes
  <2>2. server[s] \in ServerRecord /\ UNCHANGED <<slotLock, slotServer, backoff, agent>>
    BY <1>1, <1>6 DEF LspTypes, ServerExits, ServerHangs, ServerGoesOn, ServerBecomes, SlotsKept
  <2>3. server' \in [LspServers -> ServerRecord]
    BY <1>1, <2>1, <2>2 DEF LspTypes, ServerRecord
  <2>4. \A t \in LspServers : /\ server'[t].key = server[t].key /\ server'[t].putDown = server[t].putDown
                              /\ server'[t].state = "none" => server[t].state = "none"
    BY <1>1, <2>1, <2>2 DEF LspTypes, ServerRecord
  <2>. QED
    BY <1>3, <2>2, <2>3, <2>4
<1>7. ASSUME NEW s \in LspServers, ReaderFails(s) PROVE LspInv'
  <2>1. server[s] \in ServerRecord
    BY <1>1 DEF LspTypes
  <2>2. [server[s] EXCEPT !.dead = TRUE] \in ServerRecord
    BY <2>1 DEF ServerRecord
  <2>. QED
    BY <1>4, <1>7, <2>1, <2>2 DEF ReaderFails, SlotsKept, ServerRecord
<1>. QED
  BY <1>2, <1>5, <1>6, <1>7

LEMMA LspInitInv == LanguageServersInit => LspInv
BY LspAssumption DEF LanguageServersInit, LspInv, LspTypes, AgentsHold, ToolHolds, StopHolds, SlotsHold,
   NoneIsFree, AtStop, NoServer, ServerRecord, NoAgent, AgentRecord, Agents

LEMMA LspNextInv == LspInv /\ [LanguageServersNext]_lspVars => LspInv'
<1>. SUFFICES ASSUME LspInv, [LanguageServersNext]_lspVars PROVE LspInv'
  OBVIOUS
<1>1. CASE UNCHANGED lspVars
  BY <1>1 DEF lspVars, LspInv, LspTypes, AgentsHold, ToolHolds, StopHolds, SlotsHold, NoneIsFree
<1>2. LspTools \subseteq Agents /\ Reaper \in Agents
  BY DEF Agents
<1>3. ASSUME NEW a \in Agents, StopNextStep(a) PROVE LspInv'
  BY <1>3, StopAsksKeeps, StopKillsKeeps DEF StopNextStep
<1>4. ASSUME NEW a \in LspTools, ToolNext(a) PROVE LspInv'
  BY <1>2, <1>3, <1>4, ToolLocksKeeps, RoomNextKeeps, ServerStartsKeeps, ToolEndsKeep DEF ToolNext, AgentGoesOn
<1>5. ASSUME ReaperNext PROVE LspInv'
  BY <1>2, <1>3, <1>5, ReaperLooksKeeps, SweepsKeep DEF ReaperNext
<1>6. ASSUME NEW a \in Agents, StopperNext(a) \/ SweepBegins(a) \/ AgentCancelled(a) PROVE LspInv'
  BY <1>3, <1>6, SweepsKeep, CancelledKeeps DEF StopperNext
<1>. QED
  BY <1>1, <1>2, <1>4, <1>5, <1>6, ToolWantsKeeps, ServersKeep DEF LanguageServersNext

\* Whoever starts or stops a server holds the lock of its slot, and the server is the
\* one of that slot (lsp/mod.rs Pool::client, make_room, stop_idle, stop_all).
THEOREM LspInvariant == LanguageServersSpec => []LspInv
BY LspInitInv, LspNextInv, PTL DEF LanguageServersSpec

\* The slots of the pool and its servers agree, for any number of slots, servers,
\* tools and cancellations.
THEOREM ServersHold == LanguageServersSpec => []ServersAgree
<1>1. LspInv => ServersAgree
  BY DEF LspInv, AgentsHold, ToolHolds, StopHolds, SlotsHold, ServersAgree
<1>. QED
  BY <1>1, LspInvariant, PTL

=============================================================================
