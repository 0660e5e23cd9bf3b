------------------------------ MODULE Background ------------------------------
(***************************************************************************)
(* Background processes (background.rs): a registry under one lock, a      *)
(* worker per process, stops, the reservation a rewind takes and the       *)
(* shutdown.  Workers and callers run on several threads: a step is what   *)
(* happens under one lock or between two of them.                          *)
(***************************************************************************)
EXTENDS Naturals, FiniteSets

CONSTANTS
    Procs,          \* the processes that may be started
    ProcNames,      \* names a user gives them
    ProcPlaces,     \* workspaces
    MaxProcs,       \* at most so many are active
    MaxPerPlace,    \* and so many in one workspace
    MaxProcCrashes, \* bound: stops of the program
    ProcFaults      \* may the database refuse a write?

ASSUME BackgroundAssumption ==
    /\ ProcNames # {} /\ ProcPlaces # {}
    /\ MaxProcs \in Nat \ {0} /\ MaxPerPlace \in Nat \ {0}
    /\ MaxProcCrashes \in Nat
    /\ ProcFaults \in BOOLEAN

VARIABLES
    proc,           \* Running::record, with the worker's place
    pids,           \* the processes that run by now
    procCancelled,  \* those whose token is cancelled
    procRow,        \* the stored status
    procListed,     \* the processes in State::tasks
    reservedPlaces, \* State::reserved_workspaces
    procsClosing,   \* State::closing
    procsDown,      \* wait_shutdown is over
    stopping,       \* where a stop of the process is
    procCrashes,
    \* what happened
    unwritten       \* processes whose end could not be stored

procVars == <<proc, pids, procCancelled, procRow, procListed, reservedPlaces, procsClosing,
              procsDown, stopping, procCrashes, unwritten>>

ProcEnded == {"COMPLETED", "FAILED", "CANCELLED"}
Stoppable == {"STARTING", "STOPPING"}

NoProc == [at |-> "none", status |-> "STARTING",
           place |-> CHOOSE w \in ProcPlaces : TRUE, name |-> CHOOSE n \in ProcNames : TRUE]

ProcRecord == [at : {"none", "running", "storing", "closing", "finished"},
               status : Stoppable \cup ProcEnded,
               place : ProcPlaces, name : ProcNames]

BackgroundTypes ==
    /\ proc \in [Procs -> ProcRecord]
    /\ pids \subseteq Procs /\ procCancelled \subseteq Procs
    /\ procRow \in [Procs -> {"none", "RUNNING", "INTERRUPTED"} \cup Stoppable \cup ProcEnded]
    /\ procListed \subseteq Procs
    /\ reservedPlaces \subseteq ProcPlaces
    /\ procsClosing \in BOOLEAN /\ procsDown \in BOOLEAN
    /\ stopping \in [Procs -> {"none", "marking", "waiting"}]
    /\ procCrashes \in 0 .. MaxProcCrashes
    /\ unwritten \subseteq Procs

BackgroundInit ==
    /\ proc = [p \in Procs |-> NoProc]
    /\ pids = {} /\ procCancelled = {}
    /\ procRow = [p \in Procs |-> "none"]
    /\ procListed = {} /\ reservedPlaces = {}
    /\ procsClosing = FALSE /\ procsDown = FALSE
    /\ stopping = [p \in Procs |-> "none"]
    /\ procCrashes = 0 /\ unwritten = {}

Alive == {p \in procListed : proc[p].at # "finished"}
AliveAt(w) == {p \in Alive : proc[p].place = w}

ProcOnly == UNCHANGED <<procListed, reservedPlaces, procsClosing, procsDown, stopping, procCrashes>>
RegistryOnly == UNCHANGED <<proc, pids, procCancelled, procRow, procCrashes, unwritten>>

-----------------------------------------------------------------------------
(* Starting and running                                                    *)

\* Mutant: a reserved workspace is not looked at.
PlaceOpenAlways(w) == ~procsClosing

PlaceOpen(w) == ~procsClosing /\ w \notin reservedPlaces

\* start_inner, under the registry's lock; what finished is forgotten first.
ProcStarts(p, w, n) ==
    /\ proc[p].at = "none"
    /\ PlaceOpen(w)
    /\ Cardinality(Alive) < MaxProcs /\ Cardinality(AliveAt(w)) < MaxPerPlace
    /\ \A q \in AliveAt(w) : proc[q].name # n
    /\ proc' = [proc EXCEPT ![p] = [NoProc EXCEPT !.at = "running", !.place = w, !.name = n]]
    /\ procRow' = [procRow EXCEPT ![p] = "STARTING"]
    /\ procListed' = Alive \cup {p}
    /\ UNCHANGED <<pids, procCancelled, reservedPlaces, procsClosing, procsDown, stopping,
                   procCrashes, unwritten>>

ProcHasPid(p) ==
    /\ proc[p].at = "running" /\ p \notin pids
    /\ pids' = pids \cup {p}
    /\ UNCHANGED <<proc, procCancelled, procRow, unwritten>> /\ ProcOnly

\* snapshot
Shown(p) == IF proc[p].status = "STARTING" /\ p \in pids THEN "RUNNING" ELSE proc[p].status

\* Every half second new output is stored; an error ends the worker's run.
ProcReports(p) ==
    /\ proc[p].at = "running"
    /\ procRow' = [procRow EXCEPT ![p] = Shown(p)]
    /\ UNCHANGED <<proc, pids, procCancelled, unwritten>> /\ ProcOnly

\* The worker's last resort for every error: FAILED, stored if that is possible.
Fails(p) ==
    /\ proc' = [proc EXCEPT ![p].status = "FAILED", ![p].at = "closing"]
    /\ procCancelled' = procCancelled \cup {p}
    /\ \/ procRow' = [procRow EXCEPT ![p] = "FAILED"] /\ UNCHANGED unwritten
       \/ ProcFaults /\ unwritten' = unwritten \cup {p} /\ UNCHANGED procRow
    /\ UNCHANGED pids /\ ProcOnly

ProcBreaks(p) == ProcFaults /\ proc[p].at \in {"running", "storing"} /\ Fails(p)

\* The process is over, by itself or because of its token, and its record says so.
ProcExits(p) ==
    /\ proc[p].at = "running"
    /\ \E s \in ProcEnded :
          /\ s = "CANCELLED" => p \in procCancelled
          /\ proc' = [proc EXCEPT ![p].status = s, ![p].at = "storing"]
    /\ UNCHANGED <<pids, procCancelled, procRow, unwritten>> /\ ProcOnly

\* The token ends the process, if it does not end by itself.
CancelledProcExits(p) == p \in procCancelled /\ ProcExits(p)

ProcEndStored(p) ==
    /\ proc[p].at = "storing"
    /\ procRow' = [procRow EXCEPT ![p] = proc[p].status]
    /\ proc' = [proc EXCEPT ![p].at = "closing"]
    /\ UNCHANGED <<pids, procCancelled, unwritten>> /\ ProcOnly

\* Running::finished, and whoever waits is woken.
ProcFinishes(p) ==
    /\ proc[p].at = "closing"
    /\ proc' = [proc EXCEPT ![p].at = "finished"]
    /\ UNCHANGED <<pids, procCancelled, procRow, unwritten>> /\ ProcOnly

-----------------------------------------------------------------------------
(* Stops, reservations, the shutdown and a stop of the program             *)

StopsProc(p) ==
    /\ p \in Alive /\ stopping[p] = "none"
    /\ stopping' = [stopping EXCEPT ![p] = "marking"]
    /\ RegistryOnly /\ UNCHANGED <<procListed, reservedPlaces, procsClosing, procsDown>>

\* Mutant: every status is overwritten.
MarksAll(p) == TRUE

\* What has ended keeps its status.
Marks(p) == proc[p].status = "STARTING"

\* Between the look at finished and this the process may end.
StopMarks(p) ==
    /\ stopping[p] = "marking"
    /\ proc' = [proc EXCEPT ![p].status = IF Marks(p) THEN "STOPPING" ELSE @]
    /\ procCancelled' = procCancelled \cup {p}
    /\ stopping' = [stopping EXCEPT ![p] = "waiting"]
    /\ UNCHANGED <<pids, procRow, procListed, reservedPlaces, procsClosing, procsDown, procCrashes,
                   unwritten>>

StopReturns(p) ==
    /\ stopping[p] = "waiting" /\ proc[p].at = "finished"
    /\ stopping' = [stopping EXCEPT ![p] = "none"]
    /\ RegistryOnly /\ UNCHANGED <<procListed, reservedPlaces, procsClosing, procsDown>>

\* reserve_idle_workspace, for a rewind; dropping the guard gives it back.
PlaceReserved(w) ==
    /\ AliveAt(w) = {} /\ w \notin reservedPlaces
    /\ reservedPlaces' = reservedPlaces \cup {w}
    /\ RegistryOnly /\ UNCHANGED <<procListed, procsClosing, procsDown, stopping>>

PlaceReleased(w) ==
    /\ w \in reservedPlaces
    /\ reservedPlaces' = reservedPlaces \ {w}
    /\ RegistryOnly /\ UNCHANGED <<procListed, procsClosing, procsDown, stopping>>

\* begin_shutdown
ProcsClose ==
    /\ ~procsClosing
    /\ procsClosing' = TRUE
    /\ procCancelled' = procCancelled \cup procListed
    /\ UNCHANGED <<proc, pids, procRow, procListed, reservedPlaces, procsDown, stopping, procCrashes,
                   unwritten>>

\* wait_shutdown
ProcsAreDown ==
    /\ procsClosing /\ ~procsDown
    /\ Alive = {}
    /\ procsDown' = TRUE
    /\ RegistryOnly /\ UNCHANGED <<procListed, reservedPlaces, procsClosing, stopping>>

\* The program stops, and starts again: recover_background.
ProcsCrash ==
    /\ procCrashes < MaxProcCrashes
    /\ procCrashes' = procCrashes + 1
    /\ proc' = [p \in Procs |-> IF proc[p].at = "none" THEN proc[p]
                                ELSE [proc[p] EXCEPT !.at = "finished"]]
    /\ procRow' = [p \in Procs |-> IF procRow[p] \in Stoppable \cup {"RUNNING"}
                                   THEN "INTERRUPTED" ELSE procRow[p]]
    /\ procListed' = {} /\ reservedPlaces' = {}
    /\ procsClosing' = FALSE /\ procsDown' = FALSE
    /\ stopping' = [p \in Procs |-> "none"]
    /\ UNCHANGED <<pids, procCancelled, unwritten>>

\* What the worker goes on with once its process is over.
WorkerNext(p) == ProcEndStored(p) \/ ProcFinishes(p)
StopNext(p) == StopMarks(p) \/ StopReturns(p)

BackgroundNext ==
    \/ ProcsClose \/ ProcsAreDown \/ ProcsCrash
    \/ \E w \in ProcPlaces : PlaceReserved(w) \/ PlaceReleased(w)
    \/ \E p \in Procs :
          \/ \E w \in ProcPlaces, n \in ProcNames : ProcStarts(p, w, n)
          \/ ProcHasPid(p) \/ ProcReports(p) \/ ProcExits(p) \/ ProcBreaks(p)
          \/ WorkerNext(p) \/ StopsProc(p) \/ StopNext(p)

BackgroundSpec == BackgroundInit /\ [][BackgroundNext]_procVars

-----------------------------------------------------------------------------
(* What background processes promise                                       *)

\* No process lives in a workspace that is reserved for a rewind, the limits and
\* names hold for those that live, a shutdown is over when none does, and one that
\* is over is stored so, unless it could not be (background.rs start_inner,
\* reserve_idle_workspace, wait_shutdown).
BackgroundAgrees ==
    /\ BackgroundTypes
    /\ \A w \in reservedPlaces : AliveAt(w) = {}
    /\ Cardinality(Alive) <= MaxProcs
    /\ \A w \in ProcPlaces : Cardinality(AliveAt(w)) <= MaxPerPlace
    /\ \A p, q \in Alive : p # q => <<proc[p].place, proc[p].name>> # <<proc[q].place, proc[q].name>>
    /\ procsDown => Alive = {}
    /\ \A p \in Procs : proc[p].at \in {"closing", "finished"} /\ p \notin unwritten =>
          procRow[p] \in ProcEnded \cup {"INTERRUPTED"}

\* Stop must not rewrite COMPLETED or FAILED as CANCELLED (background.rs:392): a
\* status that says how a process ended changes only to FAILED, and a stored one
\* never.
EndsAreKept == [][\A p \in Procs :
    /\ proc[p].status \in ProcEnded => proc'[p].status \in {proc[p].status, "FAILED"}
    /\ procRow[p] \in ProcEnded => procRow'[p] = procRow[p]]_procVars

\* A stop returns, and a shutdown gets past the background processes.
ProcStopsReturn ==
    /\ \A p \in Procs : stopping[p] # "none" ~> stopping[p] = "none"
    /\ procsClosing ~> procsDown \/ ~procsClosing
=============================================================================
