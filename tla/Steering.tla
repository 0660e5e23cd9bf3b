------------------------------ MODULE Steering ------------------------------
(***************************************************************************)
(* Pausing, steering and rewinding one running task: steering.rs, the      *)
(* requests of engine.rs that use it, and await_steering, where the task   *)
(* parks at its next boundary.                                             *)
(*                                                                         *)
(* The job record (status) has its own lock and the steer state another;   *)
(* the paused flag is an atomic that is read under neither.  A pause       *)
(* holds the record lock around the steer lock, a resume takes one after   *)
(* the other.  A step is one critical section.                             *)
(***************************************************************************)
EXTENDS Naturals, FiniteSets

CONSTANTS
    Requests,   \* concurrent requests
    Texts,      \* steering instructions; each is given once
    Files,
    NoText, Absent

ASSUME SteeringAssumption == NoText \notin Texts

VARIABLES
    \* the job record
    status, cancelled,
    \* SteerControl
    paused,      \* SteerControl::paused
    permit,      \* the permit SteerControl::notify stores
    parked,      \* SteerState::parked
    instruction, \* SteerState::instruction
    notes,       \* SteerState::file_notes, the files noted
    rewound,     \* is SteerState::rewind_note set?
    hashes,      \* SteerState::pause_hashes, Absent where the map has no entry
    \* the task
    pc,
    current,     \* the hashes read when the task wakes
    observed,    \* ToolExecutor::observed
    reported,    \* files the last steering note said were changed
    heard,       \* instructions that entered the conversation
    \* the workspace
    disk,        \* who wrote each file last
    changed,     \* files with a checkpoint that is not restored
    \* requests
    rpc, rtext,
    given        \* instructions handed to a request

steerVars  == <<paused, parked, instruction, notes, rewound, hashes>>
taskVars   == <<pc, permit, current, observed, reported, heard>>
fileVars   == <<disk, changed>>
clientVars == <<rpc, rtext, given>>
vars == <<status, cancelled, steerVars, taskVars, fileVars, clientVars>>

Versions == {"base", "task", "user"}

\* Where the task is: working, inside await_steering, or over.
Awaiting == {"park", "hashes", "test", "arm", "wait", "refresh", "consume", "leave"}

TypeOK ==
    /\ status \in {"queued", "running", "paused", "cancelling", "ended"}
    /\ cancelled \in BOOLEAN
    /\ paused \in BOOLEAN /\ permit \in BOOLEAN /\ parked \in BOOLEAN
    /\ instruction \in Texts \cup {NoText}
    /\ notes \subseteq Files
    /\ rewound \in BOOLEAN
    /\ hashes \in [Files -> Versions \cup {Absent}]
    /\ pc \in {"new", "work", "done"} \cup Awaiting
    /\ current \in [Files -> Versions \cup {Absent}]
    /\ observed \in [Files -> Versions \cup {Absent}]
    /\ reported \subseteq Files
    /\ heard \subseteq Texts
    /\ disk \in [Files -> Versions]
    /\ changed \subseteq Files
    /\ rpc \in [Requests -> {"idle", "pause", "resume", "steer", "edit", "note"}]
    /\ rtext \in [Requests -> Texts \cup {NoText}]
    /\ given \subseteq Texts

Nothing == [f \in Files |-> Absent]

Init ==
    /\ status = "queued" /\ cancelled = FALSE
    /\ paused = FALSE /\ permit = FALSE /\ parked = FALSE
    /\ instruction = NoText /\ notes = {} /\ rewound = FALSE
    /\ hashes = Nothing
    /\ pc = "new" /\ current = Nothing /\ observed = Nothing
    /\ reported = {} /\ heard = {}
    /\ disk = [f \in Files |-> "base"] /\ changed = {}
    /\ rpc = [r \in Requests |-> "idle"]
    /\ rtext = [r \in Requests |-> NoText]
    /\ given = {}

-----------------------------------------------------------------------------
(* Waking the task                                                         *)

\* Mutant: Notify::notify_waiters, which leaves no permit.
WakeWaiters == pc' = (IF pc = "wait" THEN "test" ELSE pc) /\ UNCHANGED permit

\* Notify::notify_one wakes the waiting task or leaves a permit for the next
\* wait.
Wake ==
    IF pc = "wait" THEN pc' = "test" /\ UNCHANGED permit
    ELSE permit' = TRUE /\ UNCHANGED pc

-----------------------------------------------------------------------------
(* Requests                                                                *)

\* Engine::pause_job: a task that is cancelled or over is refused, ...
PauseCheck(r) ==
    /\ rpc[r] = "idle"
    /\ ~cancelled /\ status # "ended"
    /\ rpc' = [rpc EXCEPT ![r] = "pause"]
    /\ UNCHANGED <<status, cancelled, steerVars, taskVars, fileVars, rtext, given>>

\* Mutant: a pause starts with an empty steer state.
PauseClears(r) ==
    /\ rpc[r] = "pause"
    /\ status \in {"running", "paused"}
    /\ paused' = TRUE /\ hashes' = Nothing
    /\ status' = "paused"
    /\ WakeWaiters
    /\ instruction' = NoText
    /\ rpc' = [rpc EXCEPT ![r] = "idle"]
    /\ UNCHANGED <<cancelled, parked, notes, rewound, current,
                   observed, reported, heard, fileVars, rtext, given>>

\* ... then the status is checked and changed under the record lock, with the
\* steer lock inside it.  The map of hashes it passes is empty.
Pause(r) ==
    /\ rpc[r] = "pause"
    /\ status \in {"running", "paused"}
    /\ paused' = TRUE /\ hashes' = Nothing
    /\ status' = "paused"
    /\ WakeWaiters
    /\ rpc' = [rpc EXCEPT ![r] = "idle"]
    /\ UNCHANGED <<cancelled, parked, instruction, notes, rewound, current,
                   observed, reported, heard, fileVars, rtext, given>>

PauseRefused(r) ==
    /\ rpc[r] = "pause"
    /\ status \notin {"running", "paused"}
    /\ rpc' = [rpc EXCEPT ![r] = "idle"]
    /\ UNCHANGED <<status, cancelled, steerVars, taskVars, fileVars, rtext, given>>

\* Engine::resume_job, first the steer lock, ...
ResumeSteer(r) ==
    /\ rpc[r] = "idle"
    /\ paused
    /\ paused' = FALSE
    /\ Wake
    /\ rpc' = [rpc EXCEPT ![r] = "resume"]
    /\ UNCHANGED <<status, cancelled, parked, instruction, notes, rewound, hashes,
                   current, observed, reported, heard, fileVars, rtext, given>>

\* ... then the record lock.
ResumeRecord(r) ==
    /\ rpc[r] = "resume"
    /\ status' = IF status = "paused" THEN "running" ELSE status
    /\ rpc' = [rpc EXCEPT ![r] = "idle"]
    /\ UNCHANGED <<cancelled, steerVars, taskVars, fileVars, rtext, given>>

\* Engine::steer_job: the flag is read before the steer lock is taken.
SteerCheck(r, t) ==
    /\ rpc[r] = "idle"
    /\ paused
    /\ t \notin given
    /\ given' = given \cup {t}
    /\ rpc' = [rpc EXCEPT ![r] = "steer"]
    /\ rtext' = [rtext EXCEPT ![r] = t]
    /\ UNCHANGED <<status, cancelled, steerVars, taskVars, fileVars>>

\* A newer instruction replaces one that was not delivered yet.  With an
\* edited path the request goes on to note the edit.
SteerSet(r, edited) ==
    /\ rpc[r] = "steer"
    /\ instruction' = rtext[r]
    /\ rpc' = [rpc EXCEPT ![r] = IF edited THEN "edit" ELSE "idle"]
    /\ rtext' = [rtext EXCEPT ![r] = NoText]
    /\ UNCHANGED <<status, cancelled, paused, parked, notes, rewound, hashes,
                   taskVars, fileVars, given>>

\* SteerControl::note_edit reads the flag before it takes the lock; the
\* request fails when the task is no longer paused.
NoteCheck(r) ==
    /\ rpc[r] \in {"idle", "edit"}
    /\ rpc[r] = "idle" => paused
    /\ rpc' = [rpc EXCEPT ![r] = IF paused THEN "note" ELSE "idle"]
    /\ UNCHANGED <<status, cancelled, steerVars, taskVars, fileVars, rtext, given>>

NoteEdit(r, f) ==
    /\ rpc[r] = "note"
    /\ notes' = notes \cup {f}
    /\ rpc' = [rpc EXCEPT ![r] = "idle"]
    /\ UNCHANGED <<status, cancelled, paused, parked, instruction, rewound, hashes,
                   taskVars, fileVars, rtext, given>>

\* checkpoint::restore puts back every file the task changed, unless someone
\* else changed one of them since.
Restore ==
    /\ \A f \in changed : disk[f] # "user"
    /\ disk' = [f \in Files |-> IF f \in changed THEN "base" ELSE disk[f]]
    /\ changed' = {}

\* Engine::rewind_job of a running native task: SteerControl::rewind restores
\* the files while it holds the steer lock.
Rewind(r) ==
    /\ rpc[r] = "idle"
    /\ paused /\ parked
    /\ Restore
    /\ rewound' = TRUE
    /\ UNCHANGED <<status, cancelled, paused, parked, instruction, notes, hashes,
                   taskVars, clientVars>>

\* Engine::request_cancel_if: the status of a paused task stays "paused".
Cancel ==
    /\ status \notin {"queued", "ended"}
    /\ ~cancelled
    /\ cancelled' = TRUE
    /\ status' = IF status = "running" THEN "cancelling" ELSE status
    /\ UNCHANGED <<steerVars, taskVars, fileVars, clientVars>>

\* The user changes a file in an editor.
UserEdit(f) ==
    /\ disk[f] # "user"
    /\ disk' = [disk EXCEPT ![f] = "user"]
    /\ UNCHANGED <<status, cancelled, steerVars, taskVars, changed, clientVars>>

-----------------------------------------------------------------------------
(* The task                                                                *)

\* The job leaves the queue (Engine::run).
TaskBegin ==
    /\ pc = "new"
    /\ pc' = "work"
    /\ status' = "running"
    /\ UNCHANGED <<cancelled, steerVars, permit, current, observed, reported, heard,
                   fileVars, clientVars>>

\* read_file remembers the hash it saw.
TaskRead(f) ==
    /\ pc = "work"
    /\ observed' = [observed EXCEPT ![f] = disk[f]]
    /\ UNCHANGED <<status, cancelled, steerVars, pc, permit, current, reported, heard,
                   fileVars, clientVars>>

\* A process the task started may have changed any file: what was seen is
\* forgotten.
TaskForgets ==
    /\ pc = "work"
    /\ observed' = Nothing
    /\ UNCHANGED <<status, cancelled, steerVars, pc, permit, current, reported, heard,
                   fileVars, clientVars>>

\* A change is refused when the file is not as the task last saw it; an edit
\* by its text or a patch needs no reading before.
TaskWrite(f) ==
    /\ pc = "work"
    /\ observed[f] \in {Absent, disk[f]}
    /\ disk' = [disk EXCEPT ![f] = "task"]
    /\ observed' = [observed EXCEPT ![f] = "task"]
    /\ changed' = changed \cup {f}
    /\ UNCHANGED <<status, cancelled, steerVars, pc, permit, current, reported, heard,
                   clientVars>>

\* At a boundary of a task that is not paused the next turn or tool call
\* begins at once.
TurnBegins ==
    /\ pc = "work"
    /\ ~cancelled /\ ~paused
    /\ reported' = {}
    /\ UNCHANGED <<status, cancelled, steerVars, pc, permit, current, observed, heard,
                   fileVars, clientVars>>

\* At a boundary of a paused task: await_steering.
TaskStops ==
    /\ pc = "work"
    /\ ~cancelled /\ paused
    /\ pc' = "park"
    /\ UNCHANGED <<status, cancelled, steerVars, permit, current, observed, reported,
                   heard, fileVars, clientVars>>

TaskParks ==
    /\ pc = "park"
    /\ parked' = TRUE
    /\ pc' = "hashes"
    /\ UNCHANGED <<status, cancelled, paused, instruction, notes, rewound, hashes,
                   permit, current, observed, reported, heard, fileVars, clientVars>>

\* Mutant: the hashes are those of the files at the pause, not the ones the
\* task saw.
HashesOfDisk ==
    /\ pc = "hashes"
    /\ hashes' = [f \in Files |-> IF observed[f] = Absent THEN Absent ELSE disk[f]]
    /\ pc' = "test"
    /\ UNCHANGED <<status, cancelled, paused, parked, instruction, notes, rewound,
                   permit, current, observed, reported, heard, fileVars, clientVars>>

\* SteerControl::ensure_pause_hashes keeps a map that is not empty.
TaskHashes ==
    /\ pc = "hashes"
    /\ hashes' = IF hashes = Nothing THEN observed ELSE hashes
    /\ pc' = "test"
    /\ UNCHANGED <<status, cancelled, paused, parked, instruction, notes, rewound,
                   permit, current, observed, reported, heard, fileVars, clientVars>>

\* The condition of the loop is read without a lock.
TaskTests ==
    /\ pc = "test"
    /\ pc' = IF paused THEN "arm" ELSE "refresh"
    /\ UNCHANGED <<status, cancelled, steerVars, permit, current, observed, reported,
                   heard, fileVars, clientVars>>

\* Notify::notified: a stored permit is taken at once, otherwise the task
\* waits, or stops if it is cancelled.
TaskArms ==
    /\ pc = "arm"
    /\ permit \/ ~cancelled
    /\ pc' = IF permit THEN "test" ELSE "wait"
    /\ permit' = FALSE
    /\ UNCHANGED <<status, cancelled, steerVars, current, observed, reported, heard,
                   fileVars, clientVars>>

\* The files the task has seen are read again.
TaskRefreshes ==
    /\ pc = "refresh"
    /\ current' = [f \in Files |-> IF observed[f] = Absent THEN Absent ELSE disk[f]]
    /\ pc' = "consume"
    /\ UNCHANGED <<status, cancelled, steerVars, permit, observed, reported, heard,
                   fileVars, clientVars>>

\* SteerControl::consume_resume takes every note and compares the hashes.
TaskConsumes ==
    /\ pc = "consume"
    /\ heard' = heard \cup ({instruction} \ {NoText})
    /\ reported' = {f \in Files : hashes[f] # Absent /\ hashes[f] # current[f]}
    /\ instruction' = NoText /\ notes' = {} /\ rewound' = FALSE
    /\ hashes' = Nothing
    /\ pc' = "leave"
    /\ UNCHANGED <<status, cancelled, paused, parked, permit, current, observed,
                   fileVars, clientVars>>

\* After the note is on the tape the Parked guard is dropped.
TaskLeaves ==
    /\ pc = "leave"
    /\ parked' = FALSE
    /\ current' = Nothing
    /\ pc' = "work"
    /\ UNCHANGED <<status, cancelled, paused, instruction, notes, rewound, hashes,
                   permit, observed, reported, heard, fileVars, clientVars>>

\* The task is over: it answered, failed, or an event could not be stored
\* (agent.paused, stored after the hashes, or agent.steered).  The guard is
\* dropped on the way out.
TaskEnds ==
    /\ pc \in {"work", "hashes", "leave"}
    /\ pc' = "done"
    /\ parked' = FALSE
    /\ status' = "ended"
    /\ UNCHANGED <<cancelled, paused, instruction, notes, rewound, hashes, permit,
                   current, observed, reported, heard, fileVars, clientVars>>

\* Mutant: cancelling is only noticed at a boundary.
StopsAtBoundary ==
    /\ cancelled
    /\ pc = "work"
    /\ pc' = "done"
    /\ parked' = FALSE
    /\ status' = "ended"
    /\ UNCHANGED <<cancelled, paused, instruction, notes, rewound, hashes, permit,
                   current, observed, reported, heard, fileVars, clientVars>>

\* A cancelled task ends at its next boundary or while it waits.
TaskCancelled ==
    /\ cancelled
    /\ pc \in {"work", "wait", "arm"}
    /\ pc' = "done"
    /\ parked' = FALSE
    /\ status' = "ended"
    /\ UNCHANGED <<cancelled, paused, instruction, notes, rewound, hashes, permit,
                   current, observed, reported, heard, fileVars, clientVars>>

-----------------------------------------------------------------------------
Request(r) ==
    \/ PauseCheck(r) \/ ResumeSteer(r)
    \/ \E t \in Texts : SteerCheck(r, t)
    \/ NoteCheck(r) \/ Rewind(r)

RequestStep(r) ==
    \/ Pause(r) \/ PauseRefused(r) \/ ResumeRecord(r)
    \/ \E edited \in BOOLEAN : SteerSet(r, edited)
    \/ \E f \in Files : NoteEdit(r, f)

\* What the task does by itself once it is at a boundary.
TaskStep ==
    \/ TaskStops \/ TaskParks \/ TaskHashes \/ TaskTests \/ TaskArms
    \/ TaskRefreshes \/ TaskConsumes \/ TaskLeaves \/ TaskCancelled

Working ==
    \/ TaskBegin \/ TurnBegins \/ TaskForgets \/ TaskEnds
    \/ \E f \in Files : TaskRead(f) \/ TaskWrite(f)

Next ==
    \/ \E r \in Requests : Request(r) \/ RequestStep(r)
    \/ TaskStep \/ Working
    \/ Cancel
    \/ \E f \in Files : UserEdit(f)

Spec == Init /\ [][Next]_vars

\* The task is a future of the runtime, which polls it whenever it is ready,
\* and a request that has begun runs to its end.  Waiting is a select! that
\* picks a ready branch at random, so pauses and resumes without end do not
\* pass over the cancelled branch for ever: strong fairness.
FairSpec ==
    /\ Spec
    /\ WF_vars(TaskStep) /\ SF_vars(TaskCancelled)
    /\ \A r \in Requests : WF_vars(RequestStep(r))
=============================================================================
