--------------------------- MODULE SteeringProps ---------------------------
(* What pausing and steering a task promise. *)
EXTENDS Steering

-----------------------------------------------------------------------------
(* Safety                                                                  *)

\* A pause that is rejected because the task is still queued leaves no mark
\* that would park it later (engine.rs pause_job, tests/live_steering.rs).
QueuedIsUnmarked == status = "queued" => ~paused

\* No wake-up is lost: a task waits only while it is paused, although the
\* loop reads the flag without a lock before it waits (engine.rs
\* await_steering, steering.rs resume).
WaitsOnlyPaused == pc = "wait" => paused

\* Files are restored only while the task is inside await_steering, never
\* under a tool call (steering.rs rewind).
RewindsParked == [][(\E r \in Requests : Rewind(r)) => pc \in Awaiting]_vars

\* The flag parks and wakes the right task: nothing else does.
ParkingAgrees == QueuedIsUnmarked /\ WaitsOnlyPaused

\* An accepted instruction is kept over pauses, resumes, rewinds and boundaries
\* until it enters the conversation or a newer one replaces it (steering.rs
\* set_instruction, take_resume_messages).
InstructionsKept ==
    [][\A t \in Texts : (instruction = t /\ instruction' # t)
                             => (t \in heard' \/ instruction' # NoText)]_vars

\* When the task wakes it is told of exactly those files that are no longer as
\* it last saw them, unless another pause has emptied the hashes meanwhile
\* (steering.rs ensure_pause_hashes, consume_resume; engine.rs pause_job).
EditsTold ==
    [][TaskConsumes /\ hashes # Nothing =>
          reported' = {f \in Files : observed[f] \notin {Absent, current[f]}}]_vars

\* Files are restored only while the task is inside await_steering, and when it
\* collects its notes there it is told of exactly the files that differ, as it read
\* them on waking, from what it last saw, unless another pause has emptied the
\* hashes.  A rewind after it has collected them is not covered: RewindNoticed is
\* about that one (steering.rs rewind, consume_resume; engine.rs await_steering).
ChangesReported == RewindsParked /\ EditsTold

\* The hashes are those of the files the task has seen, and of this pause.
HashesOfPause ==
    /\ pc \in {"new", "work", "park", "hashes", "leave"} => hashes = Nothing
    /\ pc \in {"test", "arm", "wait", "refresh", "consume"} => hashes \in {Nothing, observed}

\* What TLAPS proves these properties from.
SteeringInv ==
    /\ TypeOK
    /\ parked <=> pc \in Awaiting \ {"park"}
    /\ status = "queued" <=> pc = "new"
    /\ pc = "new" => ~paused
    /\ pc = "wait" => paused
    /\ pc = "arm" => paused \/ permit
    /\ HashesOfPause
    /\ \A r \in Requests : rpc[r] = "steer" => rtext[r] \in Texts

-----------------------------------------------------------------------------
(* What the documents say and the code does not do                         *)

\* "The running task receives the steering rewind note itself": it does not
\* work on restored files before it has the note.
RewindNoticed == [][TurnBegins \/ TaskLeaves => ~rewound]_vars

-----------------------------------------------------------------------------
(* Liveness                                                                *)

\* A task that is resumed goes on, unless it is paused again (engine.rs
\* await_steering).
ResumedGoesOn == ~paused ~> (paused \/ pc \notin Awaiting)

\* A cancelled task ends, also while it is paused (engine.rs await_steering).
CancelledEndsTask == cancelled ~> pc = "done"
=============================================================================
