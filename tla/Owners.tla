-------------------------------- MODULE Owners --------------------------------
(***************************************************************************)
(* The jobs one connection owns (engine/owner.rs, control/owned.rs): the   *)
(* gateway and the ACP server submit their jobs over a private connection, *)
(* and when it ends, in whatever way, its jobs end too.                    *)
(*                                                                         *)
(* serve is one task: it reads a frame, starts a job, replies, and in the  *)
(* end closes the owner.  The jobs run beside it, the client may leave at  *)
(* any time, and the server may abort the task.                            *)
(***************************************************************************)
EXTENDS Naturals, FiniteSets

CONSTANTS
    OwnJobs,     \* jobs the client may submit
    MaxOwned,    \* one connection submits at most so many
    OwnFaults    \* may the database refuse an access?

ASSUME OwnersAssumption == MaxOwned \in Nat /\ OwnFaults \in BOOLEAN

VARIABLES
    connection,   \* where serve is
    acknowledges, \* did the loop end without an error?
    ownCancelled, \* Owned::cancel
    ownedJobs,    \* Owned::jobs
    ownJob,       \* the jobs: their place in the engine
    jobStopped,   \* jobs whose own token is cancelled
    closer        \* the future of close for each job

ownerVars == <<connection, acknowledges, ownCancelled, ownedJobs, ownJob, jobStopped, closer>>

\* An orphan has a row and is nowhere in memory.
LiveJob == {"queued", "running"}
ConnectionOver == {"closed", "failed", "aborted"}

OwnerTypes ==
    /\ connection \in {"idle", "starting", "replying", "closing"} \cup ConnectionOver
    /\ acknowledges \in BOOLEAN /\ ownCancelled \in BOOLEAN
    /\ ownedJobs \subseteq OwnJobs /\ jobStopped \subseteq OwnJobs
    /\ ownJob \in [OwnJobs -> {"none", "orphan", "over", "deleted"} \cup LiveJob]
    /\ closer \in [OwnJobs -> {"none", "look", "cancel", "wait", "ended", "failed"}]

OwnersInit ==
    /\ connection = "idle" /\ acknowledges = TRUE /\ ownCancelled = FALSE
    /\ ownedJobs = {} /\ jobStopped = {}
    /\ ownJob = [j \in OwnJobs |-> "none"]
    /\ closer = [j \in OwnJobs |-> "none"]

LiveOwned == {j \in OwnJobs : ownJob[j] \in LiveJob}

\* A job's token is a child of its owner's.
JobToken(j) == ownCancelled \/ j \in jobStopped

ServeOnly == UNCHANGED <<ownCancelled, ownedJobs, ownJob, jobStopped, closer>>
JobsOnly == UNCHANGED <<connection, acknowledges, ownCancelled, ownedJobs, closer>>

-----------------------------------------------------------------------------
(* Submissions                                                             *)

\* A frame is read; everything before the lock of the queues may still fail.
Submits ==
    /\ connection = "idle"
    /\ connection' = "starting"
    /\ UNCHANGED acknowledges /\ ServeOnly

StartFailsEarly ==
    /\ connection = "starting"
    /\ connection' = "replying"
    /\ UNCHANGED acknowledges /\ ServeOnly

\* Mutant: the job is registered only once it is in its lane.
RegistersLate(j) == UNCHANGED ownedJobs

\* JobOwner::register
Registers(j) == ownedJobs' = ownedJobs \cup {j}

\* The critical section of start_with_context.  A row that cannot be stored makes
\* the owner forget the job; when a later write fails it keeps the row's id.
OwnedStart(j) ==
    /\ connection = "starting" /\ ownJob[j] = "none"
    /\ ~ownCancelled /\ Cardinality(ownedJobs) < MaxOwned
    /\ Registers(j)
    /\ \E state \in {"queued", "orphan"} :
          /\ state = "orphan" => OwnFaults
          /\ ownJob' = [ownJob EXCEPT ![j] = state]
    /\ connection' = "replying"
    /\ UNCHANGED <<acknowledges, ownCancelled, jobStopped, closer>>

\* The reply, also after an error.
Replies ==
    /\ connection = "replying"
    /\ connection' = "idle"
    /\ UNCHANGED acknowledges /\ ServeOnly

-----------------------------------------------------------------------------
(* The end of the connection                                               *)

\* JobOwner::close begins: no job is registered from now on, and each that was
\* gets a future.
Closes(clean) ==
    /\ connection' = "closing"
    /\ acknowledges' = clean
    /\ ownCancelled' = TRUE
    /\ closer' = [j \in OwnJobs |-> IF j \in ownedJobs THEN "look" ELSE "none"]
    /\ UNCHANGED <<ownedJobs, ownJob, jobStopped>>

\* A close message or the end of the stream between two frames.
ClientCloses == connection = "idle" /\ Closes(TRUE)

\* The client leaves or pipelines during a submission, a frame is broken or late,
\* or the reply cannot be sent.
ConnectionBreaks == connection \in {"idle", "starting", "replying"} /\ Closes(FALSE)

Goes(j, at, to) == closer[j] = at /\ closer' = [closer EXCEPT ![j] = to]
CloserOnly == UNCHANGED <<connection, acknowledges, ownCancelled, ownedJobs>>

\* A job whose history was deleted is no unfinished work.
CloseLooks(j) ==
    /\ \/ ownJob[j] = "deleted" /\ Goes(j, "look", "ended")
       \/ ownJob[j] # "deleted" /\ Goes(j, "look", "cancel")
       \/ OwnFaults /\ Goes(j, "look", "failed")
    /\ CloserOnly /\ UNCHANGED <<ownJob, jobStopped>>

\* Engine::cancel waits for a job that is in memory.
ThenWaits(j) == IF j \in LiveOwned THEN "wait" ELSE "ended"

\* request_cancel: the token, the row, which may fail, and a job that waits behind
\* another in its lane is over at once.  A row deleted since the look is an error.
CloseCancels(j) ==
    /\ \/ ownJob[j] # "deleted" /\ Goes(j, "cancel", ThenWaits(j))
       \/ (OwnFaults \/ ownJob[j] = "deleted") /\ Goes(j, "cancel", "failed")
    /\ jobStopped' = IF j \in LiveOwned THEN jobStopped \cup {j} ELSE jobStopped
    /\ \/ ownJob[j] = "queued" /\ ownJob' = [ownJob EXCEPT ![j] = "over"]
       \/ UNCHANGED ownJob
    /\ CloserOnly

CloseWaits(j) ==
    /\ j \notin LiveOwned
    /\ Goes(j, "wait", "ended")
    /\ CloserOnly /\ UNCHANGED <<ownJob, jobStopped>>

\* Owned::drop signals once more, without waiting.
OwnerDropped ==
    /\ ownCancelled' = TRUE
    /\ jobStopped' = jobStopped \cup (ownedJobs \cap LiveOwned)
    /\ UNCHANGED <<ownedJobs, ownJob, closer>>

\* join_all ends when every future has; the reply says closed only then, and when
\* the loop and the cleanup had no error.
CloseReturns ==
    /\ connection = "closing"
    /\ \A j \in OwnJobs : closer[j] \in {"none", "ended", "failed"}
    /\ connection' = IF acknowledges /\ \A j \in OwnJobs : closer[j] # "failed"
                     THEN "closed" ELSE "failed"
    /\ UNCHANGED acknowledges /\ OwnerDropped

\* The control server stops and aborts its connections.
ServeAborted ==
    /\ connection \notin ConnectionOver
    /\ connection' = "aborted"
    /\ UNCHANGED acknowledges /\ OwnerDropped

-----------------------------------------------------------------------------
(* The jobs and other clients                                              *)

OwnJobBecomes(j, state) == ownJob' = [ownJob EXCEPT ![j] = state]

OwnJobRuns(j) ==
    /\ ownJob[j] = "queued" /\ ~JobToken(j)
    /\ OwnJobBecomes(j, "running") /\ UNCHANGED jobStopped /\ JobsOnly

OwnJobEnds(j) ==
    /\ ownJob[j] = "running"
    /\ OwnJobBecomes(j, "over") /\ UNCHANGED jobStopped /\ JobsOnly

\* The token ends a job that runs, and one that waits when its turn comes.
StoppedJobEnds(j) ==
    /\ j \in LiveOwned /\ JobToken(j)
    /\ OwnJobBecomes(j, "over") /\ UNCHANGED jobStopped /\ JobsOnly

\* From a window or another connection.
OwnJobCancelled(j) ==
    /\ j \in LiveOwned
    /\ jobStopped' = jobStopped \cup {j} /\ UNCHANGED ownJob /\ JobsOnly

OwnJobDeleted(j) ==
    /\ ownJob[j] = "over"
    /\ OwnJobBecomes(j, "deleted") /\ UNCHANGED jobStopped /\ JobsOnly

CloseGoesOn(j) == connection = "closing" /\ (CloseLooks(j) \/ CloseCancels(j) \/ CloseWaits(j))

OwnersNext ==
    \/ Submits \/ StartFailsEarly \/ Replies
    \/ ClientCloses \/ ConnectionBreaks \/ CloseReturns \/ ServeAborted
    \/ \E j \in OwnJobs :
          \/ OwnedStart(j)
          \/ CloseGoesOn(j)
          \/ OwnJobRuns(j) \/ OwnJobEnds(j) \/ StoppedJobEnds(j)
          \/ OwnJobCancelled(j) \/ OwnJobDeleted(j)

OwnersSpec == OwnersInit /\ [][OwnersNext]_ownerVars

-----------------------------------------------------------------------------
(* What ownership promises                                                 *)

\* A close that is acknowledged leaves no job live (control/owned.rs serve); while
\* the connection lasts its owner knows every live job, also one whose reply the
\* client never reads; and once it is over every live job's token is cancelled
\* (engine/owner.rs, "killing a gateway cannot detach its jobs accidentally").
OwnedAgree ==
    /\ OwnerTypes
    /\ LiveOwned \subseteq ownedJobs
    /\ connection = "closed" => LiveOwned = {}
    /\ connection \in ConnectionOver => \A j \in LiveOwned : j \in jobStopped

\* When the connection ends its jobs end, and close returns.
OwnedJobsEnd ==
    /\ connection \in {"closing"} \cup ConnectionOver ~> LiveOwned = {}
    /\ connection = "closing" ~> connection \in ConnectionOver
=============================================================================
