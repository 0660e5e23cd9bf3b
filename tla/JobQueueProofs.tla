--------------------------- MODULE JobQueueProofs ---------------------------
(***************************************************************************)
(* The safety properties of the job scheduler hold for any number of jobs, *)
(* workspaces, requests, slots and restarts, whether or not database       *)
(* writes fail.  They follow from the inductive invariant IInv of          *)
(* JobQueueProps; the lemmas below show, conjunct by conjunct, that every  *)
(* step preserves it.                                                      *)
(***************************************************************************)
EXTENDS JobQueueProps, SequenceTheorems, TLAPS

-----------------------------------------------------------------------------
(* Sequences                                                               *)

\* A job appended to a lane is its last; the first stays the first.
LEMMA AppendFacts ==
  ASSUME NEW S, NEW s \in Seq(S), NEW e \in S
  PROVE  /\ Append(s, e) \in Seq(S) /\ Append(s, e) # <<>>
         /\ Len(Append(s, e)) = Len(s) + 1
         /\ \A i \in 1..Len(s) : Append(s, e)[i] = s[i]
         /\ Append(s, e)[Len(s) + 1] = e
         /\ s # <<>> => Head(Append(s, e)) = Head(s)
<1>1. /\ Append(s, e) \in Seq(S) /\ Len(Append(s, e)) = Len(s) + 1
      /\ \A i \in 1..Len(s) : Append(s, e)[i] = s[i]
      /\ Append(s, e)[Len(s) + 1] = e
  BY AppendProperties
<1>2. Append(s, e) # <<>>
  BY <1>1, LenProperties, EmptySeq
<1>3. ASSUME s # <<>> PROVE Head(Append(s, e)) = Head(s)
  <2>1. 1 \in 1..Len(s)
    BY <1>3, EmptySeq
  <2>2. Head(Append(s, e)) = Append(s, e)[1] /\ Head(s) = s[1]
    BY <1>1, <1>2, <1>3
  <2>. QED
    BY <2>1, <2>2, <1>1
<1>. QED
  BY <1>1, <1>2, <1>3

\* Removing the first job shifts the others and empties a lane of one job.
LEMMA TailFacts ==
  ASSUME NEW S, NEW s \in Seq(S), s # <<>>
  PROVE  /\ Tail(s) \in Seq(S) /\ Len(Tail(s)) = Len(s) - 1
         /\ Tail(s) = <<>> <=> Len(s) = 1
         /\ \A i \in 1..Len(Tail(s)) : Tail(s)[i] = s[i + 1]
         /\ Len(s) \in Nat /\ Len(s) >= 1 /\ Head(s) = s[1] /\ Head(s) \in S
<1>1. /\ Tail(s) \in Seq(S) /\ Len(Tail(s)) = Len(s) - 1 /\ Head(s) \in S
      /\ \A i \in 1..Len(Tail(s)) : Tail(s)[i] = s[i + 1]
  BY HeadTailProperties
<1>2. Len(s) \in Nat /\ Len(s) >= 1
  BY EmptySeq
<1>3. Tail(s) = <<>> <=> Len(s) = 1
  BY <1>1, <1>2, EmptySeq
<1>4. Head(s) = s[1]
  OBVIOUS
<1>. QED
  BY <1>1, <1>2, <1>3, <1>4

-----------------------------------------------------------------------------
(* Statuses                                                                *)

\* Live, final and absent rows are told apart by their status.
LEMMA StatusFacts ==
    /\ Live \subseteq Statuses /\ Terminal \subseteq Statuses /\ "none" \in Statuses
    /\ {"queued", "running", "paused", "cancelling"} \subseteq Live
    /\ {"interrupted", "failed"} \subseteq Terminal
    /\ \A s \in Live : s \notin Terminal /\ s # "none"
    /\ \A s \in Terminal : s # "none"
    /\ \A s \in Statuses : s \in Live \/ s \in Terminal \/ s = "none"
    /\ "running" \notin Terminal
  BY DEF Live, Terminal, Statuses

\* A job is finished with a final status.
LEMMA FinalIsTerminal ==
  ASSUME NEW j, NEW how \in Outcomes PROVE FinalStatus(j, how) \in Terminal
  BY DEF FinalStatus, Outcomes, Terminal

-----------------------------------------------------------------------------
(* Which steps change which variables                                      *)

\* Lanes change when a job is admitted or removed, and at a restart.
LEMMA LaneSteps ==
  ASSUME [Next]_vars
  PROVE  \/ UNCHANGED <<registered, lanes, wsOf>>
         \/ \E c \in Clients, j \in Jobs, q \in BOOLEAN : StartAdmit(c, j, q)
         \/ \E k \in Jobs : WorkerRemove(k)
         \/ Restart
  BY DEF Next, vars, queueVars, ClientRequest, ClientStep, WorkerStep, RunStep, ShutdownStep,
     StartCheck, StartOrphan, StartRefuse, StartSpawn, StartPush, Reserve, Release, CancelLookup,
     CancelMark, CancelRefuse, CancelFront, CancelFinish, CancelFinishFails, WaitBegin, WaitReturn,
     Pause, Resume, WorkerPick, AcquireSlot, AbandonSlot, BeginRun, RunEnds, RunLosesEvent,
     WorkerFinish, WorkerFinishFails, ShutdownBegin, ShutdownCancel, ShutdownDrained,
     ShutdownDone, ShutdownTimeout

\* Only a manual change and a restart touch the reservations.
LEMMA ManualSteps ==
  ASSUME [Next]_vars
  PROVE  \/ UNCHANGED manual
         \/ \E c \in Clients, w \in Workspaces : Reserve(c, w)
         \/ \E c \in Clients : Release(c)
         \/ Restart
  BY DEF Next, vars, queueVars, ClientRequest, ClientStep, WorkerStep, RunStep, ShutdownStep,
     StartCheck, StartAdmit, StartOrphan, StartRefuse, StartSpawn, StartPush, CancelLookup,
     CancelMark, CancelRefuse, CancelFront, CancelFinish, CancelFinishFails, WaitBegin, WaitReturn,
     Pause, Resume, WorkerPick, AcquireSlot, AbandonSlot, BeginRun, RunEnds, RunLosesEvent,
     WorkerFinish, WorkerFinishFails, WorkerRemove, ShutdownBegin, ShutdownCancel, ShutdownDrained,
     ShutdownDone, ShutdownTimeout

\* The steps that take a record lock.
LEMMA RecordSteps ==
  ASSUME [Next]_vars
  PROVE  \/ UNCHANGED recordVars
         \/ \E c \in Clients, j \in Jobs, q \in BOOLEAN : StartAdmit(c, j, q) \/ StartOrphan(c, j, q)
         \/ \E c \in Clients, q \in BOOLEAN : CancelMark(c, q)
         \/ \E c \in Clients : CancelFinish(c) \/ CancelFinishFails(c)
         \/ \E j \in Jobs : Pause(j) \/ Resume(j)
         \/ \E k \in Jobs : \/ BeginRun(k) \/ RunLosesEvent(k)
                            \/ WorkerFinish(k) \/ WorkerFinishFails(k)
         \/ ShutdownCancel
         \/ Restart
  BY DEF Next, vars, ClientRequest, ClientStep, WorkerStep, RunStep, ShutdownStep,
     StartCheck, StartRefuse, StartSpawn, StartPush, Reserve, Release, CancelLookup,
     CancelRefuse, CancelFront, WaitBegin, WaitReturn, WorkerPick, AcquireSlot, AbandonSlot,
     RunEnds, WorkerRemove, ShutdownBegin, ShutdownDrained, ShutdownDone, ShutdownTimeout

\* The steps that move a worker.
LEMMA WorkerSteps ==
  ASSUME [Next]_vars
  PROVE  \/ UNCHANGED workerVars
         \/ \E c \in Clients : StartSpawn(c)
         \/ \E k \in Jobs : \/ WorkerPick(k) \/ AcquireSlot(k) \/ AbandonSlot(k) \/ BeginRun(k)
                            \/ RunStep(k) \/ WorkerFinish(k) \/ WorkerFinishFails(k)
                            \/ WorkerRemove(k)
         \/ Restart
  BY DEF Next, vars, ClientRequest, ClientStep, WorkerStep, ShutdownStep,
     StartCheck, StartAdmit, StartOrphan, StartRefuse, StartPush, Reserve, Release, CancelLookup,
     CancelMark, CancelRefuse, CancelFront, CancelFinish, CancelFinishFails, WaitBegin, WaitReturn,
     Pause, Resume, ShutdownBegin, ShutdownCancel, ShutdownDrained, ShutdownDone, ShutdownTimeout

\* The steps that move a request.
LEMMA ClientSteps ==
  ASSUME [Next]_vars
  PROVE  \/ UNCHANGED clientVars
         \/ \E c \in Clients : ClientRequest(c) \/ ClientStep(c)
         \/ Restart
  BY DEF Next, vars, WorkerStep, RunStep, ShutdownStep, Pause, Resume,
     WorkerPick, AcquireSlot, AbandonSlot, BeginRun, RunEnds, RunLosesEvent, WorkerFinish,
     WorkerFinishFails, WorkerRemove, ShutdownBegin, ShutdownCancel, ShutdownDrained,
     ShutdownDone, ShutdownTimeout

\* The steps that concern shutdown.
LEMMA ShutdownSteps ==
  ASSUME [Next]_vars
  PROVE  \/ UNCHANGED shutdownVars
         \/ \E c \in Clients : StartPush(c)
         \/ ShutdownBegin \/ ShutdownStep \/ ShutdownTimeout
         \/ Restart
  BY DEF Next, vars, ClientRequest, ClientStep, WorkerStep, RunStep,
     StartCheck, StartAdmit, StartOrphan, StartRefuse, StartSpawn, Reserve, Release, CancelLookup,
     CancelMark, CancelRefuse, CancelFront, CancelFinish, CancelFinishFails, WaitBegin, WaitReturn,
     Pause, Resume, WorkerPick, AcquireSlot, AbandonSlot, BeginRun, RunEnds, RunLosesEvent,
     WorkerFinish, WorkerFinishFails, WorkerRemove

-----------------------------------------------------------------------------
(* What the invariant says of the job a step is about                      *)

\* The job being started is new to this process.
LEMMA AdmitFresh ==
  ASSUME IInv, NEW c \in Clients, NEW j \in Jobs, NEW q \in BOOLEAN,
         StartAdmit(c, j, q) \/ StartOrphan(c, j, q)
  PROVE  cws[c] \in Workspaces /\ ~Known(j) /\ ~finished[j] /\ status[j] \notin Live
  BY StatusFacts DEF IInv, StartAdmit, StartOrphan, KnownJobs, RequestsOwn

\* A request past its first step is about a known job.
LEMMA RequestJob ==
  ASSUME IInv, NEW c \in Clients, cpc[c] \in {"spawn", "push", "mark", "front", "finish", "wait"}
  PROVE  cjob[c] \in Jobs /\ Known(cjob[c])
  BY DEF IInv, RequestsOwn, Known

\* A worker that has been spawned has a workspace.
LEMMA WorkerLane ==
  ASSUME IInv, NEW k \in Jobs, worker[k] # "none"
  PROVE  wsOf[k] \in Workspaces /\ lanes[wsOf[k]] \in Seq(Jobs)
  BY DEF IInv, KnownJobs, Known, TypeOK, QueueTypeOK

\* The first job of a lane is known and belongs to the lane's workspace.
LEMMA HeadKnown ==
  ASSUME IInv, NEW w \in Workspaces, lanes[w] # <<>>
  PROVE  Head(lanes[w]) \in Jobs /\ Known(Head(lanes[w])) /\ wsOf[Head(lanes[w])] = w
<1>1. lanes[w] \in Seq(Jobs)
  BY DEF IInv, TypeOK, QueueTypeOK
<1>2. Head(lanes[w]) = lanes[w][1] /\ 1 \in 1..Len(lanes[w]) /\ Head(lanes[w]) \in Jobs
  BY <1>1, TailFacts
<1>3. Known(Head(lanes[w]))
  BY <1>2 DEF Known, InLane
<1>. QED
  BY <1>2, <1>3 DEF IInv, LanesOwn

\* A serving worker works on a known job of its own workspace.
LEMMA WorkerJob ==
  ASSUME IInv, NEW k \in Jobs, worker[k] \in Serving
  PROVE  /\ current[k] \in Jobs /\ Known(current[k]) /\ wsOf[current[k]] = wsOf[k]
         /\ IsFront(current[k])
<1>1. worker[k] # "none"
  BY DEF Serving
<1>2. lanes[wsOf[k]] # <<>> /\ current[k] = Head(lanes[wsOf[k]])
  BY DEF IInv, WorksOnHead
<1>. QED
  BY <1>1, <1>2, WorkerLane, HeadKnown DEF IsFront

\* Two serving workers never work on the same job.
LEMMA WorksAlone ==
  ASSUME IInv, NEW k \in Jobs, NEW l \in Jobs,
         worker[k] \in Serving, worker[l] \in Serving, current[k] = current[l]
  PROVE  k = l
<1>1. wsOf[k] \in Workspaces /\ wsOf[l] = wsOf[k]
  BY WorkerJob, WorkerLane DEF Serving
<1>2. Serves(k, wsOf[k]) /\ Serves(l, wsOf[k])
  BY <1>1 DEF Serves, Serving
<1>. QED
  BY <1>1, <1>2 DEF IInv, LaneServedOnce

\* The row of a known job is unfinished or the job has finished.
LEMMA KnownRow ==
  ASSUME IInv, NEW j \in Jobs, Known(j)
  PROVE  db[j] \in Live \/ (db[j] \in Terminal /\ finished[j])
  BY StatusFacts DEF IInv, KnownJobs, TypeOK, RecordTypeOK

-----------------------------------------------------------------------------
(* Type correctness                                                        *)

\* The initial state is type correct (Engine::open).
LEMMA TypeInit == Init => TypeOK
<1> SUFFICES ASSUME Init PROVE TypeOK
  OBVIOUS
<1>1. QueueTypeOK
  BY DEF Init, QueueTypeOK
<1>2. RecordTypeOK
  BY DEF Init, RecordTypeOK, Statuses, Live, Terminal
<1>3. WorkerTypeOK
  BY DEF Init, WorkerTypeOK, WorkerPC, Outcomes
<1>4. ClientTypeOK
  BY DEF Init, ClientTypeOK, ClientPC
<1>5. ShutdownTypeOK
  BY DEF Init, ShutdownTypeOK
<1>. QED
  BY <1>1, <1>2, <1>3, <1>4, <1>5 DEF TypeOK

\* Engine::finish keeps the record's types.
LEMMA FinishType ==
  ASSUME RecordTypeOK, NEW j \in Jobs, NEW how \in Outcomes, Finish(j, how)
  PROVE  RecordTypeOK'
<1>1. FinalStatus(j, how) \in Statuses
  BY FinalIsTerminal, StatusFacts
<1>2. CASE finished[j]
  BY <1>2 DEF RecordTypeOK, Finish, recordVars
<1>3. CASE ~finished[j]
  <2>1. status' \in [Jobs -> Statuses] /\ db' \in [Jobs -> Statuses]
    BY <1>1, <1>3 DEF RecordTypeOK, Finish
  <2>2. completions' \in [Jobs -> Nat]
    BY <1>3 DEF RecordTypeOK, Finish
  <2>3. finished' \in [Jobs -> BOOLEAN]
    BY <1>3 DEF RecordTypeOK, Finish
  <2>. QED
    BY <2>1, <2>2, <2>3, <1>3 DEF RecordTypeOK, Finish
<1>. QED
  BY <1>2, <1>3

\* Steps keep the queue's types.
LEMMA QueueTypeNext == ASSUME IInv, [Next]_vars PROVE QueueTypeOK'
<1>. QueueTypeOK
  BY DEF IInv, TypeOK
<1>. DEFINE Good == /\ registered' \subseteq Jobs
                    /\ lanes' \in [Workspaces -> Seq(Jobs)]
                    /\ wsOf' \in [Jobs -> Workspaces \cup {NoWorkspace}]
<1>1. ASSUME NEW c \in Clients, NEW j \in Jobs, NEW q \in BOOLEAN, StartAdmit(c, j, q) PROVE Good
  <2>1. cws[c] \in Workspaces /\ Append(lanes[cws[c]], j) \in Seq(Jobs)
    BY <1>1, AdmitFresh, AppendFacts DEF QueueTypeOK
  <2>. QED
    BY <1>1, <2>1 DEF QueueTypeOK, StartAdmit
<1>2. ASSUME NEW k \in Jobs, WorkerRemove(k) PROVE Good
  <2>1. lanes[wsOf[k]] # <<>> /\ wsOf[k] \in Workspaces
    BY <1>2, WorkerLane DEF WorkerRemove, IInv, WorksOnHead, Serving
  <2>2. Tail(lanes[wsOf[k]]) \in Seq(Jobs)
    BY <2>1, TailFacts DEF QueueTypeOK
  <2>. QED
    BY <1>2, <2>2 DEF QueueTypeOK, WorkerRemove
<1>3. ASSUME Restart PROVE Good
  BY <1>3 DEF Restart
<1>4. Good
  BY <1>1, <1>2, <1>3, LaneSteps DEF QueueTypeOK
<1>5. manual' \in [Workspaces -> Clients \cup {NoClient}]
  <2>1. CASE UNCHANGED manual
    BY <2>1 DEF QueueTypeOK
  <2>2. ASSUME NEW c \in Clients, NEW w \in Workspaces, Reserve(c, w)
        PROVE  manual' \in [Workspaces -> Clients \cup {NoClient}]
    BY <2>2 DEF QueueTypeOK, Reserve
  <2>3. ASSUME NEW c \in Clients, Release(c) PROVE manual' \in [Workspaces -> Clients \cup {NoClient}]
    BY <2>3 DEF QueueTypeOK, Release
  <2>4. ASSUME Restart PROVE manual' \in [Workspaces -> Clients \cup {NoClient}]
    BY <2>4 DEF Restart
  <2>. QED
    BY <2>1, <2>2, <2>3, <2>4, ManualSteps
<1>. QED
  BY <1>4, <1>5 DEF QueueTypeOK

\* Steps keep the records' types.
LEMMA RecordTypeNext == ASSUME IInv, [Next]_vars PROVE RecordTypeOK'
<1>. RecordTypeOK
  BY DEF IInv, TypeOK
<1>. USE StatusFacts
<1>0. CASE UNCHANGED recordVars
  BY <1>0 DEF recordVars, RecordTypeOK
<1>a. ASSUME NEW j, NEW s \in Statuses,
             status' = [status EXCEPT ![j] = s] \/ status' = status,
             db' = [db EXCEPT ![j] = s] \/ db' = db,
             cancelled' = [cancelled EXCEPT ![j] = TRUE] \/ cancelled' = cancelled,
             finished' = [finished EXCEPT ![j] = TRUE] \/ finished' = finished,
             completions' = completions
      PROVE  RecordTypeOK'
  <2>1. status' \in [Jobs -> Statuses]
    BY <1>a DEF RecordTypeOK
  <2>2. db' \in [Jobs -> Statuses]
    BY <1>a DEF RecordTypeOK
  <2>3. cancelled' \in [Jobs -> BOOLEAN]
    BY <1>a DEF RecordTypeOK
  <2>4. finished' \in [Jobs -> BOOLEAN]
    BY <1>a DEF RecordTypeOK
  <2>. QED
    BY <1>a, <2>1, <2>2, <2>3, <2>4 DEF RecordTypeOK
<1>1. ASSUME NEW c \in Clients, NEW j \in Jobs, NEW q \in BOOLEAN,
             StartAdmit(c, j, q) \/ StartOrphan(c, j, q)
      PROVE  RecordTypeOK'
  <2>1. /\ status' = [status EXCEPT ![j] = "queued"] \/ status' = status
        /\ db' = [db EXCEPT ![j] = "queued"] \/ db' = db
        /\ UNCHANGED <<cancelled, finished, completions>>
    BY <1>1 DEF StartAdmit, StartOrphan, SaveStatus
  <2>. QED
    BY <2>1, <1>a
<1>2. ASSUME NEW c \in Clients, NEW q \in BOOLEAN, CancelMark(c, q) PROVE RecordTypeOK'
  <2>1. PICK j : j = cjob[c]
    OBVIOUS
  <2>2. /\ status' = [status EXCEPT ![j] = "cancelling"] \/ status' = status
        /\ db' = [db EXCEPT ![j] = "cancelling"] \/ db' = db
        /\ cancelled' = [cancelled EXCEPT ![j] = TRUE] /\ UNCHANGED <<finished, completions>>
    BY <1>2, <2>1 DEF CancelMark, SaveStatus, SaveFails
  <2>. QED
    BY <2>2, <1>a
<1>3. ASSUME NEW c \in Clients, CancelFinish(c) PROVE RecordTypeOK'
  BY <1>3, FinishType, RequestJob DEF CancelFinish, Outcomes
<1>4. ASSUME NEW c \in Clients, CancelFinishFails(c) PROVE RecordTypeOK'
  BY <1>4, FinalIsTerminal DEF RecordTypeOK, CancelFinishFails, SaveFails, Outcomes
<1>5. ASSUME NEW j \in Jobs, Pause(j) \/ Resume(j) PROVE RecordTypeOK'
  BY <1>5 DEF RecordTypeOK, Pause, Resume, SaveStatus, SaveFails
<1>6. ASSUME NEW k \in Jobs, BeginRun(k) \/ RunLosesEvent(k) \/ WorkerFinishFails(k)
      PROVE  RecordTypeOK'
  <2>1. PICK j : j = current[k]
    OBVIOUS
  <2>2. CASE BeginRun(k)
    <3>1. /\ status' = [status EXCEPT ![j] = "running"] \/ status' = status
          /\ db' = [db EXCEPT ![j] = "running"] \/ db' = db
          /\ UNCHANGED <<cancelled, finished, completions>>
      BY <2>1, <2>2 DEF BeginRun, SaveStatus, SaveFails
    <3>. QED
      BY <3>1, <1>a
  <2>3. CASE RunLosesEvent(k)
    <3>1. /\ cancelled' = [cancelled EXCEPT ![j] = TRUE]
          /\ UNCHANGED <<status, db, finished, completions>>
      BY <2>1, <2>3 DEF RunLosesEvent
    <3>. QED
      BY <3>1, <1>a
  <2>4. CASE WorkerFinishFails(k)
    <3>1. /\ status' = [status EXCEPT ![j] = "failed"] /\ db' = db
          /\ finished' = [finished EXCEPT ![j] = TRUE] /\ UNCHANGED <<cancelled, completions>>
      BY <2>1, <2>4 DEF WorkerFinishFails, SaveFails
    <3>. QED
      BY <3>1, <1>a
  <2>. QED
    BY <1>6, <2>2, <2>3, <2>4
<1>7. ASSUME NEW k \in Jobs, WorkerFinish(k) PROVE RecordTypeOK'
  <2>1. current[k] \in Jobs /\ outcome[k] \in Outcomes
    BY <1>7, WorkerJob DEF WorkerFinish, Serving, IInv, TypeOK, WorkerTypeOK
  <2>. QED
    BY <1>7, <2>1, FinishType DEF WorkerFinish
<1>8. CASE ShutdownCancel
  BY <1>8 DEF RecordTypeOK, ShutdownCancel
<1>9. CASE Restart
  BY <1>9 DEF RecordTypeOK, Restart
<1>. QED
  BY <1>0, <1>1, <1>2, <1>3, <1>4, <1>5, <1>6, <1>7, <1>8, <1>9, RecordSteps

\* Steps keep the workers' types.
LEMMA WorkerTypeNext == ASSUME IInv, [Next]_vars PROVE WorkerTypeOK'
<1>. WorkerTypeOK
  BY DEF IInv, TypeOK
<1>0. CASE UNCHANGED workerVars
  BY <1>0 DEF workerVars, WorkerTypeOK
<1>1. ASSUME NEW c \in Clients, StartSpawn(c) PROVE WorkerTypeOK'
  BY <1>1 DEF WorkerTypeOK, StartSpawn, WorkerPC
<1>2. ASSUME NEW k \in Jobs, WorkerPick(k) PROVE WorkerTypeOK'
  <2>1. lanes[wsOf[k]] # <<>> => Head(lanes[wsOf[k]]) \in Jobs
    BY <1>2, WorkerLane, HeadKnown DEF WorkerPick
  <2>. QED
    BY <1>2, <2>1 DEF WorkerTypeOK, WorkerPick, WorkerPC
<1>3. ASSUME NEW k \in Jobs, AcquireSlot(k) \/ AbandonSlot(k) \/ BeginRun(k) \/ RunStep(k)
      PROVE  WorkerTypeOK'
  BY <1>3 DEF WorkerTypeOK, AcquireSlot, AbandonSlot, BeginRun, RunStep, RunEnds, RunLosesEvent,
     EndBody, WorkerPC, Outcomes
<1>4. ASSUME NEW k \in Jobs, WorkerFinish(k) \/ WorkerFinishFails(k) \/ WorkerRemove(k)
      PROVE  WorkerTypeOK'
  BY <1>4 DEF WorkerTypeOK, WorkerFinish, WorkerFinishFails, WorkerRemove, WorkerPC, Outcomes
<1>5. CASE Restart
  BY <1>5 DEF WorkerTypeOK, Restart, WorkerPC, Outcomes
<1>. QED
  BY <1>0, <1>1, <1>2, <1>3, <1>4, <1>5, WorkerSteps

\* Steps keep the requests' types.
LEMMA ClientTypeNext == ASSUME IInv, [Next]_vars PROVE ClientTypeOK'
<1>. ClientTypeOK
  BY DEF IInv, TypeOK
<1>0. CASE UNCHANGED clientVars
  BY <1>0 DEF clientVars, ClientTypeOK
<1>1. ASSUME NEW c \in Clients, ClientRequest(c) PROVE ClientTypeOK'
  BY <1>1 DEF ClientTypeOK, ClientRequest, StartCheck, Reserve, CancelLookup, WaitBegin, ClientPC
<1>2. ASSUME NEW c \in Clients, ClientStep(c) PROVE ClientTypeOK'
  BY <1>2 DEF ClientTypeOK, ClientStep, StartAdmit, StartOrphan, StartRefuse, StartSpawn, StartPush,
     Release, CancelMark, CancelRefuse, CancelFront, CancelFinish, CancelFinishFails, WaitReturn,
     Return, Goto, ClientPC
<1>3. CASE Restart
  BY <1>3 DEF ClientTypeOK, Restart, ClientPC
<1>. QED
  BY <1>0, <1>1, <1>2, <1>3, ClientSteps

\* Steps keep the shutdown's types.
LEMMA ShutdownTypeNext == ASSUME IInv, [Next]_vars PROVE ShutdownTypeOK'
<1>. ShutdownTypeOK
  BY DEF IInv, TypeOK
<1>0. CASE UNCHANGED shutdownVars
  BY <1>0 DEF shutdownVars, ShutdownTypeOK
<1>1. ASSUME NEW c \in Clients, StartPush(c) PROVE ShutdownTypeOK'
  BY <1>1, RequestJob DEF ShutdownTypeOK, StartPush
<1>2. CASE ShutdownBegin \/ ShutdownStep \/ ShutdownTimeout
  BY <1>2 DEF ShutdownTypeOK, ShutdownBegin, ShutdownStep, ShutdownCancel, ShutdownDrained,
     ShutdownDone, ShutdownTimeout, IInv, TypeOK, QueueTypeOK
<1>3. CASE Restart
  <2>1. restarts' \in Nat
    BY <1>3 DEF ShutdownTypeOK, Restart
  <2>2. closing' \in BOOLEAN /\ shutdown' = "no"
    BY <1>3 DEF Restart
  <2>3. snapshot' = {} /\ handles' = {} /\ joining' = {}
    BY <1>3 DEF Restart
  <2>. QED
    BY <2>1, <2>2, <2>3 DEF ShutdownTypeOK
<1>. QED
  BY <1>0, <1>1, <1>2, <1>3, ShutdownSteps

-----------------------------------------------------------------------------
(* Lanes and their workers                                                 *)

\* Only a start, its spawn and a restart change who is about to spawn.
LEMMA SpawningFrame ==
  ASSUME IInv, [Next]_vars
  PROVE  \/ \A d \in Clients, k \in Jobs : Spawning(d, k)' <=> Spawning(d, k)
         \/ \E c \in Clients, j \in Jobs, q \in BOOLEAN : StartAdmit(c, j, q)
         \/ \E c \in Clients : StartSpawn(c)
         \/ Restart
<1>. DEFINE Same == \A d \in Clients, k \in Jobs : Spawning(d, k)' <=> Spawning(d, k)
<1>. ClientTypeOK
  BY DEF IInv, TypeOK
<1>0. ASSUME UNCHANGED clientVars PROVE Same
  BY <1>0 DEF clientVars, Spawning
<1>1. ASSUME NEW c \in Clients, ClientRequest(c) PROVE Same
  BY <1>1 DEF ClientTypeOK, Spawning, ClientRequest, StartCheck, Reserve, CancelLookup, WaitBegin
<1>2. ASSUME NEW c \in Clients, ClientStep(c),
             ~\E j \in Jobs, q \in BOOLEAN : StartAdmit(c, j, q), ~StartSpawn(c)
      PROVE  Same
  <2>1. cpc[c] # "spawn" /\ cpc'[c] # "spawn"
    BY <1>2 DEF ClientTypeOK, ClientStep, StartOrphan, StartRefuse, StartPush, Release, CancelMark,
       CancelRefuse, CancelFront, CancelFinish, CancelFinishFails, WaitReturn, Return, Goto
  <2>2. ASSUME NEW d \in Clients, d # c PROVE cpc'[d] = cpc[d] /\ cjob'[d] = cjob[d]
    BY <1>2, <2>2 DEF ClientTypeOK, ClientStep, StartOrphan, StartRefuse, StartPush, Release, CancelMark,
       CancelRefuse, CancelFront, CancelFinish, CancelFinishFails, WaitReturn, Return, Goto
  <2>. QED
    BY <2>1, <2>2 DEF Spawning
<1>. QED
  BY <1>0, <1>1, <1>2, ClientSteps

\* A lane keeps exactly one worker and an empty lane none; a worker is
\* spawned once (start_with_context, drain).
LEMMA ServedNext == ASSUME IInv, [Next]_vars PROVE LaneServedOnce' /\ SpawnsOnce'
<1>. QueueTypeOK /\ WorkerTypeOK /\ ClientTypeOK /\ LaneServedOnce /\ SpawnsOnce
  BY DEF IInv, TypeOK
<1>. DEFINE SameSpawning == \A d \in Clients, k \in Jobs : Spawning(d, k)' <=> Spawning(d, k)
<1>0. CASE UNCHANGED <<lanes, wsOf, worker>> /\ SameSpawning
  BY <1>0 DEF LaneServedOnce, Serves, SpawnsOnce
<1>1. ASSUME NEW c \in Clients, NEW j \in Jobs, NEW q \in BOOLEAN, StartAdmit(c, j, q)
      PROVE  LaneServedOnce' /\ SpawnsOnce'
  <2>. DEFINE w == cws[c]
  <2>1. /\ w \in Workspaces /\ worker[j] = "none" /\ \A d \in Clients : ~Spawning(d, j)
        /\ cpc[c] = "start" /\ worker' = worker
        /\ wsOf' = [wsOf EXCEPT ![j] = w]
        /\ lanes' = [lanes EXCEPT ![w] = Append(@, j)]
    BY <1>1, AdmitFresh DEF StartAdmit, Spawning, workerVars, Known
  <2>2. ASSUME NEW d \in Clients, NEW k \in Jobs
        PROVE  Spawning(d, k)' <=> Spawning(d, k) \/ (d = c /\ k = j /\ lanes[w] = <<>>)
    BY <1>1, <2>1 DEF StartAdmit, Spawning, Return, ClientTypeOK, HasLane
  <2>3. SpawnsOnce'
    BY <2>1, <2>2 DEF SpawnsOnce
  <2>4. ASSUME NEW v \in Workspaces
        PROVE  IF lanes'[v] = <<>>
               THEN ~\E k \in Jobs : Serves(k, v)'
               ELSE \E k \in Jobs : Serves(k, v)' /\ \A l \in Jobs : Serves(l, v)' => l = k
    <3>1. CASE v # w
      <4>1. lanes'[v] = lanes[v]
        BY <2>1, <3>1 DEF QueueTypeOK
      <4>2. ASSUME NEW k \in Jobs PROVE Serves(k, v)' <=> Serves(k, v)
        BY <2>1, <2>2, <3>1 DEF Serves, QueueTypeOK
      <4>. QED
        BY <4>1, <4>2 DEF LaneServedOnce
    <3>2. CASE v = w
      <4>1. lanes'[v] = Append(lanes[w], j) /\ lanes[w] \in Seq(Jobs)
        BY <2>1, <3>2 DEF QueueTypeOK
      <4>2. lanes'[v] # <<>>
        BY <4>1, AppendFacts
      <4>3. ASSUME NEW k \in Jobs
            PROVE  Serves(k, v)' <=> Serves(k, v) \/ (k = j /\ lanes[w] = <<>>)
        BY <2>1, <2>2, <3>2 DEF Serves, QueueTypeOK
      <4>. QED
        BY <3>2, <4>2, <4>3 DEF LaneServedOnce
    <3>. QED
      BY <3>1, <3>2
  <2>. QED
    BY <2>3, <2>4 DEF LaneServedOnce
<1>2. ASSUME NEW c \in Clients, StartSpawn(c) PROVE LaneServedOnce' /\ SpawnsOnce'
  <2>1. cjob[c] \in Jobs /\ Spawning(c, cjob[c]) /\ wsOf' = wsOf /\ lanes' = lanes
    BY <1>2 DEF StartSpawn, Spawning, IInv, RequestsOwn, queueVars
  <2>2. worker' = [worker EXCEPT ![cjob[c]] = "pick"]
    BY <1>2 DEF StartSpawn
  <2>3. ASSUME NEW d \in Clients, NEW k \in Jobs PROVE Spawning(d, k)' <=> Spawning(d, k) /\ d # c
    BY <1>2 DEF StartSpawn, Spawning, Goto, ClientTypeOK
  <2>4. ASSUME NEW k \in Jobs, NEW v \in Workspaces PROVE Serves(k, v)' <=> Serves(k, v)
    BY <2>1, <2>2, <2>3 DEF Serves, WorkerTypeOK, SpawnsOnce, Spawning
  <2>5. SpawnsOnce'
    BY <2>1, <2>2, <2>3 DEF SpawnsOnce, WorkerTypeOK
  <2>. QED
    BY <2>1, <2>4, <2>5 DEF LaneServedOnce
<1>3. ASSUME NEW k \in Jobs, SameSpawning, UNCHANGED <<lanes, wsOf>>,
             worker[k] \notin {"none", "done"}, worker'[k] \notin {"none", "done"},
             \A l \in Jobs : l # k => worker'[l] = worker[l]
      PROVE  LaneServedOnce' /\ SpawnsOnce'
  BY <1>3 DEF LaneServedOnce, Serves, SpawnsOnce
<1>4. ASSUME NEW k \in Jobs, WorkerPick(k), SameSpawning PROVE LaneServedOnce' /\ SpawnsOnce'
  <2>1. Serves(k, wsOf[k]) /\ wsOf[k] \in Workspaces
    BY <1>4, WorkerLane DEF WorkerPick, Serves
  <2>2. lanes[wsOf[k]] # <<>>
    BY <2>1 DEF LaneServedOnce
  <2>. QED
    BY <1>3, <1>4, <2>2 DEF WorkerPick, WorkerTypeOK, queueVars
<1>5. ASSUME NEW k \in Jobs, SameSpawning,
             \/ AcquireSlot(k) \/ AbandonSlot(k) \/ BeginRun(k)
             \/ RunStep(k) \/ WorkerFinish(k) \/ WorkerFinishFails(k)
      PROVE  LaneServedOnce' /\ SpawnsOnce'
  BY <1>3, <1>5 DEF AcquireSlot, AbandonSlot, BeginRun, RunStep, RunEnds, RunLosesEvent, EndBody,
     WorkerFinish, WorkerFinishFails, WorkerTypeOK, queueVars
<1>6. ASSUME NEW k \in Jobs, WorkerRemove(k), SameSpawning PROVE LaneServedOnce' /\ SpawnsOnce'
  <2>. DEFINE w == wsOf[k]
  <2>1. /\ w \in Workspaces /\ Serves(k, w) /\ lanes[w] \in Seq(Jobs) /\ lanes[w] # <<>>
    BY <1>6, WorkerLane DEF WorkerRemove, Serves, IInv, WorksOnHead, Serving
  <2>2. /\ wsOf' = wsOf
        /\ \A v \in Workspaces : v # w => lanes'[v] = lanes[v]
        /\ lanes'[w] = Tail(lanes[w])
        /\ worker'[k] = IF Len(lanes[w]) = 1 THEN "done" ELSE "pick"
        /\ \A l \in Jobs : l # k => worker'[l] = worker[l]
    BY <1>6, <2>1 DEF WorkerRemove, QueueTypeOK, WorkerTypeOK, LastInLane
  <2>3. \A l \in Jobs : Serves(l, w) => l = k
    BY <2>1 DEF LaneServedOnce
  <2>4. (lanes'[w] = <<>>) <=> (Len(lanes[w]) = 1)
    BY <2>1, <2>2, TailFacts
  <2>5. worker[k] = "remove" /\ ~\E d \in Clients : Spawning(d, k)
    BY <1>6 DEF WorkerRemove, SpawnsOnce
  <2>6. ASSUME NEW l \in Jobs, NEW v \in Workspaces, v # w PROVE Serves(l, v)' <=> Serves(l, v)
    BY <1>6, <2>1, <2>2, <2>6 DEF Serves
  <2>7. ASSUME NEW l \in Jobs, NEW v \in Workspaces, v = w
        PROVE  Serves(l, v)' <=> l = k /\ Len(lanes[w]) # 1
    <3>1. CASE l = k
      BY <1>6, <2>2, <2>5, <2>7, <3>1 DEF Serves
    <3>2. CASE l # k
      BY <1>6, <2>2, <2>3, <2>7, <3>2 DEF Serves
    <3>. QED
      BY <3>1, <3>2
  <2>8. SpawnsOnce'
    BY <1>6, <2>2, <2>5 DEF SpawnsOnce
  <2>9. ASSUME NEW v \in Workspaces
        PROVE  IF lanes'[v] = <<>>
               THEN ~\E l \in Jobs : Serves(l, v)'
               ELSE \E l \in Jobs : Serves(l, v)' /\ \A m \in Jobs : Serves(m, v)' => m = l
    <3>1. CASE v # w
      <4>1. lanes'[v] = lanes[v] /\ \A l \in Jobs : Serves(l, v)' <=> Serves(l, v)
        BY <2>2, <2>6, <3>1
      <4>. QED
        BY <4>1 DEF LaneServedOnce
    <3>2. CASE v = w
      BY <2>4, <2>7, <3>2
    <3>. QED
      BY <3>1, <3>2
  <2>. QED
    BY <2>8, <2>9 DEF LaneServedOnce
<1>7. CASE Restart
  BY <1>7 DEF Restart, LaneServedOnce, Serves, SpawnsOnce, Spawning
<1>. QED
  BY <1>0, <1>1, <1>2, <1>4, <1>5, <1>6, <1>7, SpawningFrame, LaneSteps, WorkerSteps DEF workerVars

\* The jobs of a lane belong to its workspace.
LEMMA LanesNext == ASSUME IInv, [Next]_vars PROVE LanesOwn'
<1>. QueueTypeOK /\ LanesOwn
  BY DEF IInv, TypeOK
<1>0. CASE UNCHANGED <<registered, lanes, wsOf>>
  BY <1>0 DEF LanesOwn
<1>1. ASSUME NEW c \in Clients, NEW j \in Jobs, NEW q \in BOOLEAN, StartAdmit(c, j, q) PROVE LanesOwn'
  <2>. DEFINE w == cws[c]
  <2>1. w \in Workspaces /\ \A v \in Workspaces : ~InLane(j, v)
    BY <1>1, AdmitFresh DEF Known
  <2>2. /\ wsOf' = [wsOf EXCEPT ![j] = w]
        /\ lanes' = [lanes EXCEPT ![w] = Append(@, j)]
    BY <1>1 DEF StartAdmit
  <2>3. ASSUME NEW v \in Workspaces, NEW i \in 1..Len(lanes'[v]) PROVE wsOf'[lanes'[v][i]] = v
    <3>1. \A n \in 1..Len(lanes[v]) : lanes[v][n] \in Jobs /\ wsOf'[lanes[v][n]] = v
      BY <2>1, <2>2 DEF LanesOwn, InLane, QueueTypeOK
    <3>2. CASE v # w
      BY <2>1, <2>2, <2>3, <3>1, <3>2 DEF QueueTypeOK
    <3>3. CASE v = w
      <4>1. lanes'[v] = Append(lanes[v], j) /\ lanes[v] \in Seq(Jobs) /\ wsOf'[j] = w
        BY <2>1, <2>2, <3>3 DEF QueueTypeOK
      <4>2. i \in 1..Len(lanes[v]) \/ i = Len(lanes[v]) + 1
        BY <2>3, <4>1, AppendFacts
      <4>. QED
        BY <3>1, <3>3, <4>1, <4>2, AppendFacts
    <3>. QED
      BY <3>2, <3>3
  <2>. QED
    BY <2>3 DEF LanesOwn
<1>2. ASSUME NEW k \in Jobs, WorkerRemove(k) PROVE LanesOwn'
  <2>. DEFINE w == wsOf[k]
  <2>1. w \in Workspaces /\ lanes[w] \in Seq(Jobs) /\ lanes[w] # <<>>
    BY <1>2, WorkerLane DEF WorkerRemove, IInv, WorksOnHead, Serving
  <2>2. wsOf' = wsOf /\ lanes' = [lanes EXCEPT ![w] = Tail(@)]
    BY <1>2 DEF WorkerRemove
  <2>3. ASSUME NEW v \in Workspaces, NEW i \in 1..Len(lanes'[v]) PROVE wsOf'[lanes'[v][i]] = v
    <3>1. CASE v # w
      BY <2>1, <2>2, <2>3, <3>1 DEF LanesOwn, QueueTypeOK
    <3>2. CASE v = w
      <4>1. lanes'[v] = Tail(lanes[v])
        BY <2>1, <2>2, <3>2 DEF QueueTypeOK
      <4>2. lanes'[v][i] = lanes[v][i + 1] /\ i + 1 \in 1..Len(lanes[v])
        BY <2>1, <2>3, <3>2, <4>1, TailFacts
      <4>. QED
        BY <2>2, <4>2 DEF LanesOwn
    <3>. QED
      BY <3>1, <3>2
  <2>. QED
    BY <2>3 DEF LanesOwn
<1>3. CASE Restart
  BY <1>3 DEF Restart, LanesOwn
<1>. QED
  BY <1>0, <1>1, <1>2, <1>3, LaneSteps

\* A worker works on the first job of its lane until it removes it.
LEMMA HeadNext == ASSUME IInv, [Next]_vars PROVE WorksOnHead'
<1>. QueueTypeOK /\ WorkerTypeOK /\ WorksOnHead
  BY DEF IInv, TypeOK
<1>0. CASE UNCHANGED <<worker, current, lanes, wsOf>>
  BY <1>0 DEF WorksOnHead
<1>1. ASSUME NEW c \in Clients, NEW j \in Jobs, NEW q \in BOOLEAN, StartAdmit(c, j, q) PROVE WorksOnHead'
  <2>1. cws[c] \in Workspaces /\ worker[j] = "none"
    BY <1>1, AdmitFresh DEF Known
  <2>2. ASSUME NEW k \in Jobs, worker'[k] \in Serving
        PROVE  lanes'[wsOf'[k]] # <<>> /\ current'[k] = Head(lanes'[wsOf'[k]])
    <3>1. worker' = worker /\ current' = current
      BY <1>1 DEF StartAdmit, workerVars
    <3>2. k # j /\ wsOf'[k] = wsOf[k]
      BY <2>1, <2>2, <3>1, <1>1 DEF StartAdmit, QueueTypeOK, Serving
    <3>3. wsOf[k] \in Workspaces /\ lanes[wsOf[k]] \in Seq(Jobs)
      BY <2>2, <3>1, WorkerLane DEF Serving
    <3>4. lanes[wsOf[k]] # <<>> /\ current[k] = Head(lanes[wsOf[k]])
      BY <2>2, <3>1 DEF WorksOnHead
    <3>5. CASE wsOf[k] = cws[c]
      <4>1. lanes'[wsOf[k]] = Append(lanes[wsOf[k]], j)
        BY <1>1, <3>3, <3>5 DEF StartAdmit, QueueTypeOK
      <4>. QED
        BY <4>1, <3>1, <3>2, <3>3, <3>4, AppendFacts
    <3>6. CASE wsOf[k] # cws[c]
      BY <1>1, <2>1, <3>1, <3>2, <3>3, <3>4, <3>6 DEF StartAdmit, QueueTypeOK
    <3>. QED
      BY <3>5, <3>6
  <2>. QED
    BY <2>2 DEF WorksOnHead
<1>2. ASSUME NEW c \in Clients, StartSpawn(c) PROVE WorksOnHead'
  BY <1>2, RequestJob DEF WorkerTypeOK, WorksOnHead, StartSpawn, queueVars, Serving
<1>3. ASSUME NEW k \in Jobs, WorkerPick(k) PROVE WorksOnHead'
  BY <1>3 DEF WorkerTypeOK, WorksOnHead, WorkerPick, queueVars, Serving
<1>4. ASSUME NEW k \in Jobs,
             \/ AcquireSlot(k) \/ AbandonSlot(k) \/ BeginRun(k)
             \/ RunStep(k) \/ WorkerFinish(k) \/ WorkerFinishFails(k)
      PROVE  WorksOnHead'
  BY <1>4 DEF WorkerTypeOK, WorksOnHead, AcquireSlot, AbandonSlot, BeginRun, RunStep, RunEnds,
     RunLosesEvent, WorkerFinish, WorkerFinishFails, EndBody, queueVars, Serving
<1>5. ASSUME NEW k \in Jobs, WorkerRemove(k) PROVE WorksOnHead'
  <2>1. wsOf[k] \in Workspaces
    BY <1>5, WorkerLane DEF WorkerRemove
  <2>2. ASSUME NEW l \in Jobs, worker[l] \in Serving, wsOf[l] = wsOf[k] PROVE l = k
    BY <1>5, <2>1, <2>2 DEF IInv, LaneServedOnce, Serves, WorkerRemove, Serving
  <2>3. ASSUME NEW l \in Jobs, worker'[l] \in Serving
        PROVE  lanes'[wsOf'[l]] # <<>> /\ current'[l] = Head(lanes'[wsOf'[l]])
    <3>1. l # k
      BY <1>5, <2>3 DEF WorkerRemove, WorkerTypeOK, Serving
    <3>2. worker[l] \in Serving /\ current'[l] = current[l] /\ wsOf' = wsOf
      BY <1>5, <2>3, <3>1 DEF WorkerRemove, WorkerTypeOK
    <3>3. wsOf[l] # wsOf[k] /\ wsOf[l] \in Workspaces
      BY <2>2, <3>1, <3>2, WorkerLane DEF Serving
    <3>4. lanes'[wsOf[l]] = lanes[wsOf[l]]
      BY <1>5, <3>3 DEF WorkerRemove, QueueTypeOK
    <3>. QED
      BY <3>2, <3>4 DEF WorksOnHead
  <2>. QED
    BY <2>3 DEF WorksOnHead
<1>6. CASE Restart
  BY <1>6 DEF Restart, WorksOnHead, Serving
<1>. QED
  BY <1>0, <1>1, <1>2, <1>3, <1>4, <1>5, <1>6, LaneSteps, WorkerSteps DEF workerVars

\* Only a restart resets a token or a finished flag.
LEMMA FlagsStay ==
  ASSUME IInv, [Next]_vars
  PROVE  Restart \/ \A i \in Jobs : /\ finished[i] => finished'[i]
                                    /\ cancelled[i] => cancelled'[i]
<1>. DEFINE Stay == \A i \in Jobs : /\ finished[i] => finished'[i]
                                    /\ cancelled[i] => cancelled'[i]
<1>. RecordTypeOK
  BY DEF IInv, TypeOK
<1>1. ASSUME NEW j, NEW how, Finish(j, how) PROVE Stay
  BY <1>1 DEF Finish, RecordTypeOK, recordVars
<1>2. ASSUME UNCHANGED <<cancelled, finished>> PROVE Stay
  BY <1>2
<1>3. ASSUME NEW c \in Clients, NEW q \in BOOLEAN, CancelMark(c, q) PROVE Stay
  BY <1>3 DEF CancelMark, RecordTypeOK
<1>4. ASSUME NEW k \in Jobs, RunLosesEvent(k) \/ WorkerFinishFails(k) PROVE Stay
  BY <1>4 DEF RunLosesEvent, WorkerFinishFails, RecordTypeOK
<1>5. ASSUME ShutdownCancel PROVE Stay
  BY <1>5 DEF ShutdownCancel, RecordTypeOK
<1>6. ASSUME NEW c \in Clients, CancelFinish(c) \/ CancelFinishFails(c) PROVE Stay
  BY <1>1, <1>2, <1>6 DEF CancelFinish, CancelFinishFails
<1>7. ASSUME NEW k \in Jobs, WorkerFinish(k) PROVE Stay
  BY <1>1, <1>7 DEF WorkerFinish
<1>8. ASSUME NEW c \in Clients, NEW j \in Jobs, NEW q \in BOOLEAN,
             StartAdmit(c, j, q) \/ StartOrphan(c, j, q)
      PROVE  Stay
  BY <1>2, <1>8 DEF StartAdmit, StartOrphan
<1>9. ASSUME NEW j \in Jobs, Pause(j) \/ Resume(j) \/ BeginRun(j) PROVE Stay
  BY <1>2, <1>9 DEF Pause, Resume, BeginRun
<1>. QED
  BY <1>2, <1>3, <1>4, <1>5, <1>6, <1>7, <1>8, <1>9, RecordSteps DEF recordVars

\* A manual change and an unfinished job never hold one workspace.
LEMMA ManualNext == ASSUME IInv, [Next]_vars PROVE ManualIsAlone'
<1>. QueueTypeOK /\ RecordTypeOK /\ ManualIsAlone
  BY DEF IInv, TypeOK
<1>. DEFINE Grows == \A j \in Jobs : finished[j] => finished'[j]
<1>1. Grows \/ Restart
  BY FlagsStay
<1>2. ASSUME Grows, UNCHANGED <<registered, lanes, wsOf>>, UNCHANGED manual PROVE ManualIsAlone'
  BY <1>2 DEF ManualIsAlone, QueueTypeOK
<1>3. ASSUME NEW c \in Clients, NEW j \in Jobs, NEW q \in BOOLEAN, StartAdmit(c, j, q)
      PROVE  ManualIsAlone'
  BY <1>3, AdmitFresh DEF StartAdmit, Admits, ManualIsAlone, QueueTypeOK
<1>4. ASSUME NEW k \in Jobs, WorkerRemove(k) PROVE ManualIsAlone'
  <2>1. wsOf[k] \in Workspaces /\ lanes[wsOf[k]] \in Seq(Jobs) /\ lanes[wsOf[k]] # <<>>
    BY <1>4, WorkerLane DEF WorkerRemove, IInv, WorksOnHead, Serving
  <2>2. /\ finished' = finished /\ manual' = manual
        /\ lanes' = [lanes EXCEPT ![wsOf[k]] = Tail(@)]
    BY <1>4 DEF WorkerRemove, recordVars
  <2>3. \A i \in 1..Len(Tail(lanes[wsOf[k]])) :
           /\ i + 1 \in 1..Len(lanes[wsOf[k]])
           /\ Tail(lanes[wsOf[k]])[i] = lanes[wsOf[k]][i + 1]
    BY <2>1, TailFacts
  <2>. QED
    BY <2>1, <2>2, <2>3 DEF ManualIsAlone, QueueTypeOK
<1>5. ASSUME NEW c \in Clients, NEW w \in Workspaces, Reserve(c, w) PROVE ManualIsAlone'
  <2>1. \A i \in 1..Len(lanes[w]) : lanes[w][i] \in Jobs
    BY DEF QueueTypeOK
  <2>2. \A i \in 1..Len(lanes[w]) : finished[lanes[w][i]]
    BY <1>5, <2>1 DEF Reserve, Busy, InLane
  <2>. QED
    BY <1>5, <2>2 DEF Reserve, ManualIsAlone, QueueTypeOK, recordVars
<1>6. ASSUME NEW c \in Clients, Release(c) PROVE ManualIsAlone'
  BY <1>6 DEF Release, ManualIsAlone, QueueTypeOK, recordVars
<1>7. CASE Restart
  BY <1>7 DEF Restart, ManualIsAlone
<1>. QED
  BY <1>1, <1>2, <1>3, <1>4, <1>5, <1>6, <1>7, LaneSteps, ManualSteps

-----------------------------------------------------------------------------
(* Records and rows                                                        *)

\* How a step other than a restart moves the record and the row of a job:
\* not at all, ...
Untouched(i) ==
    /\ status'[i] = status[i] /\ finished'[i] = finished[i]
    /\ db'[i] = db[i] /\ completions'[i] = completions[i]

\* ... its row is created, ...
Created(i) ==
    /\ db[i] = "none" /\ ~Known(i) /\ ~finished[i] /\ status[i] \notin Live
    /\ db'[i] = "queued" /\ ~finished'[i] /\ completions'[i] = completions[i]

\* ... its unfinished row is written again (the write may fail), ...
Saved(i) ==
    /\ db[i] \in Live /\ ~finished[i]
    /\ db'[i] \in Live /\ ~finished'[i] /\ completions'[i] = completions[i]

\* ... it is finished, ...
Ended(i) ==
    /\ db[i] \in Live /\ ~finished[i]
    /\ db'[i] \in Terminal /\ finished'[i] /\ completions'[i] = completions[i] + 1
    /\ status'[i] \in Terminal

\* ... or it is finished in memory only, because the write failed.
EndLost(i) ==
    /\ db[i] \in Live /\ ~finished[i]
    /\ db'[i] = db[i] /\ finished'[i] /\ completions'[i] = completions[i]
    /\ status'[i] \in Terminal

RowMove(i) == Untouched(i) \/ Created(i) \/ Saved(i) \/ Ended(i) \/ EndLost(i)

\* Engine::finish ends a known job once.
LEMMA FinishMoves ==
  ASSUME IInv, NEW j \in Jobs, Known(j), NEW how \in Outcomes, Finish(j, how), NEW i \in Jobs
  PROVE  RowMove(i)
<1>. RecordTypeOK
  BY DEF IInv, TypeOK
<1>1. CASE finished[j] \/ i # j
  BY <1>1 DEF Finish, RecordTypeOK, RowMove, Untouched, recordVars
<1>2. CASE ~finished[j] /\ i = j
  <2>1. db[i] \in Live
    BY <1>2, KnownRow
  <2>2. FinalStatus(j, how) \in Terminal
    BY FinalIsTerminal
  <2>3. db'[i] = FinalStatus(j, how) /\ status'[i] = FinalStatus(j, how)
    BY <1>2 DEF Finish, RecordTypeOK
  <2>4. finished'[i] /\ completions'[i] = completions[i] + 1
    BY <1>2 DEF Finish, RecordTypeOK
  <2>. QED
    BY <1>2, <2>1, <2>2, <2>3, <2>4 DEF RowMove, Ended
<1>. QED
  BY <1>1, <1>2

\* A saved status leaves a live row live, whether or not the write fails.
LEMMA SaveMoves ==
  ASSUME IInv, NEW j \in Jobs, db[j] \in Live, ~finished[j], NEW new,
         (SaveStatus(j, new) /\ new \in Live) \/ SaveFails(j, new),
         UNCHANGED <<finished, completions>>, NEW i \in Jobs
  PROVE  RowMove(i)
<1>. RecordTypeOK
  BY DEF IInv, TypeOK
<1>1. CASE i = j
  BY <1>1 DEF SaveStatus, SaveFails, RecordTypeOK, RowMove, Saved
<1>2. CASE i # j
  BY <1>2 DEF SaveStatus, SaveFails, RecordTypeOK, RowMove, Untouched
<1>. QED
  BY <1>1, <1>2

\* Every step but a restart moves every job in one of these ways.
LEMMA RowMoves ==
  ASSUME IInv, [Next]_vars, NEW i \in Jobs
  PROVE  RowMove(i) \/ Restart
<1>. RecordTypeOK
  BY DEF IInv, TypeOK
<1>0. ASSUME UNCHANGED <<status, finished, db, completions>> PROVE RowMove(i)
  BY <1>0 DEF RowMove, Untouched
<1>l. ASSUME NEW j \in Jobs, status[j] \in {"queued", "running", "paused"}
      PROVE  db[j] \in Live /\ ~finished[j]
  BY <1>l, StatusFacts DEF IInv, KnownJobs
<1>1. ASSUME NEW c \in Clients, NEW j \in Jobs, NEW q \in BOOLEAN,
             StartAdmit(c, j, q) \/ StartOrphan(c, j, q)
      PROVE  RowMove(i)
  <2>1. ~Known(j) /\ ~finished[j] /\ status[j] \notin Live /\ db[j] = "none"
    BY <1>1, AdmitFresh DEF StartAdmit, StartOrphan
  <2>2. /\ db' = [db EXCEPT ![j] = "queued"] /\ UNCHANGED <<finished, completions>>
        /\ \A n \in Jobs : n # j => status'[n] = status[n]
    BY <1>1 DEF StartAdmit, StartOrphan, SaveStatus, RecordTypeOK
  <2>3. CASE i = j
    BY <2>1, <2>2, <2>3 DEF RowMove, Created, RecordTypeOK
  <2>4. CASE i # j
    BY <2>2, <2>4 DEF RowMove, Untouched, RecordTypeOK
  <2>. QED
    BY <2>3, <2>4
<1>2. ASSUME NEW c \in Clients, NEW q \in BOOLEAN, CancelMark(c, q) PROVE RowMove(i)
  <2>1. cjob[c] \in Jobs /\ UNCHANGED <<finished, completions>>
    BY <1>2, RequestJob DEF CancelMark
  <2>2. CASE status[cjob[c]] \in {"queued", "running"}
    BY <1>2, <1>l, <2>1, <2>2, SaveMoves, StatusFacts DEF CancelMark
  <2>3. CASE status[cjob[c]] \notin {"queued", "running"}
    BY <1>0, <1>2, <2>1, <2>3 DEF CancelMark
  <2>. QED
    BY <2>2, <2>3
<1>3. ASSUME NEW c \in Clients, CancelFinish(c) PROVE RowMove(i)
  BY <1>3, RequestJob, FinishMoves DEF CancelFinish, Outcomes
<1>4. ASSUME NEW c \in Clients, CancelFinishFails(c) PROVE RowMove(i)
  <2>1. cjob[c] \in Jobs /\ ~finished[cjob[c]] /\ db[cjob[c]] \in Live
    BY <1>4, RequestJob, KnownRow DEF CancelFinishFails
  <2>. QED
    BY <1>4, <2>1, SaveMoves DEF CancelFinishFails
<1>5. ASSUME NEW j \in Jobs, Pause(j) \/ Resume(j) PROVE RowMove(i)
  BY <1>5, <1>l, SaveMoves, StatusFacts DEF Pause, Resume
<1>6. ASSUME NEW k \in Jobs, BeginRun(k) PROVE RowMove(i)
  <2>1. current[k] \in Jobs /\ UNCHANGED <<finished, completions>>
    BY <1>6, WorkerJob DEF BeginRun, Serving
  <2>2. CASE cancelled[current[k]]
    BY <1>0, <1>6, <2>1, <2>2 DEF BeginRun
  <2>3. CASE ~cancelled[current[k]]
    <3>1. ~finished[current[k]] /\ db[current[k]] \in Live
      BY <1>6, <2>3, WorkerJob, KnownRow DEF BeginRun, Serving, IInv, RunsUnfinished
    <3>. QED
      BY <1>6, <2>1, <2>3, <3>1, SaveMoves, StatusFacts DEF BeginRun
  <2>. QED
    BY <2>2, <2>3
<1>7. ASSUME NEW k \in Jobs, WorkerFinish(k) PROVE RowMove(i)
  <2>1. current[k] \in Jobs /\ Known(current[k]) /\ outcome[k] \in Outcomes
    BY <1>7, WorkerJob DEF WorkerFinish, Serving, IInv, TypeOK, WorkerTypeOK
  <2>. QED
    BY <1>7, <2>1, FinishMoves DEF WorkerFinish
<1>8. ASSUME NEW k \in Jobs, WorkerFinishFails(k) PROVE RowMove(i)
  <2>1. current[k] \in Jobs /\ ~finished[current[k]] /\ db[current[k]] \in Live
    BY <1>8, WorkerJob, KnownRow DEF WorkerFinishFails, Serving
  <2>2. CASE i = current[k]
    BY <1>8, <2>1, <2>2, StatusFacts DEF WorkerFinishFails, SaveFails, RowMove, EndLost, RecordTypeOK
  <2>3. CASE i # current[k]
    BY <1>8, <2>1, <2>3 DEF WorkerFinishFails, SaveFails, RowMove, Untouched, RecordTypeOK
  <2>. QED
    BY <2>2, <2>3
<1>9. ASSUME NEW k \in Jobs, RunLosesEvent(k) PROVE RowMove(i)
  BY <1>0, <1>9 DEF RunLosesEvent
<1>10. ASSUME ShutdownCancel PROVE RowMove(i)
  BY <1>0, <1>10 DEF ShutdownCancel
<1>. QED
  BY <1>0, <1>1, <1>2, <1>3, <1>4, <1>5, <1>6, <1>7, <1>8, <1>9, <1>10, RecordSteps DEF recordVars

\* A job becomes known to this process only by its start.
LEMMA KnownGrows ==
  ASSUME IInv, [Next]_vars, NEW i \in Jobs, Known(i)'
  PROVE  ~Restart /\ (Known(i) \/ \E c \in Clients, q \in BOOLEAN : StartAdmit(c, i, q))
<1>. QueueTypeOK /\ WorkerTypeOK /\ ClientTypeOK
  BY DEF IInv, TypeOK
<1>. DEFINE Admitted == \E c \in Clients, q \in BOOLEAN : StartAdmit(c, i, q)
<1>1. ~Restart
  <2>. SUFFICES ASSUME Restart PROVE FALSE
    OBVIOUS
  <2>1. registered' = {} /\ worker'[i] = "none" /\ \A c \in Clients : cjob'[c] # i
    BY JobQueueAssumption DEF Restart
  <2>2. \A w \in Workspaces : lanes'[w] = <<>>
    BY DEF Restart
  <2>. QED
    BY <2>1, <2>2 DEF Known, InLane
<1>2. ASSUME i \in registered' PROVE Known(i) \/ Admitted
  BY <1>1, <1>2, LaneSteps DEF Known, StartAdmit, WorkerRemove
<1>3. ASSUME worker'[i] # "none" PROVE Known(i) \/ Admitted
  <2>1. ASSUME NEW c \in Clients, StartSpawn(c) PROVE Known(i)
    BY <1>3, <2>1 DEF Known, StartSpawn, WorkerTypeOK
  <2>2. ASSUME NEW k \in Jobs,
               \/ WorkerPick(k) \/ AcquireSlot(k) \/ AbandonSlot(k) \/ BeginRun(k)
               \/ RunStep(k) \/ WorkerFinish(k) \/ WorkerFinishFails(k) \/ WorkerRemove(k)
        PROVE  Known(i)
    <3>1. worker[k] # "none" /\ \A l \in Jobs : l # k => worker'[l] = worker[l]
      BY <2>2 DEF WorkerTypeOK, WorkerPick, AcquireSlot, AbandonSlot, BeginRun, RunStep, RunEnds,
         RunLosesEvent, EndBody, WorkerFinish, WorkerFinishFails, WorkerRemove
    <3>. QED
      BY <1>3, <3>1 DEF Known
  <2>. QED
    BY <1>1, <1>3, <2>1, <2>2, WorkerSteps DEF Known, workerVars
<1>4. ASSUME NEW w \in Workspaces, InLane(i, w)' PROVE Known(i) \/ Admitted
  <2>1. ASSUME NEW c \in Clients, NEW j \in Jobs, NEW q \in BOOLEAN, StartAdmit(c, j, q), i # j
        PROVE  InLane(i, w)
    <3>1. lanes[w] \in Seq(Jobs) /\ (lanes'[w] = lanes[w] \/ lanes'[w] = Append(lanes[w], j))
      BY <2>1 DEF StartAdmit, QueueTypeOK
    <3>2. PICK n \in 1..Len(lanes'[w]) : lanes'[w][n] = i
      BY <1>4 DEF InLane
    <3>3. CASE lanes'[w] = lanes[w]
      BY <3>2, <3>3 DEF InLane
    <3>4. CASE lanes'[w] = Append(lanes[w], j)
      <4>1. /\ Len(lanes'[w]) = Len(lanes[w]) + 1 /\ Len(lanes[w]) \in Nat
            /\ \A m \in 1..Len(lanes[w]) : lanes'[w][m] = lanes[w][m]
            /\ lanes'[w][Len(lanes[w]) + 1] = j
        BY <3>1, <3>4, AppendProperties
      <4>2. n \in 1..Len(lanes[w])
        BY <2>1, <3>2, <4>1
      <4>. QED
        BY <3>2, <4>1, <4>2 DEF InLane
    <3>. QED
      BY <3>1, <3>3, <3>4
  <2>2. ASSUME NEW k \in Jobs, WorkerRemove(k) PROVE InLane(i, w)
    <3>1. lanes[wsOf[k]] \in Seq(Jobs) /\ lanes[wsOf[k]] # <<>> /\ wsOf[k] \in Workspaces
      BY <2>2, WorkerLane DEF WorkerRemove, IInv, WorksOnHead, Serving
    <3>2. PICK n \in 1..Len(lanes'[w]) : lanes'[w][n] = i
      BY <1>4 DEF InLane
    <3>3. CASE w # wsOf[k]
      <4>1. lanes'[w] = lanes[w]
        BY <2>2, <3>1, <3>3 DEF WorkerRemove, QueueTypeOK
      <4>. QED
        BY <3>2, <4>1 DEF InLane
    <3>4. CASE w = wsOf[k]
      <4>1. lanes'[w] = Tail(lanes[w])
        BY <2>2, <3>1, <3>4 DEF WorkerRemove, QueueTypeOK
      <4>2. n + 1 \in 1..Len(lanes[w]) /\ lanes[w][n + 1] = i
        BY <3>1, <3>2, <3>4, <4>1, TailFacts
      <4>. QED
        BY <4>2 DEF InLane
    <3>. QED
      BY <3>3, <3>4
  <2>3. ASSUME UNCHANGED <<registered, lanes, wsOf>> PROVE InLane(i, w)
    BY <1>4, <2>3 DEF InLane
  <2>. QED
    BY <1>1, <2>1, <2>2, <2>3, LaneSteps DEF Known
<1>5. ASSUME NEW d \in Clients, cjob'[d] = i PROVE Known(i) \/ Admitted
  <2>1. i # NoJob
    BY JobQueueAssumption
  <2>2. ASSUME NEW c \in Clients, ClientRequest(c) PROVE Known(i)
    BY <1>5, <2>2 DEF ClientTypeOK, ClientRequest, StartCheck, Reserve, CancelLookup, WaitBegin, Known
  <2>3. ASSUME NEW c \in Clients, ClientStep(c) PROVE Known(i) \/ Admitted
    <3>1. ASSUME NEW j \in Jobs, NEW q \in BOOLEAN, StartAdmit(c, j, q) PROVE cjob[d] = i \/ i = j
      BY <1>5, <2>1, <3>1 DEF StartAdmit, Return, ClientTypeOK
    <3>2. ASSUME ~\E j \in Jobs, q \in BOOLEAN : StartAdmit(c, j, q) PROVE cjob[d] = i
      BY <1>5, <2>1, <2>3, <3>2 DEF ClientTypeOK, ClientStep, StartOrphan, StartRefuse, StartSpawn,
         StartPush, Release, CancelMark, CancelRefuse, CancelFront, CancelFinish, CancelFinishFails,
         WaitReturn, Return, Goto
    <3>. QED
      BY <3>1, <3>2 DEF Known
  <2>. QED
    BY <1>1, <1>5, <2>2, <2>3, ClientSteps DEF clientVars, Known
<1>. QED
  BY <1>1, <1>2, <1>3, <1>4, <1>5 DEF Known

\* A known job keeps its workspace, and its row tells whether it is finished.
LEMMA KnownNext == ASSUME IInv, [Next]_vars PROVE KnownJobs'
<1>. QueueTypeOK /\ KnownJobs
  BY DEF IInv, TypeOK
<1>1. CASE Restart
  <2>1. \A j \in Jobs : ~Known(j)' /\ status'[j] = "none" /\ ~finished'[j]
    BY <1>1, KnownGrows DEF Restart
  <2>. QED
    BY <2>1, StatusFacts DEF KnownJobs
<1>2. CASE ~Restart
  <2>1. ASSUME NEW i \in Jobs, Known(i)' PROVE wsOf'[i] \in Workspaces
    <3>1. ASSUME NEW c \in Clients, NEW q \in BOOLEAN, StartAdmit(c, i, q) PROVE wsOf'[i] \in Workspaces
      BY <3>1, AdmitFresh DEF StartAdmit, QueueTypeOK
    <3>2. ASSUME Known(i), ~\E c \in Clients, q \in BOOLEAN : StartAdmit(c, i, q)
          PROVE  wsOf'[i] = wsOf[i]
      BY <1>2, <3>2, LaneSteps DEF StartAdmit, WorkerRemove, QueueTypeOK
    <3>. QED
      BY <2>1, <3>1, <3>2, KnownGrows DEF KnownJobs
  <2>2. ASSUME NEW i \in Jobs, Known(i)' PROVE db'[i] # "none" /\ (db'[i] \in Terminal => finished'[i])
    <3>1. Known(i) \/ \E c \in Clients, q \in BOOLEAN : StartAdmit(c, i, q)
      BY <2>2, KnownGrows
    <3>2. RowMove(i)
      BY <1>2, RowMoves
    <3>3. Untouched(i) => Known(i)
      BY <3>1, StatusFacts DEF Untouched, StartAdmit, SaveStatus, IInv, TypeOK, RecordTypeOK
    <3>. QED
      BY <3>2, <3>3, StatusFacts DEF RowMove, Untouched, Created, Saved, Ended, EndLost, KnownJobs
  <2>3. ASSUME NEW i \in Jobs
        PROVE  /\ status'[i] \in Live => db'[i] \in Live /\ ~finished'[i]
               /\ finished'[i] => db'[i] # "none"
    BY <1>2, RowMoves, StatusFacts DEF RowMove, Untouched, Created, Saved, Ended, EndLost, KnownJobs
  <2>. QED
    BY <2>1, <2>2, <2>3 DEF KnownJobs
<1>. QED
  BY <1>1, <1>2

\* A job completes once (finish, recover_jobs).
LEMMA CompletedNext == ASSUME IInv, [Next]_vars PROVE CompletedOnce'
<1>. RecordTypeOK /\ CompletedOnce
  BY DEF IInv, TypeOK
<1>1. CASE Restart
  BY <1>1, StatusFacts DEF Restart, CompletedOnce, RecordTypeOK
<1>2. ASSUME NEW i \in Jobs, RowMove(i)
      PROVE  completions'[i] = IF db'[i] \in Terminal THEN 1 ELSE 0
  BY <1>2, StatusFacts DEF RowMove, Untouched, Created, Saved, Ended, EndLost, CompletedOnce
<1>. QED
  BY <1>1, <1>2, RowMoves DEF CompletedOnce

\* A request past its first step has its job or its workspace.
LEMMA RequestsNext == ASSUME IInv, [Next]_vars PROVE RequestsOwn'
<1>. ClientTypeOK /\ RequestsOwn
  BY DEF IInv, TypeOK
<1>1. CASE UNCHANGED clientVars
  BY <1>1 DEF clientVars, RequestsOwn
<1>2. ASSUME NEW c \in Clients, ClientRequest(c) PROVE RequestsOwn'
  BY <1>2 DEF ClientTypeOK, ClientRequest, StartCheck, Reserve, CancelLookup, WaitBegin, RequestsOwn
<1>3. ASSUME NEW c \in Clients, ClientStep(c) PROVE RequestsOwn'
  BY <1>3 DEF ClientTypeOK, ClientStep, StartAdmit, StartOrphan, StartRefuse, StartSpawn,
     StartPush, Release, CancelMark, CancelRefuse, CancelFront, CancelFinish, CancelFinishFails,
     WaitReturn, Return, Goto, RequestsOwn
<1>4. CASE Restart
  BY <1>4 DEF Restart, RequestsOwn
<1>. QED
  BY <1>1, <1>2, <1>3, <1>4, ClientSteps

\* A request finishes only cancelled jobs, none of which a body runs
\* (request_cancel_if).
LEMMA CancelsNext == ASSUME IInv, [Next]_vars PROVE FinishesCancelled'
<1>. RecordTypeOK /\ WorkerTypeOK /\ ClientTypeOK /\ FinishesCancelled
  BY DEF IInv, TypeOK
<1>1. CASE Restart
  BY <1>1 DEF Restart, FinishesCancelled
<1>2. CASE ~Restart
  <2>1. ASSUME NEW c \in Clients, cpc'[c] \in {"front", "finish"}
        PROVE  \/ cpc'[c] = cpc[c] /\ cjob'[c] = cjob[c]
               \/ cpc'[c] = "front" /\ cancelled'[cjob'[c]]
               \/ cpc[c] = "front" /\ cjob'[c] = cjob[c] /\ ~IsFront(cjob[c]) /\ UNCHANGED workerVars
    <3>1. CASE UNCHANGED clientVars
      BY <3>1 DEF clientVars
    <3>2. ASSUME NEW d \in Clients, ClientRequest(d) PROVE cpc'[c] = cpc[c] /\ cjob'[c] = cjob[c]
      BY <2>1, <3>2 DEF ClientTypeOK, ClientRequest, StartCheck, Reserve, CancelLookup, WaitBegin
    <3>3. ASSUME NEW d \in Clients, ClientStep(d), d # c PROVE cpc'[c] = cpc[c] /\ cjob'[c] = cjob[c]
      BY <3>3 DEF ClientTypeOK, ClientStep, StartAdmit, StartOrphan, StartRefuse, StartSpawn,
         StartPush, Release, CancelMark, CancelRefuse, CancelFront, CancelFinish, CancelFinishFails,
         WaitReturn, Return, Goto
    <3>4. ASSUME NEW q \in BOOLEAN, CancelMark(c, q)
          PROVE  cpc'[c] = "front" /\ cancelled'[cjob'[c]]
      <4>1. cjob[c] \in Jobs /\ cancelled' = [cancelled EXCEPT ![cjob[c]] = TRUE]
        BY <3>4, RequestJob DEF CancelMark
      <4>2. cjob'[c] = cjob[c] /\ cpc'[c] = "front"
        BY <2>1, <3>4 DEF CancelMark, Goto, Return, ClientTypeOK
      <4>. QED
        BY <4>1, <4>2 DEF RecordTypeOK
    <3>5. ASSUME CancelFront(c)
          PROVE  cpc[c] = "front" /\ cjob'[c] = cjob[c] /\ ~IsFront(cjob[c]) /\ UNCHANGED workerVars
      BY <2>1, <3>5 DEF CancelFront, Goto, ClientTypeOK
    <3>6. ASSUME ClientStep(c), ~CancelFront(c), ~\E q \in BOOLEAN : CancelMark(c, q) PROVE FALSE
      BY <2>1, <3>6 DEF ClientTypeOK, ClientStep, StartAdmit, StartOrphan, StartRefuse, StartSpawn,
         StartPush, Release, CancelRefuse, CancelFinish, CancelFinishFails, WaitReturn, Return, Goto
    <3>. QED
      BY <1>2, <3>1, <3>2, <3>3, <3>4, <3>5, <3>6, ClientSteps
  <2>2. ASSUME NEW c \in Clients, cpc'[c] \in {"front", "finish"} PROVE cancelled'[cjob'[c]]
    <3>1. CASE cpc[c] \in {"front", "finish"} /\ cjob'[c] = cjob[c]
      BY <1>2, <3>1, RequestJob, FlagsStay DEF FinishesCancelled
    <3>. QED
      BY <2>1, <2>2, <3>1
  <2>3. ASSUME NEW c \in Clients, cpc'[c] = "finish", NEW k \in Jobs, worker'[k] = "running"
        PROVE  current'[k] # cjob'[c]
    <3>1. cpc[c] \in {"front", "finish"} /\ cjob'[c] = cjob[c] /\ cancelled[cjob[c]]
      BY <2>1, <2>3 DEF FinishesCancelled
    <3>2. \/ worker[k] = "running" /\ current'[k] = current[k]
          \/ current'[k] = current[k] /\ ~cancelled[current[k]]
      <4>1. CASE UNCHANGED workerVars
        BY <2>3, <4>1 DEF workerVars
      <4>2. ASSUME NEW d \in Clients, StartSpawn(d) PROVE worker[k] = "running" /\ current'[k] = current[k]
        BY <2>3, <4>2 DEF StartSpawn, WorkerTypeOK
      <4>3. ASSUME NEW l \in Jobs, BeginRun(l)
            PROVE  \/ worker[k] = "running" /\ current'[k] = current[k]
                   \/ current'[k] = current[k] /\ ~cancelled[current[k]]
        BY <2>3, <4>3 DEF BeginRun, EndBody, WorkerTypeOK
      <4>4. ASSUME NEW l \in Jobs,
                   \/ WorkerPick(l) \/ AcquireSlot(l) \/ AbandonSlot(l) \/ RunStep(l)
                   \/ WorkerFinish(l) \/ WorkerFinishFails(l) \/ WorkerRemove(l)
            PROVE  worker[k] = "running" /\ current'[k] = current[k]
        BY <2>3, <4>4 DEF WorkerPick, AcquireSlot, AbandonSlot, RunStep, RunEnds, RunLosesEvent,
           EndBody, WorkerFinish, WorkerFinishFails, WorkerRemove, WorkerTypeOK
      <4>. QED
        BY <1>2, <4>1, <4>2, <4>3, <4>4, WorkerSteps
    <3>3. CASE worker[k] = "running" /\ current'[k] = current[k]
      <4>1. IsFront(current[k])
        BY <3>3, WorkerJob DEF Serving
      <4>2. CASE cpc[c] = "finish"
        BY <3>1, <3>3, <4>2 DEF FinishesCancelled
      <4>3. CASE cpc[c] # "finish"
        <5>1. ~IsFront(cjob[c])
          BY <2>1, <2>3, <4>3
        <5>. QED
          BY <3>1, <3>3, <4>1, <5>1
      <4>. QED
        BY <4>2, <4>3
    <3>. QED
      BY <3>1, <3>2, <3>3
  <2>. QED
    BY <2>2, <2>3 DEF FinishesCancelled
<1>. QED
  BY <1>1, <1>2

\* No job is finished while its body runs, and one finished while its worker
\* waits was cancelled (drain, request_cancel_if).
LEMMA RunsNext == ASSUME IInv, [Next]_vars PROVE RunsUnfinished'
<1>. RecordTypeOK /\ WorkerTypeOK /\ RunsUnfinished
  BY DEF IInv, TypeOK
<1>1. CASE Restart
  BY <1>1 DEF Restart, RunsUnfinished
<1>2. CASE ~Restart
  <2>. SUFFICES ASSUME NEW k \in Jobs, worker'[k] \in {"slot", "begin", "running"},
                       finished'[current'[k]]
                PROVE  worker'[k] # "running" /\ cancelled'[current'[k]]
    BY DEF RunsUnfinished
  \* What the step did to this worker.
  <2>1. \/ /\ worker[k] \in Serving /\ current'[k] = current[k]
           /\ worker'[k] = "running" => worker[k] = "running" \/ ~cancelled[current[k]]
           /\ worker[k] \in {"slot", "begin", "running"}
        \/ /\ worker'[k] = "slot" /\ finished' = finished /\ ~finished[current'[k]]
    <3>1. CASE UNCHANGED workerVars
      BY <3>1 DEF workerVars, Serving
    <3>2. ASSUME NEW d \in Clients, StartSpawn(d) PROVE worker[k] = worker'[k] /\ current'[k] = current[k]
      BY <3>2 DEF StartSpawn, WorkerTypeOK
    <3>3. CASE WorkerPick(k)
      BY <3>3 DEF WorkerPick, WorkerTypeOK, recordVars
    <3>4. ASSUME NEW l \in Jobs, l # k,
                 \/ WorkerPick(l) \/ AcquireSlot(l) \/ AbandonSlot(l) \/ RunStep(l) \/ BeginRun(l)
                 \/ WorkerFinish(l) \/ WorkerFinishFails(l) \/ WorkerRemove(l)
          PROVE  worker[k] = worker'[k] /\ current'[k] = current[k]
      BY <3>4 DEF WorkerPick, AcquireSlot, AbandonSlot, RunStep, RunEnds, RunLosesEvent, BeginRun,
         EndBody, WorkerFinish, WorkerFinishFails, WorkerRemove, WorkerTypeOK
    <3>5. CASE AcquireSlot(k) \/ BeginRun(k)
      BY <3>5 DEF AcquireSlot, BeginRun, EndBody, WorkerTypeOK, Serving
    <3>6. ASSUME \/ AbandonSlot(k) \/ RunStep(k)
                 \/ WorkerFinish(k) \/ WorkerFinishFails(k) \/ WorkerRemove(k)
          PROVE  FALSE
      BY <3>6 DEF AbandonSlot, RunStep, RunEnds, RunLosesEvent, EndBody, WorkerFinish,
         WorkerFinishFails, WorkerRemove, WorkerTypeOK
    <3>. QED
      BY <1>2, <3>1, <3>2, <3>3, <3>4, <3>5, <3>6, WorkerSteps DEF Serving
  <2>2. CASE /\ worker[k] \in Serving /\ current'[k] = current[k]
             /\ worker'[k] = "running" => worker[k] = "running" \/ ~cancelled[current[k]]
             /\ worker[k] \in {"slot", "begin", "running"}
    <3>. DEFINE j == current[k]
    <3>1. j \in Jobs /\ Known(j)
      BY <2>2, WorkerJob
    <3>2. ~finished[j] => cancelled[j] /\ worker[k] # "running" /\ worker' = worker
      <4>. SUFFICES ASSUME ~finished[j] PROVE cancelled[j] /\ worker[k] # "running" /\ worker' = worker
        OBVIOUS
      <4>1. finished' # finished
        BY <2>2
      <4>2. ASSUME NEW c \in Clients, CancelFinish(c)
            PROVE  cancelled[j] /\ worker[k] # "running" /\ worker' = worker
        <5>1. cjob[c] = j
          BY <2>2, <3>1, <4>2 DEF CancelFinish, Finish, RecordTypeOK, recordVars
        <5>. QED
          BY <4>2, <5>1 DEF CancelFinish, IInv, FinishesCancelled, workerVars
      <4>3. ASSUME NEW l \in Jobs, WorkerFinish(l) \/ WorkerFinishFails(l) PROVE FALSE
        <5>1. current[l] = j /\ worker[l] = "finish"
          BY <2>2, <3>1, <4>3 DEF WorkerFinish, WorkerFinishFails, Finish, RecordTypeOK, recordVars
        <5>. QED
          BY <2>2, <5>1, WorksAlone DEF Serving
      <4>. QED
        BY <1>2, <4>1, <4>2, <4>3, RecordSteps DEF recordVars, StartAdmit, StartOrphan, CancelMark,
           CancelFinishFails, Pause, Resume, BeginRun, RunLosesEvent, ShutdownCancel
    <3>3. cancelled[j] /\ worker[k] # "running"
      BY <2>2, <3>2 DEF RunsUnfinished
    <3>. QED
      BY <1>2, <2>2, <3>1, <3>3, FlagsStay
  <2>. QED
    BY <2>1, <2>2
<1>. QED
  BY <1>1, <1>2

-----------------------------------------------------------------------------
(* The theorems                                                            *)

\* The initial state satisfies the inductive invariant (Engine::open on a
\* database without jobs).
LEMMA InvInit == Init => IInv
<1>. SUFFICES ASSUME Init PROVE IInv
  OBVIOUS
<1>1. TypeOK
  BY TypeInit
<1>2. LaneServedOnce /\ SpawnsOnce /\ RequestsOwn
  BY DEF Init, LaneServedOnce, SpawnsOnce, RequestsOwn, Serves, Spawning
<1>3. ASSUME NEW j \in Jobs PROVE ~Known(j)
  <2>1. registered = {} /\ worker[j] = "none" /\ \A c \in Clients : cjob[c] # j
    BY JobQueueAssumption DEF Init
  <2>2. \A w \in Workspaces : lanes[w] = <<>>
    BY DEF Init
  <2>. QED
    BY <2>1, <2>2 DEF Known, InLane
<1>4. KnownJobs
  BY <1>3, StatusFacts DEF Init, KnownJobs
<1>5. LanesOwn /\ WorksOnHead /\ FinishesCancelled /\ RunsUnfinished /\ ManualIsAlone
  BY DEF Init, LanesOwn, WorksOnHead, Serving, FinishesCancelled, RunsUnfinished, ManualIsAlone
<1>6. CompletedOnce
  BY StatusFacts DEF Init, CompletedOnce
<1>. QED
  BY <1>1, <1>2, <1>4, <1>5, <1>6 DEF IInv

\* Every step preserves the inductive invariant.
LEMMA InvNext == IInv /\ [Next]_vars => IInv'
<1>. SUFFICES ASSUME IInv, [Next]_vars PROVE IInv'
  OBVIOUS
<1>1. TypeOK'
  BY QueueTypeNext, RecordTypeNext, WorkerTypeNext, ClientTypeNext, ShutdownTypeNext DEF TypeOK
<1>. QED
  BY <1>1, ServedNext, RequestsNext, KnownNext, LanesNext, HeadNext, CancelsNext, RunsNext,
     ManualNext, CompletedNext DEF IInv

\* The invariant that relates lanes, workers, requests, records and rows
\* holds in every reachable state of the scheduler.
THEOREM IInvariant == Spec => []IInv
  BY InvInit, InvNext, PTL DEF Spec

\* Every variable keeps its type.
THEOREM TypeCorrect == Spec => []TypeOK
<1>1. IInv => TypeOK
  BY DEF IInv
<1>. QED
  BY <1>1, IInvariant, PTL

\* Every lane with jobs has exactly one worker and an empty lane none
\* (engine.rs start_with_context, drain).
THEOREM ServedOnce == Spec => []LaneServedOnce
<1>1. IInv => LaneServedOnce
  BY DEF IInv
<1>. QED
  BY <1>1, IInvariant, PTL

\* A job has one completion event, written with its final row (engine.rs
\* finish, store.rs recover_jobs).
THEOREM CompletesOnce == Spec => []CompletedOnce
<1>1. IInv => CompletedOnce
  BY DEF IInv
<1>. QED
  BY <1>1, IInvariant, PTL

\* The invariant implies the exclusion.
LEMMA ExclusiveNow == IInv => ExclusiveWorkspace
<1>. SUFFICES ASSUME IInv, NEW w \in Workspaces, NEW k \in Jobs, Runs(k, w)
              PROVE  /\ manual[w] = NoClient
                     /\ lanes[w] # <<>> /\ current[k] = Head(lanes[w])
                     /\ \A l \in Jobs : Runs(l, w) => l = k
  BY DEF ExclusiveWorkspace
<1>1. lanes[w] # <<>> /\ current[k] = Head(lanes[w])
  BY DEF Runs, IInv, WorksOnHead, Serving
<1>2. \A l \in Jobs : Runs(l, w) => l = k
  BY <1>1 DEF Runs, Serves, IInv, LaneServedOnce
<1>3. lanes[w] \in Seq(Jobs) /\ 1 \in 1..Len(lanes[w]) /\ Head(lanes[w]) = lanes[w][1]
  BY <1>1, TailFacts DEF IInv, TypeOK, QueueTypeOK
<1>4. ~finished[lanes[w][1]]
  BY <1>1, <1>3 DEF Runs, IInv, RunsUnfinished
<1>5. manual[w] = NoClient
  BY <1>3, <1>4 DEF IInv, ManualIsAlone
<1>. QED
  BY <1>1, <1>2, <1>5

\* A workspace is used by at most one job body, that of the job queued there
\* first, and never beside a manual change (engine.rs reserve_workspace,
\* start_with_context, drain).
THEOREM Exclusion == Spec => []ExclusiveWorkspace
  BY ExclusiveNow, IInvariant, PTL

\* No step overwrites a final row (engine.rs pause_job, resume_job,
\* request_cancel_if, finish; store.rs recover_jobs).
THEOREM FinalStays == Spec => FinalRowsStay
<1>1. IInv /\ [Next]_vars => [\A j \in Jobs : db[j] \in Terminal => db'[j] = db[j]]_vars
  <2>. SUFFICES ASSUME IInv, [Next]_vars, NEW j \in Jobs, db[j] \in Terminal PROVE db'[j] = db[j]
    OBVIOUS
  <2>1. CASE Restart
    BY <2>1, StatusFacts DEF Restart
  <2>2. CASE RowMove(j)
    BY <2>2, StatusFacts DEF RowMove, Untouched, Created, Saved, Ended, EndLost
  <2>. QED
    BY <2>1, <2>2, RowMoves
<1>. QED
  BY <1>1, IInvariant, PTL DEF Spec, FinalRowsStay

\* A job cancelled before it started never starts (engine.rs run).
THEOREM CancelledStays == Spec => CancelledNeverStarts
<1>1. IInv /\ [Next]_vars =>
        [\A j \in Jobs : (cancelled[j] /\ status[j] \in {"queued", "cancelling"})
                             => status'[j] # "running"]_vars
  <2>. SUFFICES ASSUME IInv, [Next]_vars, NEW j \in Jobs, cancelled[j],
                       status[j] \in {"queued", "cancelling"}
                PROVE  status'[j] # "running"
    OBVIOUS
  <2>. RecordTypeOK
    BY DEF IInv, TypeOK
  <2>1. ASSUME NEW i \in Jobs, NEW how \in Outcomes, Finish(i, how) PROVE status'[j] # "running"
    BY <2>1, FinalIsTerminal, StatusFacts DEF Finish, RecordTypeOK, recordVars
  <2>2. CASE UNCHANGED recordVars
    BY <2>2 DEF recordVars
  <2>3. ASSUME NEW c \in Clients, NEW i \in Jobs, NEW q \in BOOLEAN,
               StartAdmit(c, i, q) \/ StartOrphan(c, i, q) \/ CancelMark(c, q)
        PROVE  status'[j] # "running"
    BY <2>3 DEF StartAdmit, StartOrphan, CancelMark, SaveStatus, SaveFails, RecordTypeOK
  <2>4. ASSUME NEW c \in Clients, CancelFinish(c) PROVE status'[j] # "running"
    BY <2>1, <2>4, RequestJob DEF CancelFinish, Outcomes
  <2>5. ASSUME NEW c \in Clients, CancelFinishFails(c) PROVE status'[j] # "running"
    BY <2>5, FinalIsTerminal, StatusFacts DEF CancelFinishFails, SaveFails, RecordTypeOK, Outcomes
  <2>6. ASSUME NEW i \in Jobs, Pause(i) \/ Resume(i) \/ BeginRun(i) PROVE status'[j] # "running"
    BY <2>6 DEF Pause, Resume, BeginRun, SaveStatus, SaveFails, RecordTypeOK
  <2>7. ASSUME NEW k \in Jobs, WorkerFinish(k) PROVE status'[j] # "running"
    <3>1. current[k] \in Jobs /\ outcome[k] \in Outcomes
      BY <2>7, WorkerJob DEF WorkerFinish, Serving, IInv, TypeOK, WorkerTypeOK
    <3>. QED
      BY <2>1, <2>7, <3>1 DEF WorkerFinish
  <2>8. ASSUME NEW k \in Jobs, WorkerFinishFails(k) \/ RunLosesEvent(k) PROVE status'[j] # "running"
    BY <2>8 DEF WorkerFinishFails, RunLosesEvent, SaveFails, RecordTypeOK
  <2>9. CASE ShutdownCancel \/ Restart
    BY <2>9 DEF ShutdownCancel, Restart
  <2>. QED
    BY <2>2, <2>3, <2>4, <2>5, <2>6, <2>7, <2>8, <2>9, RecordSteps
<1>. QED
  BY <1>1, IInvariant, PTL DEF Spec, CancelledNeverStarts

-----------------------------------------------------------------------------
(***************************************************************************)
(* When no database write fails the rows tell what the process owes, and a *)
(* shutdown leaves nothing behind: FaultlessInv is inductive.              *)
(***************************************************************************)

\* Without a failed write no job is finished in memory only, and every
\* created row has its job.
LEMMA RowMovesFaultless ==
  ASSUME ~StoreFaults, IInv, [Next]_vars, NEW i \in Jobs
  PROVE  \/ Restart
         \/ Untouched(i) \/ Saved(i) \/ Ended(i)
         \/ Created(i) /\ \E c \in Clients, q \in BOOLEAN : StartAdmit(c, i, q)
<1>. RecordTypeOK
  BY DEF IInv, TypeOK
<1>1. ASSUME EndLost(i) PROVE FALSE
  <2>1. ~finished[i] /\ finished'[i] /\ db[i] \in Live /\ db'[i] = db[i]
    BY <1>1 DEF EndLost
  <2>2. ASSUME NEW j \in Jobs, NEW how \in Outcomes, Finish(j, how) PROVE FALSE
    <3>1. j = i /\ db'[i] = FinalStatus(j, how)
      BY <2>1, <2>2 DEF Finish, RecordTypeOK, recordVars
    <3>. QED
      BY <2>1, <3>1, FinalIsTerminal, StatusFacts
  <2>3. ASSUME NEW c \in Clients, CancelFinish(c) PROVE FALSE
    BY <2>2, <2>3, RequestJob DEF CancelFinish, Outcomes
  <2>4. ASSUME NEW k \in Jobs, WorkerFinish(k) PROVE FALSE
    <3>1. current[k] \in Jobs /\ outcome[k] \in Outcomes
      BY <2>4, WorkerJob DEF WorkerFinish, Serving, IInv, TypeOK, WorkerTypeOK
    <3>. QED
      BY <2>2, <2>4, <3>1 DEF WorkerFinish
  <2>. QED
    BY <2>1, <2>3, <2>4, RecordSteps DEF recordVars, StartAdmit, StartOrphan, CancelMark,
       CancelFinishFails, SaveFails, Pause, Resume, BeginRun, RunLosesEvent, WorkerFinishFails,
       ShutdownCancel, Restart, RecordTypeOK
<1>2. ASSUME Created(i), ~Restart PROVE \E c \in Clients, q \in BOOLEAN : StartAdmit(c, i, q)
  <2>1. db[i] = "none" /\ db'[i] = "queued" /\ ~Known(i) /\ ~finished[i] /\ status[i] \notin Live
    BY <1>2 DEF Created
  <2>2. ASSUME NEW j \in Jobs, Known(j), NEW how, Finish(j, how) PROVE FALSE
    BY <2>1, <2>2 DEF Finish, RecordTypeOK, recordVars
  <2>3. ASSUME NEW c \in Clients, CancelFinish(c) PROVE FALSE
    BY <2>2, <2>3, RequestJob DEF CancelFinish
  <2>4. ASSUME NEW k \in Jobs, WorkerFinish(k) PROVE FALSE
    BY <2>2, <2>4, WorkerJob DEF WorkerFinish, Serving
  <2>5. ASSUME NEW c \in Clients, NEW q \in BOOLEAN, CancelMark(c, q) PROVE FALSE
    <3>1. cjob[c] # i /\ cjob[c] \in Jobs
      BY <2>1, <2>5, RequestJob DEF CancelMark
    <3>. QED
      BY <2>1, <2>5, <3>1 DEF CancelMark, SaveStatus, SaveFails, RecordTypeOK
  <2>6. ASSUME NEW j \in Jobs, Pause(j) \/ Resume(j) PROVE FALSE
    BY <2>1, <2>6 DEF Pause, Resume, SaveStatus, SaveFails, RecordTypeOK, Live
  <2>7. ASSUME NEW k \in Jobs, BeginRun(k) PROVE FALSE
    <3>1. current[k] # i /\ current[k] \in Jobs
      BY <2>1, <2>7, WorkerJob DEF BeginRun, Serving
    <3>. QED
      BY <2>1, <2>7, <3>1 DEF BeginRun, SaveStatus, SaveFails, RecordTypeOK
  <2>8. ASSUME NEW c \in Clients, NEW j \in Jobs, NEW q \in BOOLEAN, StartAdmit(c, j, q) PROVE j = i
    BY <2>1, <2>8 DEF StartAdmit, SaveStatus, RecordTypeOK
  <2>. QED
    BY <1>2, <2>1, <2>3, <2>4, <2>5, <2>6, <2>7, <2>8, RecordSteps DEF recordVars, StartOrphan,
       CancelFinishFails, SaveFails, RunLosesEvent, WorkerFinishFails, ShutdownCancel
<1>. QED
  BY <1>1, <1>2, RowMoves DEF RowMove

\* A worker reaches the removal of its job only with the job finished
\* (drain: after finish, or when the picked job had finished).
LEMMA RemovesNext == ASSUME IInv, RemovesFinished, [Next]_vars PROVE RemovesFinished'
<1>. RecordTypeOK /\ WorkerTypeOK
  BY DEF IInv, TypeOK
<1>1. CASE Restart
  BY <1>1 DEF Restart, RemovesFinished
<1>2. CASE ~Restart
  <2>. SUFFICES ASSUME NEW k \in Jobs, worker'[k] = "remove" PROVE finished'[current'[k]]
    BY DEF RemovesFinished
  <2>1. CASE worker[k] = "remove" /\ current'[k] = current[k]
    <3>1. current[k] \in Jobs /\ finished[current[k]]
      BY <2>1, WorkerJob DEF RemovesFinished, Serving
    <3>. QED
      BY <1>2, <2>1, <3>1, FlagsStay
  <2>2. CASE WorkerPick(k)
    BY <2>2 DEF WorkerPick, WorkerTypeOK, recordVars
  <2>3. CASE WorkerFinish(k)
    <3>1. current[k] \in Jobs /\ current' = current
      BY <2>3, WorkerJob DEF WorkerFinish, Serving
    <3>. QED
      BY <2>3, <3>1 DEF WorkerFinish, Finish, recordVars, RecordTypeOK
  <2>4. CASE WorkerFinishFails(k)
    <3>1. current[k] \in Jobs /\ current' = current
      BY <2>4, WorkerJob DEF WorkerFinishFails, Serving
    <3>. QED
      BY <2>4, <3>1 DEF WorkerFinishFails, RecordTypeOK
  <2>5. ASSUME NEW l \in Jobs, l # k,
               \/ WorkerPick(l) \/ AcquireSlot(l) \/ AbandonSlot(l) \/ RunStep(l) \/ BeginRun(l)
               \/ WorkerFinish(l) \/ WorkerFinishFails(l) \/ WorkerRemove(l)
        PROVE  worker[k] = "remove" /\ current'[k] = current[k]
    BY <2>5 DEF WorkerPick, AcquireSlot, AbandonSlot, RunStep, RunEnds, RunLosesEvent, BeginRun,
       EndBody, WorkerFinish, WorkerFinishFails, WorkerRemove, WorkerTypeOK
  <2>6. ASSUME AcquireSlot(k) \/ AbandonSlot(k) \/ RunStep(k) \/ BeginRun(k) \/ WorkerRemove(k)
        PROVE  FALSE
    BY <2>6 DEF AcquireSlot, AbandonSlot, RunStep, RunEnds, RunLosesEvent, BeginRun, EndBody,
       WorkerRemove, WorkerTypeOK
  <2>7. ASSUME NEW c \in Clients, StartSpawn(c) PROVE worker[k] = "remove" /\ current'[k] = current[k]
    BY <2>7 DEF StartSpawn, WorkerTypeOK
  <2>8. CASE UNCHANGED workerVars
    BY <2>1, <2>8 DEF workerVars
  <2>. QED
    BY <1>2, <2>1, <2>2, <2>3, <2>4, <2>5, <2>6, <2>7, <2>8, WorkerSteps
<1>. QED
  BY <1>1, <1>2

\* A row is unfinished exactly as long as its job is registered and not
\* finished (start_with_context, finish, drain, recover_jobs).
LEMMA RowsNext ==
  ASSUME ~StoreFaults, FaultlessInv, [Next]_vars PROVE RowsMatchMemory'
<1>. IInv /\ IInv' /\ RowsMatchMemory /\ RemovesFinished
  BY InvNext DEF FaultlessInv
<1>1. CASE Restart
  BY <1>1, StatusFacts DEF Restart, RowsMatchMemory
<1>2. CASE ~Restart
  <2>. SUFFICES ASSUME NEW i \in Jobs
                PROVE  (db'[i] \in Live) <=> (i \in registered' /\ ~finished'[i])
    BY DEF RowsMatchMemory
  <2>1. ASSUME i \in registered', ~finished'[i] PROVE db'[i] \in Live
    <3>1. Known(i)'
      BY <2>1 DEF Known
    <3>. QED
      BY <2>1, <3>1, StatusFacts DEF IInv, KnownJobs, TypeOK, RecordTypeOK
  <2>2. ASSUME db'[i] \in Live PROVE i \in registered' /\ ~finished'[i]
    <3>1. CASE \E c \in Clients, q \in BOOLEAN : Created(i) /\ StartAdmit(c, i, q)
      BY <3>1 DEF Created, StartAdmit
    <3>2. CASE Untouched(i) \/ Saved(i) \/ Ended(i)
      <4>1. db[i] \in Live /\ ~finished'[i] /\ i \in registered /\ ~finished[i]
        BY <2>2, <3>2, StatusFacts DEF Untouched, Saved, Ended, RowsMatchMemory
      <4>2. ASSUME NEW k \in Jobs, WorkerRemove(k) PROVE i \in registered'
        BY <4>1, <4>2 DEF WorkerRemove, RemovesFinished
      <4>. QED
        BY <1>2, <4>1, <4>2, LaneSteps DEF StartAdmit
    <3>. QED
      BY <1>2, <3>1, <3>2, RowMovesFaultless
  <2>. QED
    BY <2>1, <2>2
<1>. QED
  BY <1>1, <1>2

\* A shutdown sees every job: no start is admitted once closing is set, and
\* finished jobs stay finished (start_with_context, shutdown).
LEMMA ShutdownNext == ASSUME IInv, ShutdownSees, [Next]_vars PROVE ShutdownSees'
<1>. TypeOK
  BY DEF IInv
<1>1. CASE Restart
  BY <1>1 DEF Restart, ShutdownSees
<1>2. CASE ~Restart
  <2>1. \A j \in Jobs : finished[j] => finished'[j]
    BY <1>2, FlagsStay
  <2>2. ASSUME closing PROVE registered' \subseteq registered
    BY <1>2, <2>2, LaneSteps DEF StartAdmit, Admits, WorkerRemove
  <2>3. CASE UNCHANGED <<closing, shutdown, snapshot>>
    BY <2>1, <2>2, <2>3 DEF ShutdownSees, TypeOK, ShutdownTypeOK
  <2>4. CASE ShutdownBegin
    BY <2>4 DEF ShutdownBegin, ShutdownSees
  <2>5. CASE ShutdownCancel
    BY <2>5 DEF ShutdownCancel, ShutdownSees, queueVars
  <2>6. CASE ShutdownDrained
    BY <2>1, <2>6 DEF ShutdownDrained, ShutdownSees, queueVars, TypeOK, ShutdownTypeOK
  <2>7. CASE ShutdownDone
    BY <2>1, <2>7 DEF ShutdownDone, ShutdownSees, queueVars, TypeOK, ShutdownTypeOK
  <2>8. CASE ShutdownTimeout
    BY <2>8 DEF ShutdownTimeout, ShutdownSees
  <2>. QED
    BY <1>2, <2>3, <2>4, <2>5, <2>6, <2>7, <2>8, ShutdownSteps DEF shutdownVars, ShutdownStep, StartPush
<1>. QED
  BY <1>1, <1>2

\* FaultlessInv holds initially and every step preserves it.
LEMMA FaultlessNext ==
  ASSUME ~StoreFaults
  PROVE  /\ Init => FaultlessInv
         /\ FaultlessInv /\ [Next]_vars => FaultlessInv'
<1>1. Init => FaultlessInv
  <2>. SUFFICES ASSUME Init PROVE FaultlessInv
    OBVIOUS
  <2>1. RemovesFinished /\ ShutdownSees /\ RowsMatchMemory
    BY StatusFacts DEF Init, RemovesFinished, ShutdownSees, RowsMatchMemory
  <2>. QED
    BY <2>1, InvInit DEF FaultlessInv
<1>2. FaultlessInv /\ [Next]_vars => FaultlessInv'
  BY InvNext, RemovesNext, ShutdownNext, RowsNext DEF FaultlessInv
<1>. QED
  BY <1>1, <1>2

\* FaultlessInv holds in every state when no database write fails.
THEOREM FaultlessInvariant == ~StoreFaults => (Spec => []FaultlessInv)
<1>. SUFFICES ASSUME ~StoreFaults PROVE Spec => []FaultlessInv
  OBVIOUS
<1>1. (Init => FaultlessInv) /\ (FaultlessInv /\ [Next]_vars => FaultlessInv')
  BY FaultlessNext
<1>. QED
  BY <1>1, PTL DEF Spec

\* When no database write fails, a row is unfinished exactly as long as this
\* process owes its job an end (engine.rs start_with_context, finish, drain).
THEOREM RowsMatch == ~StoreFaults => (Spec => []RowsMatchMemory)
<1>1. FaultlessInv => RowsMatchMemory
  BY DEF FaultlessInv
<1>. QED
  BY <1>1, FaultlessInvariant, PTL

\* A shutdown that reported success leaves no unfinished row and no running
\* body, when no database write fails: no start slips past the closing flag
\* (engine.rs shutdown).
THEOREM Quiesces == ~StoreFaults => (Spec => []ShutdownQuiesces)
<1>1. FaultlessInv => ShutdownQuiesces
  <2>. SUFFICES ASSUME FaultlessInv, shutdown = "done", NEW j \in Jobs
                PROVE  db[j] \notin Live /\ worker[j] # "running"
    BY DEF ShutdownQuiesces
  <2>1. \A i \in Jobs : db[i] \notin Live
    BY DEF FaultlessInv, ShutdownSees, RowsMatchMemory
  <2>2. worker[j] # "running"
    <3>. SUFFICES ASSUME worker[j] = "running" PROVE FALSE
      OBVIOUS
    <3>1. current[j] \in Jobs /\ Known(current[j]) /\ ~finished[current[j]]
      BY WorkerJob DEF FaultlessInv, IInv, RunsUnfinished, Serving
    <3>. QED
      BY <2>1, <3>1, KnownRow DEF FaultlessInv
  <2>. QED
    BY <2>1, <2>2
<1>. QED
  BY <1>1, FaultlessInvariant, PTL

-----------------------------------------------------------------------------
(***************************************************************************)
(* When no database write fails the scheduler implements JobService: every *)
(* step is a step of JobService, or changes neither the row nor the holder *)
(* it is seen with.                                                        *)
(***************************************************************************)

\* The two variables of JobService as the scheduler shows them.
LEMMA ServiceVars ==
  /\ Service!vars = <<[j \in Jobs |-> RowOf(j)], [w \in Workspaces |-> HolderOf(w)]>>
  /\ Service!vars' = <<[j \in Jobs |-> RowOf(j)'], [w \in Workspaces |-> HolderOf(w)']>>
  BY DEF Service!vars

\* How a job is seen depends on its row and on whether its body was reached.
LEMMA RowIs ==
  ASSUME NEW j \in Jobs
  PROVE  /\ db[j] = "none" => RowOf(j) = "none"
         /\ db[j] \in Terminal => RowOf(j) = "ended"
         /\ db[j] \in Live => RowOf(j) = IF Spent(j) THEN "spent" ELSE "open"
         /\ db'[j] = "none" => RowOf(j)' = "none"
         /\ db'[j] \in Terminal => RowOf(j)' = "ended"
         /\ db'[j] \in Live => RowOf(j)' = IF Spent(j)' THEN "spent" ELSE "open"
<1>1. CASE db[j] = "none"
  BY <1>1, StatusFacts DEF RowOf
<1>2. CASE db[j] \in Terminal
  BY <1>2, StatusFacts DEF RowOf
<1>3. CASE db[j] \in Live
  BY <1>3, StatusFacts DEF RowOf
<1>4. CASE db'[j] = "none"
  BY <1>4, StatusFacts DEF RowOf
<1>5. CASE db'[j] \in Terminal
  BY <1>5, StatusFacts DEF RowOf
<1>6. CASE db'[j] \in Live
  BY <1>6, StatusFacts DEF RowOf
<1>. QED
  BY <1>1, <1>2, <1>3, <1>4, <1>5, <1>6

\* A workspace is seen with its manual change, the job whose body runs, or
\* nobody.
LEMMA HolderIs ==
  ASSUME IInv, NEW w \in Workspaces
  PROVE  /\ manual[w] # NoClient => HolderOf(w) = manual[w] /\ HolderOf(w) \in Clients
         /\ \A k \in Jobs : Runs(k, w) => HolderOf(w) = current[k]
         /\ (manual[w] = NoClient /\ \A k \in Jobs : ~Runs(k, w)) => HolderOf(w) = NoClient
<1>1. ExclusiveWorkspace
  BY ExclusiveNow
<1>2. manual[w] # NoClient => HolderOf(w) = manual[w] /\ HolderOf(w) \in Clients
  BY DEF HolderOf, IInv, TypeOK, QueueTypeOK
<1>3. ASSUME NEW k \in Jobs, Runs(k, w) PROVE HolderOf(w) = current[k]
  <2>1. manual[w] = NoClient /\ \A l \in Jobs : Runs(l, w) => l = k
    BY <1>1, <1>3 DEF ExclusiveWorkspace
  <2>2. BodyOf(w) = {current[k]}
    BY <1>3, <2>1 DEF BodyOf
  <2>. QED
    BY <2>1, <2>2 DEF HolderOf
<1>4. ASSUME manual[w] = NoClient, \A k \in Jobs : ~Runs(k, w) PROVE HolderOf(w) = NoClient
  <2>1. BodyOf(w) = {}
    BY <1>4 DEF BodyOf
  <2>. QED
    BY <1>4, <2>1 DEF HolderOf
<1>. QED
  BY <1>2, <1>3, <1>4

\* A job holds a workspace only while its body runs.
LEMMA HoldsRunning ==
  ASSUME IInv, NEW w \in Workspaces, NEW j \in Jobs, HolderOf(w) = j
  PROVE  \E k \in Jobs : Runs(k, w) /\ current[k] = j
<1>1. j \notin Clients /\ j # NoClient
  BY JobQueueAssumption
<1>. QED
  BY <1>1, HolderIs

\* The bodies that run, and those that have returned, are what they were.
BodiesStay ==
    \A k \in Jobs : (worker[k] \in {"running", "finish"} \/ worker'[k] \in {"running", "finish"}) =>
        worker'[k] = worker[k] /\ current'[k] = current[k] /\ wsOf'[k] = wsOf[k]

\* Only these steps begin or end the body of a job.
LEMMA BodySteps ==
  ASSUME IInv, [Next]_vars
  PROVE  \/ BodiesStay
         \/ \E k \in Jobs : \/ AbandonSlot(k) \/ BeginRun(k) \/ RunStep(k)
                            \/ WorkerFinish(k) \/ WorkerFinishFails(k)
         \/ Restart
<1>. QueueTypeOK /\ WorkerTypeOK
  BY DEF IInv, TypeOK
<1>1. ASSUME UNCHANGED workerVars, ~Restart PROVE BodiesStay
  <2>1. ASSUME NEW c \in Clients, NEW j \in Jobs, NEW q \in BOOLEAN, StartAdmit(c, j, q)
        PROVE  worker[j] = "none" /\ \A k \in Jobs : k # j => wsOf'[k] = wsOf[k]
    BY <2>1, AdmitFresh DEF Known, StartAdmit, QueueTypeOK
  <2>. QED
    BY <1>1, <2>1, LaneSteps DEF BodiesStay, workerVars, WorkerRemove
<1>2. ASSUME NEW c \in Clients, StartSpawn(c) PROVE BodiesStay
  <2>1. worker[cjob[c]] = "none" /\ cjob[c] \in Jobs
    BY <1>2 DEF StartSpawn, IInv, SpawnsOnce, RequestsOwn, Spawning
  <2>. QED
    BY <1>2, <2>1 DEF StartSpawn, BodiesStay, WorkerTypeOK, queueVars
<1>3. ASSUME NEW k \in Jobs, WorkerPick(k) \/ AcquireSlot(k) \/ WorkerRemove(k) PROVE BodiesStay
  BY <1>3 DEF WorkerPick, AcquireSlot, WorkerRemove, BodiesStay, WorkerTypeOK, queueVars
<1>. QED
  BY <1>1, <1>2, <1>3, WorkerSteps

\* With the same bodies and manual changes every workspace is seen with the
\* same holder, and a job whose row stays live or as it was is seen as before.
LEMMA SeenAlike ==
  ASSUME IInv, IInv', BodiesStay
  PROVE  /\ \A w \in Workspaces : manual'[w] = manual[w] => HolderOf(w)' = HolderOf(w)
         /\ \A j \in Jobs : db'[j] = db[j] \/ (db[j] \in Live /\ db'[j] \in Live)
                                => RowOf(j)' = RowOf(j)
<1>1. ASSUME NEW w \in Workspaces, manual'[w] = manual[w] PROVE HolderOf(w)' = HolderOf(w)
  <2>1. BodyOf(w)' = BodyOf(w)
    BY DEF BodyOf, Runs, BodiesStay
  <2>. QED
    BY <1>1, <2>1 DEF HolderOf
<1>2. ASSUME NEW j \in Jobs, db'[j] = db[j] \/ (db[j] \in Live /\ db'[j] \in Live)
      PROVE  RowOf(j)' = RowOf(j)
  <2>1. Spent(j)' <=> Spent(j)
    BY DEF Spent, BodiesStay
  <2>2. db[j] \in Statuses
    BY DEF IInv, TypeOK, RecordTypeOK
  <2>. QED
    BY <1>2, <2>1, <2>2, RowIs, StatusFacts
<1>. QED
  BY <1>1, <1>2

\* A step that moves one row and no holder, and one that moves one holder.
LEMMA MovesRow ==
  ASSUME NEW j \in Jobs, \A i \in Jobs : i # j => RowOf(i)' = RowOf(i),
         \A w \in Workspaces : HolderOf(w)' = HolderOf(w)
  PROVE  /\ RowOf(j) = "none" /\ RowOf(j)' = "open" => Service!Accept(j)
         /\ RowOf(j) = "open" /\ RowOf(j)' = "spent" => Service!Withdraw(j)
         /\ RowOf(j) \in {"open", "spent"} /\ RowOf(j)' = "ended"
               /\ (\A w \in Workspaces : HolderOf(w) # j) => Service!End(j)
<1>. DEFINE r == [i \in Jobs |-> RowOf(i)]
            h == [w \in Workspaces |-> HolderOf(w)]
<1>1. h' = h
  OBVIOUS
<1>2. \A v : RowOf(j)' = v => r' = [r EXCEPT ![j] = v]
  OBVIOUS
<1>3. r[j] = RowOf(j) /\ \A w \in Workspaces : h[w] = HolderOf(w)
  OBVIOUS
<1>. HIDE DEF r, h
<1>4. /\ Service!Accept(j) <=> r[j] = "none" /\ r' = [r EXCEPT ![j] = "open"] /\ UNCHANGED h
      /\ Service!Withdraw(j) <=> r[j] = "open" /\ r' = [r EXCEPT ![j] = "spent"] /\ UNCHANGED h
      /\ Service!End(j) <=> /\ r[j] \in {"open", "spent"} /\ r' = [r EXCEPT ![j] = "ended"]
                            /\ (\A w \in Workspaces : h[w] # j) /\ UNCHANGED h
  BY DEF Service!Accept, Service!Withdraw, Service!End, r, h
<1>. QED
  BY <1>1, <1>2, <1>3, <1>4

LEMMA MovesHolder ==
  ASSUME NEW w \in Workspaces, \A v \in Workspaces : v # w => HolderOf(v)' = HolderOf(v)
  PROVE  /\ \A c \in Clients :
              (\A i \in Jobs : RowOf(i)' = RowOf(i)) /\ HolderOf(w) = NoClient /\ HolderOf(w)' = c
                  => Service!Hold(w, c)
         /\ (\A i \in Jobs : RowOf(i)' = RowOf(i)) /\ HolderOf(w)' = NoClient => Service!Free(w)
         /\ \A j \in Jobs :
              (\A i \in Jobs : i # j => RowOf(i)' = RowOf(i)) /\ RowOf(j) = "open"
              /\ RowOf(j)' = "spent" /\ HolderOf(w) = NoClient /\ HolderOf(w)' = j
                  => Service!StartBody(w, j)
<1>. DEFINE r == [i \in Jobs |-> RowOf(i)]
            h == [v \in Workspaces |-> HolderOf(v)]
<1>1. (\A i \in Jobs : RowOf(i)' = RowOf(i)) => r' = r
  OBVIOUS
<1>2. \A u : HolderOf(w)' = u => h' = [h EXCEPT ![w] = u]
  OBVIOUS
<1>3. h[w] = HolderOf(w) /\ \A i \in Jobs : r[i] = RowOf(i)
  OBVIOUS
<1>4. ASSUME NEW j \in Jobs, \A i \in Jobs : i # j => RowOf(i)' = RowOf(i), RowOf(j)' = "spent"
      PROVE  r' = [r EXCEPT ![j] = "spent"]
  BY <1>4
<1>. HIDE DEF r, h
<1>5. Service!Free(w) <=> h' = [h EXCEPT ![w] = NoClient] /\ UNCHANGED r
  BY DEF Service!Free, r, h
<1>6. ASSUME NEW c \in Clients
      PROVE  Service!Hold(w, c) <=> h[w] = NoClient /\ h' = [h EXCEPT ![w] = c] /\ UNCHANGED r
  BY DEF Service!Hold, r, h
<1>7. ASSUME NEW j \in Jobs
      PROVE  Service!StartBody(w, j) <=> /\ r[j] = "open" /\ h[w] = NoClient
                                         /\ r' = [r EXCEPT ![j] = "spent"]
                                         /\ h' = [h EXCEPT ![w] = j]
  BY DEF Service!StartBody, r, h
<1>8. ASSUME NEW c \in Clients, \A i \in Jobs : RowOf(i)' = RowOf(i),
             HolderOf(w) = NoClient, HolderOf(w)' = c
      PROVE  Service!Hold(w, c)
  BY <1>1, <1>2, <1>3, <1>6, <1>8
<1>9. ASSUME NEW j \in Jobs, \A i \in Jobs : i # j => RowOf(i)' = RowOf(i),
             RowOf(j) = "open", RowOf(j)' = "spent", HolderOf(w) = NoClient, HolderOf(w)' = j
      PROVE  Service!StartBody(w, j)
  BY <1>2, <1>3, <1>4, <1>7, <1>9
<1>10. ASSUME \A i \in Jobs : RowOf(i)' = RowOf(i), HolderOf(w)' = NoClient PROVE Service!Free(w)
  BY <1>1, <1>2, <1>5, <1>10
<1>. QED
  BY <1>8, <1>9, <1>10

\* The job of a body that runs or has returned was reached by one worker.
LEMMA SpentBy ==
  ASSUME IInv, NEW k \in Jobs, worker[k] \in Serving
  PROVE  Spent(current[k]) <=> worker[k] \in {"running", "finish"}
<1>1. ASSUME NEW l \in Jobs, current[l] = current[k], worker[l] \in {"running", "finish"} PROVE l = k
  BY <1>1, WorksAlone DEF Serving
<1>. QED
  BY <1>1 DEF Spent

-----------------------------------------------------------------------------
(* Step by step                                                            *)

\* A start accepts its job.
LEMMA AdmitAccepts ==
  ASSUME IInv, IInv', NEW c \in Clients, NEW j \in Jobs, NEW q \in BOOLEAN, StartAdmit(c, j, q)
  PROVE  Service!Accept(j)
<1>. QueueTypeOK /\ RecordTypeOK
  BY DEF IInv, TypeOK
<1>1. db[j] = "none" /\ db'[j] = "queued" /\ \A i \in Jobs : i # j => db'[i] = db[i]
  BY DEF StartAdmit, SaveStatus, RecordTypeOK
<1>2. ~Known(j) /\ UNCHANGED workerVars /\ UNCHANGED manual
  BY AdmitFresh DEF StartAdmit
<1>3. BodiesStay
  BY <1>2 DEF StartAdmit, QueueTypeOK, Known, BodiesStay, workerVars
<1>4. ~Spent(j) /\ ~Spent(j)'
  BY <1>2, WorkerJob DEF Spent, Serving, workerVars
<1>5. RowOf(j) = "none" /\ RowOf(j)' = "open"
  BY <1>1, <1>4, RowIs, StatusFacts
<1>. QED
  BY <1>1, <1>2, <1>3, <1>5, SeenAlike, MovesRow

\* Ending an unfinished job whose body does not run is an End.
LEMMA FinishEnds ==
  ASSUME IInv, IInv', NEW j \in Jobs, Known(j), ~finished[j], NEW how \in Outcomes, Finish(j, how),
         \A k \in Jobs : worker[k] = "running" => current[k] # j,
         \A i \in Jobs : i # j => (Spent(i)' <=> Spent(i)),
         \A w \in Workspaces : HolderOf(w)' = HolderOf(w)
  PROVE  Service!End(j)
<1>. RecordTypeOK
  BY DEF IInv, TypeOK
<1>1. db[j] \in Live /\ db'[j] \in Terminal /\ \A i \in Jobs : i # j => db'[i] = db[i]
  BY KnownRow, FinalIsTerminal DEF Finish, RecordTypeOK
<1>2. RowOf(j) \in {"open", "spent"} /\ RowOf(j)' = "ended"
  BY <1>1, RowIs
<1>3. ASSUME NEW i \in Jobs, i # j PROVE RowOf(i)' = RowOf(i)
  BY <1>1, <1>3, RowIs, StatusFacts DEF RecordTypeOK
<1>4. \A w \in Workspaces : HolderOf(w) # j
  BY HoldsRunning DEF Runs
<1>. QED
  BY <1>2, <1>3, <1>4, MovesRow

\* A cancelled job ends, unless it has ended already.
LEMMA CancelEnds ==
  ASSUME IInv, IInv', NEW c \in Clients, CancelFinish(c)
  PROVE  Service!End(cjob[c]) \/ UNCHANGED Service!vars
<1>1. cjob[c] \in Jobs /\ Known(cjob[c]) /\ UNCHANGED <<queueVars, workerVars>>
  BY RequestJob DEF CancelFinish
<1>2. BodiesStay
  BY <1>1 DEF BodiesStay, queueVars, workerVars
<1>3. \A w \in Workspaces : HolderOf(w)' = HolderOf(w)
  BY <1>1, <1>2, SeenAlike DEF queueVars
<1>4. CASE finished[cjob[c]]
  <2>1. \A i \in Jobs : RowOf(i)' = RowOf(i)
    BY <1>2, <1>4, SeenAlike DEF CancelFinish, Finish, recordVars
  <2>. QED
    BY <1>3, <2>1, ServiceVars
<1>5. CASE ~finished[cjob[c]]
  <2>1. \A i \in Jobs : Spent(i)' <=> Spent(i)
    BY <1>1 DEF Spent, workerVars
  <2>2. \A k \in Jobs : worker[k] = "running" => current[k] # cjob[c]
    BY DEF CancelFinish, IInv, FinishesCancelled
  <2>. QED
    BY <1>1, <1>3, <1>5, <2>1, <2>2, FinishEnds DEF CancelFinish, Outcomes
<1>. QED
  BY <1>4, <1>5

\* A worker that gives its job up withdraws it, unless it has ended already.
LEMMA GivesUp ==
  ASSUME IInv, IInv', NEW k \in Jobs, worker[k] \in {"slot", "begin"},
         worker' = [worker EXCEPT ![k] = "finish"],
         UNCHANGED <<queueVars, current, db>>, NEW j \in Jobs, j = current[k]
  PROVE  Service!Withdraw(j) \/ UNCHANGED Service!vars
<1>. WorkerTypeOK /\ RecordTypeOK
  BY DEF IInv, TypeOK
<1>1. Known(j) /\ worker[k] \in Serving /\ worker'[k] = "finish"
  BY WorkerJob DEF Serving, WorkerTypeOK
<1>2. ASSUME NEW w \in Workspaces PROVE HolderOf(w)' = HolderOf(w)
  <2>1. BodyOf(w)' = BodyOf(w)
    BY DEF BodyOf, Runs, WorkerTypeOK, queueVars
  <2>. QED
    BY <2>1 DEF HolderOf, queueVars
<1>3. \A i \in Jobs : i # j => (Spent(i)' <=> Spent(i))
  BY <1>1 DEF Spent, WorkerTypeOK
<1>4. ~Spent(j) /\ Spent(j)'
  BY <1>1, SpentBy DEF Spent
<1>5. \A i \in Jobs : i # j => RowOf(i)' = RowOf(i)
  BY <1>3, RowIs, StatusFacts DEF RecordTypeOK
<1>6. CASE db[j] \in Live
  <2>1. RowOf(j) = "open" /\ RowOf(j)' = "spent"
    BY <1>1, <1>4, <1>6, RowIs
  <2>. QED
    BY <1>1, <1>2, <1>5, <2>1, MovesRow
<1>7. CASE db[j] \in Terminal
  <2>1. RowOf(j)' = RowOf(j)
    BY <1>1, <1>7, RowIs
  <2>. QED
    BY <1>2, <1>5, <2>1, ServiceVars
<1>. QED
  BY <1>1, <1>6, <1>7, KnownRow

\* Running the job starts its body in a workspace nobody holds, or its
\* worker gives it up because it was cancelled.
LEMMA BeginStarts ==
  ASSUME ~StoreFaults, IInv, IInv', NEW k \in Jobs, BeginRun(k),
         NEW j \in Jobs, j = current[k], NEW w \in Workspaces, w = wsOf[k]
  PROVE  Service!StartBody(w, j) \/ Service!Withdraw(j) \/ UNCHANGED Service!vars
<1>. WorkerTypeOK /\ RecordTypeOK
  BY DEF IInv, TypeOK
<1>1. /\ worker[k] = "begin" /\ Known(j)
      /\ lanes[w] \in Seq(Jobs) /\ lanes[w] # <<>> /\ j = Head(lanes[w])
  BY WorkerJob, WorkerLane DEF BeginRun, Serving, IInv, WorksOnHead
<1>2. CASE cancelled[j]
  BY <1>1, <1>2, GivesUp DEF BeginRun, EndBody
<1>3. CASE ~cancelled[j]
  <2>1. /\ db' = [db EXCEPT ![j] = "running"] /\ worker' = [worker EXCEPT ![k] = "running"]
        /\ UNCHANGED <<queueVars, current>>
    BY <1>3 DEF BeginRun, SaveStatus, SaveFails
  <2>2. ~finished[j] /\ db[j] \in Live /\ db'[j] \in Live
    BY <1>1, <1>3, <2>1, KnownRow, StatusFacts DEF IInv, RunsUnfinished, RecordTypeOK
  <2>3. manual[w] = NoClient
    BY <1>1, <2>2, TailFacts, EmptySeq DEF IInv, ManualIsAlone
  <2>4. \A l \in Jobs : ~Runs(l, w)
    <3>. SUFFICES ASSUME NEW l \in Jobs, Runs(l, w) PROVE FALSE
      OBVIOUS
    <3>1. Serves(l, w) /\ Serves(k, w) /\ l # k
      BY <1>1 DEF Serves, Runs
    <3>. QED
      BY <1>1, <3>1 DEF IInv, LaneServedOnce
  <2>5. HolderOf(w) = NoClient
    BY <1>1, <2>3, <2>4, HolderIs
  <2>6. HolderOf(w)' = j
    <3>1. /\ current' = current /\ manual'[w] = NoClient
          /\ \A l \in Jobs : Runs(l, w)' <=> l = k
      BY <1>1, <2>1, <2>3, <2>4 DEF Runs, queueVars, WorkerTypeOK
    <3>2. BodyOf(w)' = {j}
      BY <3>1 DEF BodyOf
    <3>. QED
      BY <3>1, <3>2 DEF HolderOf
  <2>7. ASSUME NEW v \in Workspaces, v # w PROVE HolderOf(v)' = HolderOf(v)
    <3>1. BodyOf(v)' = BodyOf(v)
      BY <2>1, <2>7 DEF BodyOf, Runs, WorkerTypeOK, queueVars
    <3>. QED
      BY <2>1, <3>1 DEF HolderOf, queueVars
  <2>8. /\ \A i \in Jobs : i # j => (Spent(i)' <=> Spent(i))
        /\ ~Spent(j) /\ Spent(j)'
    <3>1. worker[k] \in Serving /\ worker[k] \notin {"running", "finish"} /\ worker'[k] = "running"
      BY <1>1, <2>1 DEF WorkerTypeOK, Serving
    <3>2. ~Spent(j)
      BY <3>1, SpentBy
    <3>3. Spent(j)'
      BY <2>1, <3>1 DEF Spent
    <3>. QED
      BY <2>1, <3>2, <3>3 DEF Spent, WorkerTypeOK
  <2>9. RowOf(j) = "open" /\ RowOf(j)' = "spent"
    BY <1>1, <2>2, <2>8, RowIs
  <2>10. \A i \in Jobs : i # j => RowOf(i)' = RowOf(i)
    BY <2>1, <2>8, RowIs, StatusFacts DEF RecordTypeOK
  <2>. QED
    BY <1>1, <2>5, <2>6, <2>7, <2>9, <2>10, MovesHolder
<1>. QED
  BY <1>2, <1>3

\* The end of a body frees its workspace.
LEMMA RunFrees ==
  ASSUME ~StoreFaults, IInv, IInv', NEW k \in Jobs, RunStep(k), NEW w \in Workspaces, w = wsOf[k]
  PROVE  Service!Free(w)
<1>. WorkerTypeOK
  BY DEF IInv, TypeOK
<1>1. /\ worker[k] = "running" /\ worker' = [worker EXCEPT ![k] = "finish"]
      /\ UNCHANGED <<queueVars, recordVars, current>>
  BY DEF RunStep, RunEnds, RunLosesEvent, EndBody
<1>2. Runs(k, w)
  BY <1>1 DEF Runs
<1>3. manual[w] = NoClient /\ \A l \in Jobs : Runs(l, w) => l = k
  BY <1>2, ExclusiveNow DEF ExclusiveWorkspace
<1>4. HolderOf(w)' = NoClient
  <2>1. manual'[w] = NoClient /\ \A l \in Jobs : ~Runs(l, w)'
    BY <1>1, <1>2, <1>3 DEF Runs, queueVars, WorkerTypeOK
  <2>2. BodyOf(w)' = {}
    BY <2>1 DEF BodyOf
  <2>. QED
    BY <2>1, <2>2 DEF HolderOf
<1>5. ASSUME NEW v \in Workspaces, v # w PROVE HolderOf(v)' = HolderOf(v)
  <2>1. BodyOf(v)' = BodyOf(v)
    BY <1>1, <1>5 DEF BodyOf, Runs, WorkerTypeOK, queueVars
  <2>. QED
    BY <1>1, <2>1 DEF HolderOf, queueVars
<1>6. ASSUME NEW i \in Jobs PROVE RowOf(i)' = RowOf(i)
  <2>1. Spent(i)' <=> Spent(i)
    BY <1>1 DEF Spent, WorkerTypeOK
  <2>. QED
    BY <1>1, <2>1 DEF RowOf, recordVars
<1>. QED
  BY <1>2, <1>4, <1>5, <1>6, MovesHolder

\* A worker ends its job, unless a request has ended it already.
LEMMA WorkerEnds ==
  ASSUME FaultlessInv, IInv', NEW k \in Jobs, WorkerFinish(k), NEW j \in Jobs, j = current[k]
  PROVE  Service!End(j) \/ UNCHANGED Service!vars
<1>. IInv /\ WorkerTypeOK /\ RecordTypeOK
  BY DEF FaultlessInv, IInv, TypeOK
<1>1. /\ worker[k] = "finish" /\ worker' = [worker EXCEPT ![k] = "remove"]
      /\ UNCHANGED <<queueVars, current>> /\ Finish(j, outcome[k]) /\ outcome[k] \in Outcomes
  BY DEF WorkerFinish, WorkerTypeOK
<1>2. Known(j) /\ worker[k] \in Serving
  BY <1>1, WorkerJob DEF Serving
<1>3. ASSUME NEW w \in Workspaces PROVE HolderOf(w)' = HolderOf(w)
  <2>1. BodyOf(w)' = BodyOf(w)
    BY <1>1 DEF BodyOf, Runs, WorkerTypeOK, queueVars
  <2>. QED
    BY <1>1, <2>1 DEF HolderOf, queueVars
<1>4. \A i \in Jobs : i # j => (Spent(i)' <=> Spent(i))
  BY <1>1 DEF Spent, WorkerTypeOK
<1>5. \A l \in Jobs : worker[l] = "running" => current[l] # j
  BY <1>1, <1>2, WorksAlone DEF Serving
<1>6. CASE ~finished[j]
  BY <1>1, <1>2, <1>3, <1>4, <1>5, <1>6, FinishEnds
<1>7. CASE finished[j]
  <2>1. db' = db
    BY <1>1, <1>7 DEF Finish, recordVars
  <2>2. db[j] \in Terminal
    BY <1>2, <1>7, KnownRow DEF FaultlessInv, RowsMatchMemory
  <2>3. \A i \in Jobs : RowOf(i)' = RowOf(i)
    <3>1. ASSUME NEW i \in Jobs, i # j PROVE RowOf(i)' = RowOf(i)
      BY <1>4, <2>1, <3>1 DEF RowOf
    <3>2. RowOf(j)' = RowOf(j)
      BY <1>2, <2>1, <2>2, RowIs
    <3>. QED
      BY <3>1, <3>2
  <2>. QED
    BY <1>3, <2>3, ServiceVars
<1>. QED
  BY <1>6, <1>7

\* A manual change takes a workspace nobody holds and gives it back.
LEMMA ManualHolds ==
  ASSUME IInv, IInv', NEW c \in Clients
  PROVE  /\ \A w \in Workspaces : Reserve(c, w) => Service!Hold(w, c)
         /\ \A w \in Workspaces : Release(c) /\ w = cws[c] => Service!Free(w) \/ UNCHANGED Service!vars
<1>. QueueTypeOK
  BY DEF IInv, TypeOK
<1>0. ASSUME UNCHANGED <<lanes, wsOf, recordVars, workerVars>>
      PROVE  /\ BodiesStay
             /\ \A i \in Jobs : RowOf(i)' = RowOf(i)
             /\ \A v \in Workspaces : manual'[v] = manual[v] => HolderOf(v)' = HolderOf(v)
  BY <1>0, SeenAlike DEF BodiesStay, workerVars, recordVars
<1>1. ASSUME NEW w \in Workspaces, Reserve(c, w) PROVE Service!Hold(w, c)
  <2>1. /\ manual[w] = NoClient /\ ~Busy(w) /\ manual' = [manual EXCEPT ![w] = c]
        /\ UNCHANGED <<lanes, wsOf, recordVars, workerVars>>
    BY <1>1 DEF Reserve
  <2>2. ASSUME NEW k \in Jobs, Runs(k, w) PROVE FALSE
    <3>1. lanes[w] \in Seq(Jobs) /\ lanes[w] # <<>> /\ current[k] = Head(lanes[w])
      BY <2>2, ExclusiveNow DEF ExclusiveWorkspace, QueueTypeOK
    <3>2. InLane(current[k], w) /\ current[k] \in Jobs
      BY <3>1, TailFacts DEF InLane
    <3>3. ~finished[current[k]]
      BY <2>2 DEF Runs, IInv, RunsUnfinished
    <3>. QED
      BY <2>1, <3>2, <3>3 DEF Busy
  <2>3. HolderOf(w) = NoClient
    BY <2>1, <2>2, HolderIs
  <2>4. HolderOf(w)' = c
    <3>1. manual'[w] = c /\ c # NoClient
      BY <2>1, JobQueueAssumption DEF QueueTypeOK
    <3>. QED
      BY <3>1 DEF HolderOf
  <2>5. \A v \in Workspaces : v # w => HolderOf(v)' = HolderOf(v)
    BY <1>0, <2>1 DEF QueueTypeOK
  <2>. QED
    BY <1>0, <2>1, <2>3, <2>4, <2>5, MovesHolder
<1>2. ASSUME NEW w \in Workspaces, Release(c), w = cws[c]
      PROVE  Service!Free(w) \/ UNCHANGED Service!vars
  <2>1. /\ manual' = [manual EXCEPT ![w] = NoClient]
        /\ UNCHANGED <<lanes, wsOf, recordVars, workerVars>>
    BY <1>2 DEF Release
  <2>2. \A v \in Workspaces : v # w => HolderOf(v)' = HolderOf(v)
    BY <1>0, <2>1 DEF QueueTypeOK
  <2>3. CASE manual[w] = NoClient
    <3>1. \A v \in Workspaces : HolderOf(v)' = HolderOf(v)
      BY <1>0, <2>1, <2>2, <2>3 DEF QueueTypeOK
    <3>. QED
      BY <1>0, <2>1, <3>1, ServiceVars
  <2>4. CASE manual[w] # NoClient
    <3>1. \A k \in Jobs : ~Runs(k, w)
      BY <2>1, <2>4, ExclusiveNow DEF ExclusiveWorkspace
    <3>2. BodyOf(w)' = {}
      BY <2>1, <3>1 DEF BodyOf, Runs, workerVars
    <3>3. HolderOf(w)' = NoClient
      BY <2>1, <3>2 DEF HolderOf, QueueTypeOK
    <3>. QED
      BY <1>0, <2>1, <2>2, <3>3, MovesHolder
  <2>. QED
    BY <2>3, <2>4
<1>. QED
  BY <1>1, <1>2

\* A restart is a Recover: it ends what was accepted and holds nothing.
LEMMA RestartRecovers ==
  ASSUME IInv, IInv', Restart
  PROVE  Service!Recover
<1>. RecordTypeOK
  BY DEF IInv, TypeOK
<1>1. ASSUME NEW w \in Workspaces PROVE HolderOf(w)' = NoClient
  <2>1. manual'[w] = NoClient /\ BodyOf(w)' = {}
    BY DEF Restart, BodyOf, Runs
  <2>. QED
    BY <2>1 DEF HolderOf
<1>2. ASSUME NEW j \in Jobs PROVE RowOf(j)' = IF RowOf(j) = "none" THEN "none" ELSE "ended"
  <2>1. db'[j] = IF db[j] \in Live THEN "interrupted" ELSE db[j]
    BY DEF Restart
  <2>. QED
    BY <2>1, RowIs, StatusFacts DEF RecordTypeOK
<1>. QED
  BY <1>1, <1>2 DEF Service!Recover

\* Every step of the scheduler is a step of JobService or stutters.
LEMMA ServiceStep ==
  ASSUME ~StoreFaults, FaultlessInv, FaultlessInv', [Next]_vars
  PROVE  [Service!Next]_Service!vars
<1>. IInv /\ IInv'
  BY DEF FaultlessInv
<1>1. ASSUME NEW c \in Clients, NEW j \in Jobs, NEW q \in BOOLEAN, StartAdmit(c, j, q)
      PROVE  Service!Next
  BY <1>1, AdmitAccepts DEF Service!Next
<1>2. ASSUME NEW c \in Clients, CancelFinish(c) PROVE Service!Next \/ UNCHANGED Service!vars
  <2>1. cjob[c] \in Jobs
    BY <1>2, RequestJob DEF CancelFinish
  <2>. QED
    BY <1>2, <2>1, CancelEnds DEF Service!Next
<1>3. ASSUME NEW k \in Jobs, AbandonSlot(k) \/ BeginRun(k) \/ RunStep(k) \/ WorkerFinish(k)
      PROVE  Service!Next \/ UNCHANGED Service!vars
  <2>1. current[k] \in Jobs /\ wsOf[k] \in Workspaces
    BY <1>3, WorkerJob, WorkerLane DEF AbandonSlot, BeginRun, RunStep, RunEnds, RunLosesEvent,
       WorkerFinish, Serving
  <2>2. CASE AbandonSlot(k)
    <3>1. /\ worker[k] \in {"slot", "begin"} /\ worker' = [worker EXCEPT ![k] = "finish"]
          /\ UNCHANGED <<queueVars, current, db>>
      BY <2>2 DEF AbandonSlot, recordVars
    <3>2. PICK j \in Jobs : j = current[k]
      BY <2>1
    <3>3. Service!Withdraw(j) \/ UNCHANGED Service!vars
      BY <3>1, <3>2, GivesUp
    <3>. QED
      BY <3>3 DEF Service!Next
  <2>3. CASE BeginRun(k)
    BY <2>1, <2>3, BeginStarts DEF Service!Next
  <2>4. CASE RunStep(k)
    BY <2>1, <2>4, RunFrees DEF Service!Next
  <2>5. CASE WorkerFinish(k)
    BY <2>1, <2>5, WorkerEnds DEF Service!Next
  <2>. QED
    BY <1>3, <2>2, <2>3, <2>4, <2>5
<1>4. ASSUME NEW c \in Clients, NEW w \in Workspaces, Reserve(c, w) PROVE Service!Next
  BY <1>4, ManualHolds DEF Service!Next
<1>5. ASSUME NEW c \in Clients, Release(c) PROVE Service!Next \/ UNCHANGED Service!vars
  <2>1. cws[c] \in Workspaces
    BY <1>5 DEF Release, IInv, RequestsOwn
  <2>. QED
    BY <1>5, <2>1, ManualHolds DEF Service!Next
<1>6. CASE Restart
  BY <1>6, RestartRecovers DEF Service!Next
<1>7. ASSUME BodiesStay, UNCHANGED manual,
             \A i \in Jobs : db'[i] = db[i] \/ (db[i] \in Live /\ db'[i] \in Live)
      PROVE  UNCHANGED Service!vars
  BY <1>7, SeenAlike, ServiceVars
\* The steps left save a status, or touch neither rows nor bodies.
<1>8. ASSUME ~Restart, ~\E c \in Clients, j \in Jobs, q \in BOOLEAN : StartAdmit(c, j, q),
             ~\E c \in Clients : CancelFinish(c), ~\E k \in Jobs : WorkerFinish(k), NEW i \in Jobs
      PROVE  db'[i] = db[i] \/ (db[i] \in Live /\ db'[i] \in Live)
  <2>1. ASSUME Ended(i) PROVE FALSE
    BY <1>8, <2>1, RecordSteps DEF Ended, recordVars, StartOrphan, CancelMark, CancelFinishFails,
       Pause, Resume, BeginRun, RunLosesEvent, WorkerFinishFails, SaveFails, ShutdownCancel
  <2>. QED
    BY <1>8, <2>1, RowMovesFaultless DEF Untouched, Saved
<1>9. ~\E k \in Jobs : WorkerFinishFails(k)
  BY DEF WorkerFinishFails, SaveFails
<1>. QED
  BY <1>1, <1>2, <1>3, <1>4, <1>5, <1>6, <1>7, <1>8, <1>9, BodySteps, ManualSteps

\* When no database write fails, the scheduler implements JobService: every
\* accepted job ends once, its body runs at most once and never after the
\* job has ended, and one user at a time has a workspace (engine.rs
\* start_with_context, drain, run, finish, request_cancel_if).
THEOREM ServiceKept == ~StoreFaults => (Spec => ImplementsService)
<1>. SUFFICES ASSUME ~StoreFaults PROVE Spec => ImplementsService
  OBVIOUS
<1>1. Init => Service!Init
  <2>. SUFFICES ASSUME Init PROVE Service!Init
    OBVIOUS
  <2>1. \A j \in Jobs : RowOf(j) = "none"
    BY StatusFacts DEF Init, RowOf
  <2>2. \A w \in Workspaces : HolderOf(w) = NoClient
    BY DEF Init, HolderOf, BodyOf, Runs
  <2>. QED
    BY <2>1, <2>2 DEF Service!Init
<1>2. FaultlessInv /\ FaultlessInv' /\ [Next]_vars => [Service!Next]_Service!vars
  BY ServiceStep
<1>3. Spec => []FaultlessInv
  BY FaultlessInvariant
<1>. QED
  BY <1>1, <1>2, <1>3, PTL DEF Spec, ImplementsService, Service!Spec

=============================================================================
