-------------------------- MODULE LocalRuntimeProofs --------------------------
(***************************************************************************)
(* For any number of callers, models and servers, and whatever crashes or  *)
(* is cancelled, the servers of the local model runtime do not overlap,    *)
(* except with one that a shutdown is about to stop.  OneServer follows    *)
(* from SlotInv: who holds the mutex is alone in its critical section, and *)
(* a server that runs is in the slot or belongs to one operation.  With    *)
(* the queue, the operations, the leases and the models added, SlotInv     *)
(* becomes RuntimeInv, from which the runtime implements ModelSlot.        *)
(***************************************************************************)
EXTENDS LocalRuntimeProps, SequenceTheorems, FiniteSetTheorems, TLAPS

-----------------------------------------------------------------------------
(* The inductive invariant                                                 *)

\* No server runs and nobody holds the mutex.
LEMMA SlotInit == LocalRuntimeInit => SlotInv
BY RuntimeAssumption
   DEF LocalRuntimeInit, SlotInv, SlotTypes, HolderInside, ServersOwned, Holding, Inside, Running, Stopping

\* Steps at the entry and the exit of an operation: the mutex is taken when it
\* is free.
LEMMA EntrySteps ==
  ASSUME SlotInv, NEW c \in Callers,
         \/ Enqueue(c) \/ Locked(c) \/ GiveUp(c)
         \/ DropLease(c) \/ CancelTask(c) \/ Unload(c) \/ Stop(c) \/ CancelLoads(c)
         \/ \E m \in Models, gpu \in BOOLEAN : Acquire(c, m, gpu)
  PROVE  SlotInv'
<1>. USE RuntimeAssumption DEF SlotInv, SlotTypes, HolderInside, ServersOwned, Holding, Inside,
         Running, Stopping, lockVars, slotVars, serverVars
<1>1. CASE Enqueue(c)
  BY <1>1 DEF Enqueue, Goes
<1>2. CASE Locked(c)
  BY <1>2 DEF Locked, Goes
<1>3. CASE GiveUp(c)
  BY <1>3 DEF GiveUp, Forget, Goes
<1>4. CASE DropLease(c)
  BY <1>4 DEF DropLease, Goes
<1>5. CASE CancelTask(c)
  BY <1>5 DEF CancelTask
<1>6. CASE Unload(c) \/ Stop(c) \/ CancelLoads(c)
  BY <1>6 DEF Unload, Stop, CancelLoads, Goes
<1>7. ASSUME NEW m \in Models, NEW gpu \in BOOLEAN, Acquire(c, m, gpu) PROVE SlotInv'
  BY <1>7 DEF Acquire, Goes
<1>. QED
  BY <1>1, <1>2, <1>3, <1>4, <1>5, <1>6, <1>7

\* Steps of an acquire that holds the mutex.  It takes the old server out of
\* the slot before it stops it, and puts the new one in when it is ready.
LEMMA AcquireSteps ==
  ASSUME SlotInv, NEW c \in Callers,
         \/ Share(c) \/ Refuse(c) \/ Replace(c) \/ Replaced(c) \/ SlotIsFree(c)
         \/ (\E s \in Servers : Launch(c, s)) \/ LaunchFails(c)
         \/ LoadExited(c) \/ LoadFails(c) \/ LoadReady(c) \/ LoadAbandoned(c) \/ Abandoned(c)
         \/ Publish(c)
  PROVE  SlotInv'
<1>. USE RuntimeAssumption DEF SlotInv, SlotTypes, HolderInside, ServersOwned, Holding, Inside,
         Running, Stopping, lockVars, slotVars, serverVars
<1>1. CASE Share(c) \/ Refuse(c)
  BY <1>1 DEF Share, Refuse, Returns, Forget, Goes
<1>2. CASE Replace(c)
  BY <1>2 DEF Replace, Goes
<1>3. CASE Replaced(c)
  BY <1>3 DEF Replaced, Gone, Goes
<1>4. CASE SlotIsFree(c)
  BY <1>4 DEF SlotIsFree, Goes
<1>5. ASSUME NEW s \in Servers, Launch(c, s) PROVE SlotInv'
  BY <1>5 DEF Launch, Unused, Goes
<1>6. CASE LaunchFails(c)
  BY <1>6 DEF LaunchFails, Returns, Forget, Goes
<1>7. CASE LoadExited(c)
  BY <1>7 DEF LoadExited, Goes
<1>8. CASE LoadFails(c)
  BY <1>8 DEF LoadFails, Returns, Forget, Goes
<1>9. CASE LoadReady(c)
  BY <1>9 DEF LoadReady, Goes
<1>10. CASE LoadAbandoned(c)
  BY <1>10 DEF LoadAbandoned, Goes
<1>11. CASE Abandoned(c)
  BY <1>11 DEF Abandoned, Gone, Returns, Forget, Goes
<1>12. CASE Publish(c)
  BY <1>12 DEF Publish, Returns, Forget, Goes
<1>. QED
  BY <1>1, <1>2, <1>3, <1>4, <1>5, <1>6, <1>7, <1>8, <1>9, <1>10, <1>11, <1>12

\* Steps of an unload and of a shutdown, which takes its server along when it
\* gives the mutex back.
LEMMA StopSteps ==
  ASSUME SlotInv, NEW c \in Callers,
         \/ UnloadTakes(c) \/ UnloadReturns(c) \/ Unloaded(c)
         \/ StopTakes(c) \/ StopClears(c) \/ Stopped(c)
  PROVE  SlotInv'
<1>. USE RuntimeAssumption DEF SlotInv, SlotTypes, HolderInside, ServersOwned, Holding, Inside,
         Running, Stopping, lockVars, slotVars, serverVars
<1>1. CASE UnloadTakes(c)
  BY <1>1 DEF UnloadTakes, Goes
<1>2. CASE UnloadReturns(c)
  BY <1>2 DEF UnloadReturns, Returns, Forget, Goes
<1>3. CASE Unloaded(c)
  BY <1>3 DEF Unloaded, Gone, Returns, Forget, Goes
<1>4. CASE StopTakes(c)
  BY <1>4 DEF StopTakes, Goes
<1>5. CASE StopClears(c)
  BY <1>5 DEF StopClears, Goes
<1>6. CASE Stopped(c)
  BY <1>6 DEF Stopped, Gone, Forget, Goes
<1>. QED
  BY <1>1, <1>2, <1>3, <1>4, <1>5, <1>6

\* Every step keeps the invariant; a crash only ends a server.
LEMMA SlotNext == SlotInv /\ [LocalRuntimeNext]_runtimeVars => SlotInv'
<1>. SUFFICES ASSUME SlotInv, [LocalRuntimeNext]_runtimeVars PROVE SlotInv'
  OBVIOUS
<1>1. ASSUME NEW s \in Servers, Crash(s) PROVE SlotInv'
  BY <1>1 DEF Crash, SlotInv, SlotTypes, HolderInside, ServersOwned, Running, Stopping,
              lockVars, slotVars
<1>2. CASE UNCHANGED runtimeVars
  BY <1>2 DEF runtimeVars, SlotInv, SlotTypes, HolderInside, ServersOwned, Running, Stopping,
              lockVars, slotVars, serverVars
<1>3. ASSUME NEW c \in Callers, Step(c) PROVE SlotInv'
  BY <1>3, EntrySteps, AcquireSteps, StopSteps DEF Step
<1>4. ASSUME NEW c \in Callers,
             \/ DropLease(c) \/ CancelTask(c) \/ Unload(c) \/ Stop(c)
             \/ \E m \in Models, gpu \in BOOLEAN : Acquire(c, m, gpu)
      PROVE  SlotInv'
  BY <1>4, EntrySteps
<1>. QED
  BY <1>1, <1>2, <1>3, <1>4 DEF LocalRuntimeNext

-----------------------------------------------------------------------------
(* Which steps change which variables                                      *)

\* Every step is one caller's or a crash.
LEMMA Steps ==
  ASSUME [LocalRuntimeNext]_runtimeVars
  PROVE  \/ UNCHANGED runtimeVars
         \/ \E s \in Servers : Crash(s)
         \/ \E c \in Callers : \/ Step(c) \/ DropLease(c) \/ CancelTask(c) \/ Unload(c) \/ Stop(c)
                               \/ \E m \in Models, gpu \in BOOLEAN : Acquire(c, m, gpu)
  BY DEF LocalRuntimeNext

\* Only the entry to the mutex touches its queue.
LEMMA QueueSteps ==
  ASSUME RuntimeInv, [LocalRuntimeNext]_runtimeVars
  PROVE  \/ UNCHANGED queue /\ \A c \in Callers : pc'[c] = "queued" <=> pc[c] = "queued"
         \/ \E c \in Callers : Enqueue(c) \/ Locked(c) \/ GiveUp(c)
<1>. DEFINE Same == UNCHANGED queue /\ \A c \in Callers : pc'[c] = "queued" <=> pc[c] = "queued"
<1>. RuntimeTypes
  BY DEF RuntimeInv
<1>1. ASSUME UNCHANGED runtimeVars PROVE Same
  BY <1>1 DEF runtimeVars, lockVars
<1>2. ASSUME NEW s \in Servers, Crash(s) PROVE Same
  BY <1>2 DEF Crash, lockVars
<1>3. ASSUME NEW c \in Callers,
             \/ DropLease(c) \/ CancelTask(c) \/ Unload(c) \/ Stop(c)
             \/ \E m \in Models, gpu \in BOOLEAN : Acquire(c, m, gpu)
      PROVE  Same
  BY <1>3 DEF RuntimeTypes, DropLease, CancelTask, Unload, Stop, Acquire, Goes, lockVars
<1>4. ASSUME NEW c \in Callers,
             \/ Share(c) \/ Refuse(c) \/ Replace(c) \/ Replaced(c) \/ SlotIsFree(c)
             \/ (\E s \in Servers : Launch(c, s)) \/ LaunchFails(c)
      PROVE  Same
  BY <1>4 DEF RuntimeTypes, Share, Refuse, Replace, Replaced, SlotIsFree, Launch, LaunchFails, Returns,
     Forget, Goes, lockVars
<1>5. ASSUME NEW c \in Callers,
             \/ LoadExited(c) \/ LoadFails(c) \/ LoadReady(c) \/ LoadAbandoned(c) \/ Abandoned(c)
             \/ Publish(c)
      PROVE  Same
  BY <1>5 DEF RuntimeTypes, LoadExited, LoadFails, LoadReady, LoadAbandoned, Abandoned, Publish, Returns,
     Forget, Goes, lockVars
<1>6. ASSUME NEW c \in Callers,
             \/ CancelLoads(c) \/ UnloadTakes(c) \/ UnloadReturns(c) \/ Unloaded(c)
             \/ StopTakes(c) \/ StopClears(c) \/ Stopped(c)
      PROVE  Same
  BY <1>6 DEF RuntimeTypes, CancelLoads, UnloadTakes, UnloadReturns, Unloaded, StopTakes, StopClears,
     Stopped, Returns, Forget, Goes, lockVars
<1>. QED
  BY <1>1, <1>2, <1>3, <1>4, <1>5, <1>6, Steps DEF Step

\* Leases are given by the slot and dropped without a lock.
LEMMA LeaseSteps ==
  ASSUME [LocalRuntimeNext]_runtimeVars
  PROVE  \/ UNCHANGED <<leases, lease>>
         \/ \E c \in Callers : Share(c) \/ Publish(c) \/ DropLease(c)
  BY Steps DEF Step, runtimeVars, serverVars, Crash, CancelTask, Unload, Stop, Acquire, Enqueue, Locked,
     GiveUp, Refuse, Replace, Replaced, SlotIsFree, Launch, LaunchFails, LoadExited, LoadFails,
     LoadReady, LoadAbandoned, Abandoned, CancelLoads, UnloadTakes, UnloadReturns, Unloaded,
     StopTakes, StopClears, Stopped

\* The steps that fill and empty the slot.
LEMMA SlotSteps ==
  ASSUME [LocalRuntimeNext]_runtimeVars
  PROVE  \/ UNCHANGED <<slot, shown>>
         \/ \E c \in Callers : \/ Replace(c) \/ Publish(c) \/ UnloadTakes(c) \/ UnloadReturns(c)
                               \/ StopTakes(c) \/ StopClears(c)
  BY Steps DEF Step, runtimeVars, slotVars, Crash, DropLease, CancelTask, Unload, Stop, Acquire, Enqueue,
     Locked, GiveUp, Share, Refuse, Replaced, SlotIsFree, Launch, LaunchFails, LoadExited,
     LoadFails, LoadReady, LoadAbandoned, Abandoned, CancelLoads, Unloaded, Stopped

\* The steps that start and end a server.
LEMMA ServerSteps ==
  ASSUME [LocalRuntimeNext]_runtimeVars
  PROVE  \/ UNCHANGED <<proc, model>>
         \/ \E c \in Callers : \/ Replaced(c) \/ (\E s \in Servers : Launch(c, s)) \/ LoadReady(c)
                               \/ Abandoned(c) \/ Unloaded(c) \/ Stopped(c)
         \/ \E s \in Servers : Crash(s)
  BY Steps DEF Step, runtimeVars, serverVars, DropLease, CancelTask, Unload, Stop, Acquire, Enqueue,
     Locked, GiveUp, Share, Refuse, Replace, SlotIsFree, LaunchFails, LoadExited, LoadFails,
     LoadAbandoned, Publish, CancelLoads, UnloadTakes, UnloadReturns, StopTakes, StopClears

-----------------------------------------------------------------------------
(* The queue of the mutex                                                  *)

\* Who waits for the mutex is in its queue once, and stays there until it is
\* its turn or it gives up.
LEMMA QueueNext ==
  ASSUME RuntimeInv, [LocalRuntimeNext]_runtimeVars PROVE queue' \in Seq(Callers) /\ QueueHoldsWaiters'
<1>. RuntimeTypes /\ QueueHoldsWaiters /\ queue \in Seq(Callers) /\ Len(queue) \in Nat
  BY DEF RuntimeInv, RuntimeTypes
<1>0. \A i \in 1..Len(queue) : queue[i] \in Callers
  OBVIOUS
<1>1. CASE UNCHANGED queue /\ \A c \in Callers : pc'[c] = "queued" <=> pc[c] = "queued"
  BY <1>0, <1>1 DEF QueueHoldsWaiters
<1>2. ASSUME NEW c \in Callers, Enqueue(c) PROVE queue' \in Seq(Callers) /\ QueueHoldsWaiters'
  <2>1. /\ queue' \in Seq(Callers) /\ Len(queue') = Len(queue) + 1
        /\ \A i \in 1..Len(queue) : queue'[i] = queue[i]
        /\ queue'[Len(queue) + 1] = c
    BY <1>2, AppendProperties DEF Enqueue
  <2>2. pc[c] = "asked" /\ \A d \in Callers : pc'[d] = IF d = c THEN "queued" ELSE pc[d]
    BY <1>2 DEF Enqueue, Goes, RuntimeTypes
  <2>3. \A i \in 1..Len(queue) : queue[i] # c
    BY <2>2 DEF QueueHoldsWaiters
  <2>4. \A i \in 1..Len(queue') : i \in 1..Len(queue) \/ i = Len(queue) + 1
    BY <2>1
  <2>5. \A d \in Callers : pc'[d] = "queued" => \E i \in 1..Len(queue') : queue'[i] = d
    <3>. SUFFICES ASSUME NEW d \in Callers, pc'[d] = "queued"
                  PROVE  \E i \in 1..Len(queue') : queue'[i] = d
      OBVIOUS
    <3>1. CASE d = c
      <4>1. Len(queue) + 1 \in 1..Len(queue')
        BY <2>1
      <4>. QED
        BY <2>1, <3>1, <4>1
    <3>2. CASE d # c
      <4>1. PICK i \in 1..Len(queue) : queue[i] = d
        BY <2>2, <3>2 DEF QueueHoldsWaiters
      <4>2. i \in 1..Len(queue') /\ queue'[i] = d
        BY <2>1, <4>1
      <4>. QED
        BY <4>2
    <3>. QED
      BY <3>1, <3>2
  <2>6. \A i \in 1..Len(queue') : pc'[queue'[i]] = "queued"
    BY <1>0, <2>1, <2>2, <2>4 DEF QueueHoldsWaiters
  <2>7. \A i, j \in 1..Len(queue') : queue'[i] = queue'[j] => i = j
    BY <2>1, <2>3, <2>4 DEF QueueHoldsWaiters
  <2>. QED
    BY <2>1, <2>5, <2>6, <2>7 DEF QueueHoldsWaiters
<1>3. ASSUME NEW c \in Callers, NEW k \in 1..Len(queue), queue[k] = c,
             pc'[c] # "queued", \A d \in Callers : d # c => pc'[d] = pc[d],
             queue' \in Seq(Callers), Len(queue') = Len(queue) - 1,
             \A i \in 1..Len(queue') : queue'[i] = queue[IF i < k THEN i ELSE i + 1]
      PROVE  QueueHoldsWaiters'
  <2>. DEFINE old(i) == IF i < k THEN i ELSE i + 1
  <2>1. \A i \in 1..Len(queue') : old(i) \in 1..Len(queue) /\ old(i) # k
    BY <1>3
  <2>2. \A i, j \in 1..Len(queue') : old(i) = old(j) => i = j
    BY <1>3
  <2>3. \A j \in 1..Len(queue) : j # k => \E i \in 1..Len(queue') : old(i) = j
    <3>. SUFFICES ASSUME NEW j \in 1..Len(queue), j # k PROVE \E i \in 1..Len(queue') : old(i) = j
      OBVIOUS
    <3>1. CASE j < k
      <4>1. j \in 1..Len(queue') /\ old(j) = j
        BY <1>3, <3>1
      <4>. QED
        BY <4>1
    <3>2. CASE j > k
      <4>1. j - 1 \in 1..Len(queue') /\ old(j - 1) = j
        BY <1>3, <3>2
      <4>. QED
        BY <4>1
    <3>. QED
      BY <3>1, <3>2
  <2>. HIDE DEF old
  <2>4. \A i \in 1..Len(queue') : queue'[i] = queue[old(i)]
    BY <1>3 DEF old
  <2>5. \A d \in Callers : pc'[d] = "queued" => \E i \in 1..Len(queue') : queue'[i] = d
    <3>. SUFFICES ASSUME NEW d \in Callers, pc'[d] = "queued"
                  PROVE  \E i \in 1..Len(queue') : queue'[i] = d
      OBVIOUS
    <3>1. PICK j \in 1..Len(queue) : queue[j] = d /\ j # k
      BY <1>3 DEF QueueHoldsWaiters
    <3>. QED
      BY <2>3, <2>4, <3>1
  <2>6. \A i \in 1..Len(queue') : pc'[queue'[i]] = "queued"
    BY <1>0, <1>3, <2>1, <2>4 DEF QueueHoldsWaiters
  <2>7. \A i, j \in 1..Len(queue') : queue'[i] = queue'[j] => i = j
    BY <2>1, <2>2, <2>4 DEF QueueHoldsWaiters
  <2>. QED
    BY <2>5, <2>6, <2>7 DEF QueueHoldsWaiters
<1>4. ASSUME NEW c \in Callers, Locked(c) PROVE queue' \in Seq(Callers) /\ QueueHoldsWaiters'
  <2>1. queue # <<>> /\ Head(queue) = c /\ queue' = Tail(queue)
    BY <1>4 DEF Locked
  <2>2. /\ queue' \in Seq(Callers) /\ Len(queue') = Len(queue) - 1
        /\ \A i \in 1..Len(queue') : queue'[i] = queue[i + 1]
    BY <2>1, HeadTailProperties
  <2>3. 1 \in 1..Len(queue) /\ queue[1] = c
    BY <2>1, EmptySeq
  <2>4. pc'[c] # "queued" /\ \A d \in Callers : d # c => pc'[d] = pc[d]
    BY <1>4 DEF Locked, Goes, RuntimeTypes
  <2>5. \A i \in 1..Len(queue') : queue'[i] = queue[IF i < 1 THEN i ELSE i + 1]
    BY <2>2
  <2>. QED
    BY <1>3, <2>2, <2>3, <2>4, <2>5
<1>5. ASSUME NEW c \in Callers, GiveUp(c) PROVE queue' \in Seq(Callers) /\ QueueHoldsWaiters'
  <2>1. PICK k \in 1..Len(queue) : queue[k] = c /\ queue' = Without(k)
    BY <1>5 DEF GiveUp
  <2>. DEFINE a == SubSeq(queue, 1, k - 1)
              b == SubSeq(queue, k + 1, Len(queue))
  <2>2. /\ a \in Seq(Callers) /\ Len(a) = k - 1
        /\ \A i \in 1..k - 1 : a[i] = queue[i]
    <3>1. \A i \in 1..k - 1 : queue[i] \in Callers
      BY <1>0
    <3>2. /\ a \in Seq(Callers) /\ Len(a) = IF 1 <= k - 1 THEN k - 1 - 1 + 1 ELSE 0
          /\ \A i \in 1..(k - 1) - 1 + 1 : a[i] = queue[1 + i - 1]
      BY <3>1, SubSeqProperties
    <3>. QED
      BY <3>2
  <2>3. /\ b \in Seq(Callers) /\ Len(b) = Len(queue) - k
        /\ \A i \in 1..Len(queue) - k : b[i] = queue[k + i]
    <3>1. \A i \in k + 1..Len(queue) : queue[i] \in Callers
      BY <1>0
    <3>2. /\ b \in Seq(Callers)
          /\ Len(b) = IF k + 1 <= Len(queue) THEN Len(queue) - (k + 1) + 1 ELSE 0
          /\ \A i \in 1..Len(queue) - (k + 1) + 1 : b[i] = queue[(k + 1) + i - 1]
      BY <3>1, SubSeqProperties
    <3>. QED
      BY <3>2
  <2>. HIDE DEF a, b
  <2>4. queue' = a \o b
    BY <2>1 DEF Without, a, b
  <2>5. /\ queue' \in Seq(Callers) /\ Len(queue') = Len(queue) - 1
        /\ \A i \in 1..Len(queue') : queue'[i] = IF i <= k - 1 THEN a[i] ELSE b[i - (k - 1)]
    <3>1. /\ a \o b \in Seq(Callers) /\ Len(a \o b) = Len(a) + Len(b)
          /\ \A i \in 1..Len(a) + Len(b) :
                (a \o b)[i] = IF i <= Len(a) THEN a[i] ELSE b[i - Len(a)]
      BY <2>2, <2>3, ConcatProperties
    <3>2. Len(a) = k - 1 /\ Len(b) = Len(queue) - k /\ Len(a) + Len(b) = Len(queue) - 1
      BY <2>2, <2>3
    <3>. QED
      BY <2>4, <3>1, <3>2
  <2>6. \A i \in 1..Len(queue') : queue'[i] = queue[IF i < k THEN i ELSE i + 1]
    <3>. SUFFICES ASSUME NEW i \in 1..Len(queue') PROVE queue'[i] = queue[IF i < k THEN i ELSE i + 1]
      OBVIOUS
    <3>1. CASE i < k
      <4>1. i <= k - 1 /\ i \in 1..k - 1
        BY <3>1
      <4>. QED
        BY <2>2, <2>5, <3>1, <4>1
    <3>2. CASE i >= k
      <4>1. i - (k - 1) \in 1..Len(queue) - k /\ k + (i - (k - 1)) = i + 1
        BY <2>5, <3>2
      <4>2. b[i - (k - 1)] = queue[k + (i - (k - 1))]
        BY <2>3, <4>1
      <4>3. queue'[i] = b[i - (k - 1)]
        BY <2>5, <3>2
      <4>. QED
        BY <3>2, <4>1, <4>2, <4>3
    <3>. QED
      BY <3>1, <3>2
  <2>7. pc'[c] # "queued" /\ \A d \in Callers : d # c => pc'[d] = pc[d]
    BY <1>5 DEF GiveUp, Forget, Goes, RuntimeTypes
  <2>. QED
    BY <1>3, <2>1, <2>5, <2>6, <2>7
<1>. QED
  BY <1>1, <1>2, <1>4, <1>5, QueueSteps

-----------------------------------------------------------------------------
(* The operations and what they work with                                  *)

\* What a step must keep of the operations.
OwnOK ==
    /\ pc \in [Callers -> {"idle", "checked", "using"} \cup Inside]
    /\ op \in [Callers -> {"none", "acquire", "unload", "stop"}]
    /\ want \in [Callers -> Models \cup {NoModel}]
    /\ tries \in [Callers -> 0..2]
    /\ aborted \in [Callers -> BOOLEAN]
    /\ OpsAgree /\ LaunchesLeft /\ StopsOnShutdown

\* An operation keeps its kind from its entry to its return, and an acquire its
\* model and the launches that are left.
LEMMA OwnNext == ASSUME RuntimeInv, [LocalRuntimeNext]_runtimeVars PROVE OwnOK'
<1>. RuntimeTypes /\ OpsAgree /\ LaunchesLeft /\ ModelsKnown /\ StopsOnShutdown
  BY DEF RuntimeInv
<1>. USE RuntimeAssumption DEF OwnOK, OpsAgree, LaunchesLeft, StopsOnShutdown, Stopping, Inside
<1>1. ASSUME UNCHANGED runtimeVars PROVE OwnOK'
  BY <1>1 DEF RuntimeTypes, runtimeVars, requestVars
<1>2. ASSUME NEW s \in Servers, Crash(s) PROVE OwnOK'
  BY <1>2 DEF RuntimeTypes, Crash, requestVars
<1>3. ASSUME NEW c \in Callers, DropLease(c) PROVE OwnOK'
  BY <1>3 DEF RuntimeTypes, DropLease, Goes, requestVars
<1>4. ASSUME NEW c \in Callers, CancelTask(c) PROVE OwnOK'
  BY <1>4 DEF RuntimeTypes, CancelTask, Goes, requestVars
<1>5. ASSUME NEW c \in Callers, Unload(c) PROVE OwnOK'
  BY <1>5 DEF RuntimeTypes, Unload, Goes, requestVars
<1>6. ASSUME NEW c \in Callers, Stop(c) PROVE OwnOK'
  BY <1>6 DEF RuntimeTypes, Stop, Goes, requestVars
<1>7. ASSUME NEW c \in Callers, NEW m \in Models, NEW gpu \in BOOLEAN, Acquire(c, m, gpu) PROVE OwnOK'
  BY <1>7 DEF RuntimeTypes, Acquire, Goes
<1>8. ASSUME NEW c \in Callers, Enqueue(c) PROVE OwnOK'
  BY <1>8 DEF RuntimeTypes, Enqueue, Goes, requestVars
<1>9. ASSUME NEW c \in Callers, Locked(c) PROVE OwnOK'
  BY <1>9 DEF RuntimeTypes, Locked, Goes, requestVars
<1>10. ASSUME NEW c \in Callers, CancelLoads(c) PROVE OwnOK'
  BY <1>10 DEF RuntimeTypes, CancelLoads, Goes, requestVars
<1>11. ASSUME NEW c \in Callers, GiveUp(c) PROVE OwnOK'
  BY <1>11 DEF RuntimeTypes, GiveUp, Returns, Forget, Goes
<1>12. ASSUME NEW c \in Callers, Share(c) PROVE OwnOK'
  BY <1>12 DEF RuntimeTypes, Share, Returns, Forget, Goes
<1>13. ASSUME NEW c \in Callers, Refuse(c) PROVE OwnOK'
  BY <1>13 DEF RuntimeTypes, Refuse, Returns, Forget, Goes
<1>14. ASSUME NEW c \in Callers, LaunchFails(c) PROVE OwnOK'
  BY <1>14 DEF RuntimeTypes, LaunchFails, Returns, Forget, Goes
<1>15. ASSUME NEW c \in Callers, LoadFails(c) PROVE OwnOK'
  BY <1>15 DEF RuntimeTypes, LoadFails, Returns, Forget, Goes
<1>16. ASSUME NEW c \in Callers, Abandoned(c) PROVE OwnOK'
  BY <1>16 DEF RuntimeTypes, Abandoned, Returns, Forget, Goes
<1>17. ASSUME NEW c \in Callers, Publish(c) PROVE OwnOK'
  BY <1>17 DEF RuntimeTypes, Publish, Returns, Forget, Goes
<1>18. ASSUME NEW c \in Callers, UnloadReturns(c) PROVE OwnOK'
  BY <1>18 DEF RuntimeTypes, UnloadReturns, Returns, Forget, Goes
<1>19. ASSUME NEW c \in Callers, Unloaded(c) PROVE OwnOK'
  BY <1>19 DEF RuntimeTypes, Unloaded, Returns, Forget, Goes
<1>20. ASSUME NEW c \in Callers, Stopped(c) PROVE OwnOK'
  BY <1>20 DEF RuntimeTypes, Stopped, Returns, Forget, Goes
<1>21. ASSUME NEW c \in Callers, Replace(c) PROVE OwnOK'
  BY <1>21 DEF RuntimeTypes, Replace, Goes, requestVars
<1>22. ASSUME NEW c \in Callers, Replaced(c) PROVE OwnOK'
  BY <1>22 DEF RuntimeTypes, Replaced, Goes, requestVars
<1>23. ASSUME NEW c \in Callers, SlotIsFree(c) PROVE OwnOK'
  BY <1>23 DEF RuntimeTypes, SlotIsFree, Goes, requestVars
<1>24. ASSUME NEW c \in Callers, NEW s \in Servers, Launch(c, s) PROVE OwnOK'
  <2>1. tries[c] \in 1..2 /\ tries' = [tries EXCEPT ![c] = tries[c] - 1]
    BY <1>24 DEF RuntimeTypes, Launch, ModelsKnown
  <2>2. tries' \in [Callers -> 0..2]
    BY <2>1 DEF RuntimeTypes
  <2>. QED
    BY <1>24, <2>1, <2>2 DEF RuntimeTypes, Launch, Goes, requestVars
<1>25. ASSUME NEW c \in Callers, LoadExited(c) PROVE OwnOK'
  BY <1>25 DEF RuntimeTypes, LoadExited, ModelsKnown, Goes, requestVars
<1>26. ASSUME NEW c \in Callers, LoadReady(c) PROVE OwnOK'
  BY <1>26 DEF RuntimeTypes, LoadReady, ModelsKnown, Goes, requestVars
<1>27. ASSUME NEW c \in Callers, LoadAbandoned(c) PROVE OwnOK'
  BY <1>27 DEF RuntimeTypes, LoadAbandoned, ModelsKnown, Goes, requestVars
<1>28. ASSUME NEW c \in Callers, UnloadTakes(c) PROVE OwnOK'
  BY <1>28 DEF RuntimeTypes, UnloadTakes, Goes, requestVars
<1>29. ASSUME NEW c \in Callers, StopTakes(c) PROVE OwnOK'
  BY <1>29 DEF RuntimeTypes, StopTakes, Goes, requestVars
<1>30. ASSUME NEW c \in Callers, StopClears(c) PROVE OwnOK'
  BY <1>30 DEF RuntimeTypes, StopClears, Goes, requestVars
<1>. QED
  BY <1>1, <1>2, <1>3, <1>4, <1>5, <1>6, <1>7, <1>8, <1>9, <1>10, <1>11, <1>12, <1>13, <1>14, <1>15,
     <1>16, <1>17, <1>18, <1>19, <1>20, <1>21, <1>22, <1>23, <1>24, <1>25, <1>26, <1>27, <1>28,
     <1>29, <1>30, Steps DEF Step

\* A server is started with the model its acquire wants, and nobody else takes
\* that server meanwhile.
LEMMA ModelsNext ==
  ASSUME RuntimeInv, [LocalRuntimeNext]_runtimeVars
  PROVE  ModelsKnown' /\ model' \in [Servers -> Models \cup {NoModel}]
<1>. DEFINE Goal == ModelsKnown' /\ model' \in [Servers -> Models \cup {NoModel}]
<1>. RuntimeTypes /\ OpsAgree /\ ModelsKnown /\ ServersOwned
  BY DEF RuntimeInv
<1>. USE RuntimeAssumption DEF ModelsKnown, Inside
<1>1. ASSUME UNCHANGED runtimeVars PROVE Goal
  BY <1>1 DEF RuntimeTypes, runtimeVars, requestVars, serverVars
<1>2. ASSUME NEW s \in Servers, Crash(s) PROVE Goal
  BY <1>2 DEF RuntimeTypes, Crash, requestVars
<1>3. ASSUME NEW c \in Callers, DropLease(c) PROVE Goal
  BY <1>3 DEF RuntimeTypes, DropLease, Goes, requestVars, serverVars
<1>4. ASSUME NEW c \in Callers, CancelTask(c) PROVE Goal
  BY <1>4 DEF RuntimeTypes, CancelTask, Goes, requestVars, serverVars
<1>5. ASSUME NEW c \in Callers, Unload(c) PROVE Goal
  BY <1>5 DEF RuntimeTypes, Unload, Goes, requestVars, serverVars
<1>6. ASSUME NEW c \in Callers, Stop(c) PROVE Goal
  BY <1>6 DEF RuntimeTypes, Stop, Goes, requestVars, serverVars
<1>7. ASSUME NEW c \in Callers, NEW m \in Models, NEW gpu \in BOOLEAN, Acquire(c, m, gpu) PROVE Goal
  BY <1>7 DEF RuntimeTypes, Acquire, Goes, serverVars
<1>8. ASSUME NEW c \in Callers, Enqueue(c) PROVE Goal
  BY <1>8 DEF RuntimeTypes, OpsAgree, Enqueue, Goes, requestVars, serverVars
<1>9. ASSUME NEW c \in Callers, Locked(c) PROVE Goal
  BY <1>9 DEF RuntimeTypes, OpsAgree, Locked, Goes, requestVars, serverVars
<1>10. ASSUME NEW c \in Callers, CancelLoads(c) PROVE Goal
  BY <1>10 DEF RuntimeTypes, OpsAgree, CancelLoads, Goes, requestVars, serverVars
<1>11. ASSUME NEW c \in Callers, GiveUp(c) PROVE Goal
  BY <1>11 DEF RuntimeTypes, GiveUp, Returns, Forget, Goes, serverVars
<1>12. ASSUME NEW c \in Callers, Share(c) PROVE Goal
  BY <1>12 DEF RuntimeTypes, Share, Returns, Forget, Goes, serverVars
<1>13. ASSUME NEW c \in Callers, Refuse(c) PROVE Goal
  BY <1>13 DEF RuntimeTypes, Refuse, Returns, Forget, Goes, serverVars
<1>14. ASSUME NEW c \in Callers, LaunchFails(c) PROVE Goal
  BY <1>14 DEF RuntimeTypes, LaunchFails, Returns, Forget, Goes, serverVars
<1>15. ASSUME NEW c \in Callers, LoadFails(c) PROVE Goal
  BY <1>15 DEF RuntimeTypes, LoadFails, Returns, Forget, Goes, serverVars
<1>16. ASSUME NEW c \in Callers, Publish(c) PROVE Goal
  BY <1>16 DEF RuntimeTypes, Publish, Returns, Forget, Goes, serverVars
<1>17. ASSUME NEW c \in Callers, UnloadReturns(c) PROVE Goal
  BY <1>17 DEF RuntimeTypes, UnloadReturns, Returns, Forget, Goes, serverVars
<1>18. ASSUME NEW c \in Callers, Replace(c) PROVE Goal
  BY <1>18 DEF RuntimeTypes, Replace, Goes, requestVars, serverVars
<1>19. ASSUME NEW c \in Callers, SlotIsFree(c) PROVE Goal
  BY <1>19 DEF RuntimeTypes, SlotIsFree, Goes, requestVars, serverVars
<1>20. ASSUME NEW c \in Callers, NEW s \in Servers, Launch(c, s) PROVE Goal
  BY <1>20 DEF RuntimeTypes, Launch, Unused, Goes, requestVars
<1>21. ASSUME NEW c \in Callers, LoadExited(c) PROVE Goal
  BY <1>21 DEF RuntimeTypes, LoadExited, Goes, requestVars, serverVars
<1>22. ASSUME NEW c \in Callers, LoadReady(c) PROVE Goal
  BY <1>22 DEF RuntimeTypes, LoadReady, Goes, requestVars, serverVars
<1>23. ASSUME NEW c \in Callers, LoadAbandoned(c) PROVE Goal
  BY <1>23 DEF RuntimeTypes, LoadAbandoned, Goes, requestVars, serverVars
<1>24. ASSUME NEW c \in Callers, UnloadTakes(c) PROVE Goal
  BY <1>24 DEF RuntimeTypes, UnloadTakes, Goes, requestVars, serverVars
<1>25. ASSUME NEW c \in Callers, StopTakes(c) PROVE Goal
  BY <1>25 DEF RuntimeTypes, StopTakes, Goes, requestVars, serverVars
<1>26. ASSUME NEW c \in Callers, StopClears(c) PROVE Goal
  BY <1>26 DEF RuntimeTypes, StopClears, Goes, requestVars, serverVars
<1>27. ASSUME NEW c \in Callers, Gone(mine[c]),
              \A d \in Callers : /\ d # c => pc'[d] = pc[d] /\ op'[d] = op[d] /\ want'[d] = want[d]
                                             /\ mine'[d] = mine[d]
                                 /\ d = c => pc'[d] \notin {"loading", "ready"}
                                             /\ (op'[d] = "acquire" => want'[d] \in Models)
                                             /\ (pc'[d] = "launch" => op'[d] = "acquire")
       PROVE  Goal
  <2>1. model' \in [Servers -> Models \cup {NoModel}]
    BY <1>27 DEF RuntimeTypes, Gone
  <2>2. \A t \in Servers : t # mine[c] => model'[t] = model[t]
    BY <1>27 DEF RuntimeTypes, Gone
  <2>3. \A d \in Callers : d # c /\ pc[d] \in {"loading", "ready"} => mine[d] \in Servers \ {mine[c]}
    BY DEF RuntimeTypes, ServersOwned
  <2>. QED
    BY <1>27, <2>1, <2>2, <2>3
<1>28. ASSUME NEW c \in Callers, Abandoned(c) \/ Unloaded(c) PROVE Goal
  <2>1. CASE Abandoned(c)
    BY <1>27, <2>1 DEF RuntimeTypes, Abandoned, Returns, Forget, Goes
  <2>2. CASE Unloaded(c)
    BY <1>27, <2>2 DEF RuntimeTypes, Unloaded, Returns, Forget, Goes
  <2>. QED
    BY <1>28, <2>1, <2>2
<1>29. ASSUME NEW c \in Callers, Stopped(c) PROVE Goal
  <2>1. CASE mine[c] = NoServer
    BY <1>29, <2>1 DEF RuntimeTypes, Stopped, Forget, Goes
  <2>2. CASE mine[c] # NoServer
    BY <1>27, <1>29, <2>2 DEF RuntimeTypes, Stopped, Forget, Goes
  <2>. QED
    BY <2>1, <2>2
<1>30. ASSUME NEW c \in Callers, Replaced(c) PROVE Goal
  BY <1>27, <1>30 DEF RuntimeTypes, OpsAgree, Replaced, Goes, requestVars
<1>. QED
  BY <1>1, <1>2, <1>3, <1>4, <1>5, <1>6, <1>7, <1>8, <1>9, <1>10, <1>11, <1>12, <1>13, <1>14, <1>15,
     <1>16, <1>17, <1>18, <1>19, <1>20, <1>21, <1>22, <1>23, <1>24, <1>25, <1>26, <1>27, <1>28,
     <1>29, <1>30, Steps DEF Step

-----------------------------------------------------------------------------
(* The leases                                                              *)

\* Who has started a server and not yet put it into the slot.
Starting(c) == pc[c] \in {"loading", "ready", "abandoning"}

\* A server that is being started stays with its operation.
LEMMA StartingSteps ==
  ASSUME RuntimeInv, [LocalRuntimeNext]_runtimeVars, NEW c \in Callers, Starting(c)'
  PROVE  (Starting(c) /\ mine'[c] = mine[c]) \/ \E s \in Servers : Launch(c, s)
<1>. DEFINE Same == \A d \in Callers : Starting(d)' => Starting(d) /\ mine'[d] = mine[d]
<1>. RuntimeTypes
  BY DEF RuntimeInv
<1>. USE DEF Starting
<1>1. ASSUME UNCHANGED runtimeVars PROVE Same
  BY <1>1 DEF runtimeVars
<1>2. ASSUME NEW s \in Servers, Crash(s) PROVE Same
  BY <1>2 DEF Crash
<1>3. ASSUME NEW d \in Callers,
             \/ DropLease(d) \/ CancelTask(d) \/ Unload(d) \/ Stop(d)
             \/ \E m \in Models, gpu \in BOOLEAN : Acquire(d, m, gpu)
      PROVE  Same
  BY <1>3 DEF RuntimeTypes, DropLease, CancelTask, Unload, Stop, Acquire, Goes
<1>4. ASSUME NEW d \in Callers,
             \/ Enqueue(d) \/ Locked(d) \/ CancelLoads(d) \/ LoadExited(d)
             \/ LoadReady(d) \/ LoadAbandoned(d) \/ Replace(d) \/ Replaced(d) \/ SlotIsFree(d)
      PROVE  Same
  BY <1>4 DEF RuntimeTypes, Enqueue, Locked, CancelLoads, LoadExited, LoadReady, LoadAbandoned, Replace,
     Replaced, SlotIsFree, Goes
<1>5. ASSUME NEW d \in Callers,
             \/ GiveUp(d) \/ Share(d) \/ Refuse(d) \/ LaunchFails(d) \/ LoadFails(d) \/ Abandoned(d)
             \/ Publish(d) \/ UnloadReturns(d) \/ Unloaded(d) \/ Stopped(d)
      PROVE  Same
  BY <1>5 DEF RuntimeTypes, GiveUp, Share, Refuse, LaunchFails, LoadFails, Abandoned, Publish,
     UnloadReturns, Unloaded, Stopped, Returns, Forget, Goes
<1>6. ASSUME NEW d \in Callers, UnloadTakes(d) \/ StopTakes(d) \/ StopClears(d) PROVE Same
  BY <1>6 DEF RuntimeTypes, UnloadTakes, StopTakes, StopClears, Goes
<1>7. ASSUME NEW d \in Callers, NEW s \in Servers, Launch(d, s), d # c PROVE Starting(c) /\ mine'[c] = mine[c]
  BY <1>7 DEF RuntimeTypes, Launch, Goes
<1>. QED
  BY <1>1, <1>2, <1>3, <1>4, <1>5, <1>6, <1>7, Steps DEF Step

\* Who leases a server.
Lessees(s) == {c \in Callers : lease[c] = s}

\* Only a number is counted, since there are finitely many callers.
LEMMA LesseesFinite ==
  ASSUME NEW s
  PROVE  IsFiniteSet(Lessees(s)) /\ Cardinality(Lessees(s)) \in Nat
<1>1. IsFiniteSet(Lessees(s))
  BY RuntimeAssumption, FS_Subset DEF Lessees
<1>. QED
  BY <1>1, FS_CardinalityType

\* A lease is counted when it is given and when it is dropped, the first of a
\* server included.
LEMMA LeasesNext ==
  ASSUME RuntimeInv, [LocalRuntimeNext]_runtimeVars
  PROVE  /\ leases' \in [Servers -> Nat] /\ lease' \in [Callers -> Servers \cup {NoServer}]
         /\ LeasesCounted'
<1>. RuntimeTypes /\ LeasedIsLoaded /\ ServersOwned /\ NewUnleased
  BY DEF RuntimeInv
<1>. DEFINE Goal == /\ leases' \in [Servers -> Nat] /\ lease' \in [Callers -> Servers \cup {NoServer}]
                    /\ LeasesCounted'
<1>0. \A s \in Servers : leases[s] = Cardinality(Lessees(s))
  BY DEF RuntimeInv, LeasesCounted, Lessees
<1>1. CASE UNCHANGED <<leases, lease>>
  BY <1>1 DEF RuntimeInv, LeasesCounted, RuntimeTypes
<1>2. ASSUME NEW c \in Callers, NEW s \in Servers, lease[c] = NoServer,
             lease' = [lease EXCEPT ![c] = s], leases' = [leases EXCEPT ![s] = leases[s] + 1]
      PROVE  Goal
  <2>1. leases' \in [Servers -> Nat] /\ lease' \in [Callers -> Servers \cup {NoServer}]
    BY <1>2 DEF RuntimeTypes
  <2>2. \A t \in Servers : Lessees(t)' = IF t = s THEN Lessees(s) \cup {c} ELSE Lessees(t)
    BY <1>2, RuntimeAssumption DEF Lessees, RuntimeTypes
  <2>3. c \notin Lessees(s)
    BY <1>2, RuntimeAssumption DEF Lessees
  <2>4. Cardinality(Lessees(s) \cup {c}) = Cardinality(Lessees(s)) + 1
    BY <2>3, LesseesFinite, FS_AddElement
  <2>5. \A t \in Servers : leases'[t] = Cardinality(Lessees(t)')
    BY <1>0, <1>2, <2>2, <2>4 DEF RuntimeTypes
  <2>. QED
    BY <2>1, <2>5 DEF LeasesCounted, Lessees
<1>3. ASSUME NEW c \in Callers, Share(c) PROVE Goal
  BY <1>2, <1>3 DEF Share, RuntimeTypes, LeasedIsLoaded
<1>4. ASSUME NEW c \in Callers, Publish(c) PROVE Goal
  <2>1. mine[c] \in Servers /\ leases[mine[c]] = 0 /\ lease[c] = NoServer
    BY <1>4 DEF Publish, RuntimeTypes, ServersOwned, NewUnleased, LeasedIsLoaded
  <2>2. leases' = [leases EXCEPT ![mine[c]] = leases[mine[c]] + 1] /\ lease' = [lease EXCEPT ![c] = mine[c]]
    BY <1>4, <2>1 DEF Publish
  <2>. QED
    BY <1>2, <2>1, <2>2
<1>5. ASSUME NEW c \in Callers, DropLease(c) PROVE Goal
  <2>. DEFINE s == lease[c]
  <2>1. s \in Servers
    BY <1>5 DEF DropLease, RuntimeTypes, LeasedIsLoaded
  <2>2. lease' = [lease EXCEPT ![c] = NoServer] /\ leases' = [leases EXCEPT ![s] = leases[s] - 1]
    BY <1>5 DEF DropLease
  <2>3. \A t \in Servers : Lessees(t)' = IF t = s THEN Lessees(s) \ {c} ELSE Lessees(t)
    BY <2>1, <2>2, RuntimeAssumption DEF Lessees, RuntimeTypes
  <2>4. c \in Lessees(s)
    BY DEF Lessees
  <2>5. /\ Cardinality(Lessees(s) \ {c}) = Cardinality(Lessees(s)) - 1
        /\ Cardinality(Lessees(s) \ {c}) \in Nat
    <3>1. IsFiniteSet(Lessees(s)) /\ IsFiniteSet(Lessees(s) \ {c})
      BY LesseesFinite, FS_Subset
    <3>. QED
      BY <2>4, <3>1, FS_RemoveElement, FS_CardinalityType
  <2>6. leases' \in [Servers -> Nat] /\ lease' \in [Callers -> Servers \cup {NoServer}]
    BY <1>0, <2>1, <2>2, <2>5 DEF RuntimeTypes
  <2>7. \A t \in Servers : leases'[t] = Cardinality(Lessees(t)')
    BY <1>0, <2>2, <2>3, <2>5 DEF RuntimeTypes
  <2>. QED
    BY <2>6, <2>7 DEF LeasesCounted, Lessees
<1>. QED
  BY <1>1, <1>3, <1>4, <1>5, LeaseSteps

\* Who leases a server finds it counted.
LEMMA Counted ==
  ASSUME RuntimeInv, NEW c \in Callers, lease[c] \in Servers
  PROVE  leases[lease[c]] > 0
<1>1. c \in Lessees(lease[c])
  BY DEF Lessees
<1>2. Cardinality(Lessees(lease[c])) # 0
  BY <1>1, LesseesFinite, FS_EmptySet
<1>3. leases[lease[c]] = Cardinality(Lessees(lease[c]))
  BY DEF RuntimeInv, LeasesCounted, Lessees
<1>. QED
  BY <1>2, <1>3, LesseesFinite

\* A server gets its first lease when it is in the slot.
LEMMA UnleasedNext == ASSUME RuntimeInv, [LocalRuntimeNext]_runtimeVars PROVE NewUnleased'
<1>. RuntimeTypes /\ LeasedIsLoaded /\ ServersOwned /\ NewUnleased
  BY DEF RuntimeInv
<1>. SUFFICES ASSUME NEW c \in Callers, Starting(c)' PROVE leases'[mine'[c]] = 0
  BY DEF NewUnleased, Starting
<1>1. ASSUME NEW s \in Servers, Launch(c, s) PROVE leases'[mine'[c]] = 0
  BY <1>1 DEF Launch, Unused, RuntimeTypes
<1>2. ASSUME Starting(c), mine'[c] = mine[c] PROVE leases'[mine'[c]] = 0
  <2>1. mine[c] \in Servers /\ leases[mine[c]] = 0 /\ mine[c] # slot
    BY <1>2 DEF Starting, NewUnleased, ServersOwned, RuntimeTypes
  <2>2. ASSUME NEW d \in Callers, Share(d) PROVE leases'[mine'[c]] = 0
    BY <1>2, <2>1, <2>2 DEF Share, RuntimeTypes
  <2>3. ASSUME NEW d \in Callers, Publish(d) PROVE leases'[mine'[c]] = 0
    <3>1. c # d
      BY <2>3 DEF Publish, Returns, Forget, Goes, Starting, RuntimeTypes
    <3>2. mine[d] # mine[c]
      BY <2>1, <3>1, RuntimeAssumption DEF ServersOwned
    <3>. QED
      BY <1>2, <2>1, <2>3, <3>2 DEF Publish, RuntimeTypes
  <2>4. ASSUME NEW d \in Callers, DropLease(d) PROVE leases'[mine'[c]] = 0
    <3>1. lease[d] \in Servers
      BY <2>4 DEF DropLease, RuntimeTypes, LeasedIsLoaded
    <3>2. lease[d] # mine[c]
      BY <2>1, <3>1, Counted
    <3>. QED
      BY <1>2, <2>1, <2>4, <3>2 DEF DropLease, RuntimeTypes
  <2>. QED
    BY <1>2, <2>1, <2>2, <2>3, <2>4, LeaseSteps
<1>. QED
  BY <1>1, <1>2, StartingSteps

-----------------------------------------------------------------------------
(* The slot                                                                *)

\* A server that is in use leaves the slot when it has crashed or when a
\* shutdown takes it.
LEMMA LeasedNext == ASSUME RuntimeInv, [LocalRuntimeNext]_runtimeVars PROVE LeasedIsLoaded'
<1>. RuntimeTypes /\ LeasedIsLoaded /\ ServersOwned /\ NewUnleased
  BY DEF RuntimeInv
<1>0. \A c \in Callers : lease[c] \in Servers => leases[lease[c]] > 0
  BY Counted
<1>. USE RuntimeAssumption DEF LeasedIsLoaded, ServersOwned, RuntimeTypes, Inside, Stopping, Running,
         ServerBusy, slotVars, serverVars
<1>1. ASSUME UNCHANGED <<slot, mine>>,
              \A s \in Servers : Running(s)' => Running(s),
              \A d \in Callers : Stopping(d) => Stopping(d)',
              \A d \in Callers : lease'[d] # NoServer => lease'[d] = lease[d],
              \A d \in Callers : lease'[d] # NoServer <=> pc'[d] = "using"
       PROVE  LeasedIsLoaded'
  BY <1>1
<1>a. ASSUME slot' = slot, \A s \in Servers : Running(s)' => Running(s),
              \A d \in Callers : Stopping(d) => Stopping(d)' /\ mine'[d] = mine[d],
              \A d \in Callers : lease'[d] = lease[d] \/ lease'[d] = slot,
              \A d \in Callers : lease'[d] # NoServer <=> pc'[d] = "using"
       PROVE  LeasedIsLoaded'
  <2>1. ASSUME NEW d \in Callers, lease'[d] # NoServer
        PROVE  \/ lease'[d] = slot' \/ ~Running(lease[d])'
               \/ \E e \in Callers : Stopping(e)' /\ mine'[e] = lease'[d]
    <3>1. CASE lease'[d] = slot
      BY <1>a, <3>1
    <3>2. CASE lease'[d] = lease[d]
      <4>1. \/ lease[d] = slot \/ ~Running(lease[d])
            \/ \E e \in Callers : Stopping(e) /\ mine[e] = lease[d]
        BY <2>1, <3>2
      <4>2. lease[d] \in Servers
        BY <2>1, <3>2
      <4>3. CASE lease[d] = slot
        BY <1>a, <3>2, <4>3
      <4>4. CASE ~Running(lease[d])
        <5>1. ~Running(lease[d])'
          BY <1>a, <3>2, <4>2, <4>4
        <5>. QED
          BY <5>1
      <4>5. ASSUME NEW e \in Callers, Stopping(e), mine[e] = lease[d]
            PROVE  Stopping(e)' /\ mine'[e] = lease'[d]
        BY <1>a, <3>2, <4>5
      <4>. QED
        BY <4>1, <4>3, <4>4, <4>5
    <3>. QED
      BY <1>a, <3>1, <3>2
  <2>. QED
    BY <1>a, <2>1
<1>2. ASSUME UNCHANGED runtimeVars PROVE LeasedIsLoaded'
  BY <1>2 DEF runtimeVars
<1>3. ASSUME NEW s \in Servers, Crash(s) PROVE LeasedIsLoaded'
  BY <1>3 DEF Crash
<1>4. ASSUME NEW c \in Callers, NEW s \in Servers, Launch(c, s) PROVE LeasedIsLoaded'
  BY <1>4, <1>0 DEF Launch, Unused, Goes
<1>5. ASSUME NEW c \in Callers, DropLease(c) PROVE LeasedIsLoaded'
  <2>1. UNCHANGED <<slot, mine>> /\ \A s \in Servers : Running(s)' => Running(s)
    BY <1>5 DEF DropLease
  <2>2. \A d \in Callers : Stopping(d) => Stopping(d)'
    BY <1>5 DEF DropLease, Goes
  <2>3. \A d \in Callers : lease'[d] # NoServer => lease'[d] = lease[d]
    BY <1>5 DEF DropLease, Goes
  <2>4. \A d \in Callers : lease'[d] # NoServer <=> pc'[d] = "using"
    BY <1>5 DEF DropLease, Goes
  <2>. QED
    BY <1>1, <2>1, <2>2, <2>3, <2>4
<1>6. ASSUME NEW c \in Callers, CancelTask(c) PROVE LeasedIsLoaded'
  BY <1>6, <1>0 DEF CancelTask
<1>7. ASSUME NEW c \in Callers, Unload(c) PROVE LeasedIsLoaded'
  BY <1>7, <1>0 DEF Unload, Goes
<1>8. ASSUME NEW c \in Callers, Stop(c) PROVE LeasedIsLoaded'
  <2>1. slot' = slot /\ \A s \in Servers : Running(s)' => Running(s)
    BY <1>8 DEF Stop
  <2>2. \A d \in Callers : Stopping(d) => Stopping(d)' /\ mine'[d] = mine[d]
    BY <1>8 DEF Stop, Goes
  <2>3. \A d \in Callers : lease'[d] = lease[d] \/ lease'[d] = slot
    BY <1>8 DEF Stop
  <2>4. \A d \in Callers : lease'[d] # NoServer <=> pc'[d] = "using"
    BY <1>8 DEF Stop, Goes
  <2>. QED
    BY <1>a, <2>1, <2>2, <2>3, <2>4
<1>9. ASSUME NEW c \in Callers, Enqueue(c) PROVE LeasedIsLoaded'
  BY <1>9, <1>0 DEF Enqueue, Goes
<1>10. ASSUME NEW c \in Callers, Locked(c) PROVE LeasedIsLoaded'
  <2>1. UNCHANGED <<slot, mine>> /\ \A s \in Servers : Running(s)' => Running(s)
    BY <1>10 DEF Locked
  <2>2. \A d \in Callers : Stopping(d) => Stopping(d)'
    BY <1>10 DEF Locked, Goes
  <2>3. \A d \in Callers : lease'[d] # NoServer => lease'[d] = lease[d]
    BY <1>10 DEF Locked, Goes
  <2>4. \A d \in Callers : lease'[d] # NoServer <=> pc'[d] = "using"
    BY <1>10 DEF Locked, Goes
  <2>. QED
    BY <1>1, <2>1, <2>2, <2>3, <2>4
<1>11. ASSUME NEW c \in Callers, GiveUp(c) PROVE LeasedIsLoaded'
  <2>1. slot' = slot /\ \A s \in Servers : Running(s)' => Running(s)
    BY <1>11 DEF GiveUp
  <2>2. \A d \in Callers : Stopping(d) => Stopping(d)' /\ mine'[d] = mine[d]
    BY <1>11 DEF GiveUp, Forget, Goes
  <2>3. \A d \in Callers : lease'[d] = lease[d] \/ lease'[d] = slot
    BY <1>11 DEF GiveUp
  <2>4. \A d \in Callers : lease'[d] # NoServer <=> pc'[d] = "using"
    BY <1>11 DEF GiveUp, Forget, Goes
  <2>. QED
    BY <1>a, <2>1, <2>2, <2>3, <2>4
<1>12. ASSUME NEW c \in Callers, Share(c) PROVE LeasedIsLoaded'
  <2>1. slot' = slot /\ \A s \in Servers : Running(s)' => Running(s)
    BY <1>12 DEF Share
  <2>2. \A d \in Callers : Stopping(d) => Stopping(d)' /\ mine'[d] = mine[d]
    BY <1>12 DEF Share, Returns, Forget, Goes
  <2>3. \A d \in Callers : lease'[d] = lease[d] \/ lease'[d] = slot
    BY <1>12 DEF Share
  <2>4. \A d \in Callers : lease'[d] # NoServer <=> pc'[d] = "using"
    BY <1>12 DEF Share, Returns, Forget, Goes
  <2>. QED
    BY <1>a, <2>1, <2>2, <2>3, <2>4
<1>13. ASSUME NEW c \in Callers, Refuse(c) PROVE LeasedIsLoaded'
  BY <1>13, <1>0 DEF Refuse, Returns, Forget, Goes
<1>14. ASSUME NEW c \in Callers, Replace(c) PROVE LeasedIsLoaded'
  <2>1. \A d \in Callers : lease[d] # slot \/ ~Running(slot)
    BY <1>14, <1>0 DEF Replace
  <2>2. \A d \in Callers : Stopping(d) => Stopping(d)' /\ mine'[d] = mine[d]
    BY <1>14 DEF Replace, Goes
  <2>3. UNCHANGED <<lease, proc>> /\ \A d \in Callers : pc'[d] = "using" <=> pc[d] = "using"
    BY <1>14 DEF Replace, Goes
  <2>4. \A d \in Callers : lease'[d] # NoServer <=> pc'[d] = "using"
    BY <2>3
  <2>5. ASSUME NEW d \in Callers, lease[d] # NoServer
        PROVE  ~Running(lease[d]) \/ \E e \in Callers : Stopping(e)' /\ mine'[e] = lease[d]
    <3>1. \/ lease[d] = slot \/ ~Running(lease[d])
          \/ \E e \in Callers : Stopping(e) /\ mine[e] = lease[d]
      BY <2>5
    <3>. QED
      BY <2>1, <2>2, <3>1
  <2>6. \A s : Running(s)' <=> Running(s)
    BY <2>3
  <2>. QED
    BY <2>3, <2>4, <2>5, <2>6
<1>15. ASSUME NEW c \in Callers, Replaced(c) PROVE LeasedIsLoaded'
  BY <1>15, <1>0 DEF Replaced, Gone, Goes
<1>16. ASSUME NEW c \in Callers, SlotIsFree(c) PROVE LeasedIsLoaded'
  BY <1>16, <1>0 DEF SlotIsFree, Goes
<1>17. ASSUME NEW c \in Callers, LaunchFails(c) PROVE LeasedIsLoaded'
  BY <1>17, <1>0 DEF LaunchFails, Returns, Forget, Goes
<1>18. ASSUME NEW c \in Callers, LoadExited(c) PROVE LeasedIsLoaded'
  BY <1>18, <1>0 DEF LoadExited, Goes
<1>19. ASSUME NEW c \in Callers, LoadFails(c) PROVE LeasedIsLoaded'
  BY <1>19, <1>0 DEF LoadFails, Returns, Forget, Goes
<1>20. ASSUME NEW c \in Callers, LoadReady(c) PROVE LeasedIsLoaded'
  <2>1. UNCHANGED <<slot, mine>> /\ \A s \in Servers : Running(s)' => Running(s)
    BY <1>20 DEF LoadReady
  <2>2. \A d \in Callers : Stopping(d) => Stopping(d)'
    BY <1>20 DEF LoadReady, Goes
  <2>3. \A d \in Callers : lease'[d] # NoServer => lease'[d] = lease[d]
    BY <1>20 DEF LoadReady, Goes
  <2>4. \A d \in Callers : lease'[d] # NoServer <=> pc'[d] = "using"
    BY <1>20 DEF LoadReady, Goes
  <2>. QED
    BY <1>1, <2>1, <2>2, <2>3, <2>4
<1>21. ASSUME NEW c \in Callers, LoadAbandoned(c) PROVE LeasedIsLoaded'
  BY <1>21, <1>0 DEF LoadAbandoned, Goes
<1>22. ASSUME NEW c \in Callers, Abandoned(c) PROVE LeasedIsLoaded'
  BY <1>22, <1>0 DEF Abandoned, Gone, Returns, Forget, Goes
<1>23. ASSUME NEW c \in Callers, Publish(c) PROVE LeasedIsLoaded'
  <2>0. pc[c] = "ready"
    BY <1>23 DEF Publish
  <2>1. slot = NoServer /\ mine[c] \in Servers /\ lease[c] = NoServer
    <3>1. slot = NoServer
      BY <2>0 DEF Holding
    <3>2. mine[c] # NoServer
      BY <2>0
    <3>3. lease[c] = NoServer
      BY <2>0
    <3>. QED
      BY <3>1, <3>2, <3>3
  <2>2. \A d \in Callers : Stopping(d) => Stopping(d)' /\ mine'[d] = mine[d]
    BY <1>23 DEF Publish, Returns, Forget, Goes
  <2>3. /\ UNCHANGED proc /\ slot' = mine[c] /\ lease'[c] = mine[c] /\ pc'[c] = "using"
        /\ \A d \in Callers \ {c} : lease'[d] = lease[d] /\ pc'[d] = pc[d]
    BY <1>23 DEF Publish, Returns, Forget, Goes
  <2>4. \A d \in Callers : lease'[d] # NoServer <=> pc'[d] = "using"
    BY <2>1, <2>3
  <2>5. ASSUME NEW d \in Callers, d # c, lease[d] # NoServer
        PROVE  ~Running(lease[d]) \/ \E e \in Callers : Stopping(e)' /\ mine'[e] = lease[d]
    <3>1. \/ lease[d] = slot \/ ~Running(lease[d])
          \/ \E e \in Callers : Stopping(e) /\ mine[e] = lease[d]
      BY <2>5
    <3>. QED
      BY <2>1, <2>2, <2>5, <3>1
  <2>6. \A s : Running(s)' <=> Running(s)
    BY <2>3
  <2>7. ASSUME NEW d \in Callers, lease'[d] # NoServer
        PROVE  \/ lease'[d] = slot' \/ ~Running(lease[d])'
               \/ \E e \in Callers : Stopping(e)' /\ mine'[e] = lease'[d]
    <3>1. CASE d = c
      BY <2>3, <3>1
    <3>2. CASE d # c
      <4>1. lease'[d] = lease[d]
        BY <2>3, <3>2
      <4>. QED
        BY <2>5, <2>6, <2>7, <3>2, <4>1
    <3>. QED
      BY <3>1, <3>2
  <2>. QED
    BY <2>4, <2>7
<1>24. ASSUME NEW c \in Callers, CancelLoads(c) PROVE LeasedIsLoaded'
  <2>1. slot' = slot /\ \A s \in Servers : Running(s)' => Running(s)
    BY <1>24 DEF CancelLoads
  <2>2. \A d \in Callers : Stopping(d) => Stopping(d)' /\ mine'[d] = mine[d]
    BY <1>24 DEF CancelLoads, Goes
  <2>3. \A d \in Callers : lease'[d] = lease[d] \/ lease'[d] = slot
    BY <1>24 DEF CancelLoads
  <2>4. \A d \in Callers : lease'[d] # NoServer <=> pc'[d] = "using"
    BY <1>24 DEF CancelLoads, Goes
  <2>. QED
    BY <1>a, <2>1, <2>2, <2>3, <2>4
<1>25. ASSUME NEW c \in Callers, UnloadTakes(c) PROVE LeasedIsLoaded'
  BY <1>25, <1>0 DEF UnloadTakes, Goes
<1>26. ASSUME NEW c \in Callers, UnloadReturns(c) PROVE LeasedIsLoaded'
  BY <1>26, <1>0 DEF UnloadReturns, Returns, Forget, Goes
<1>27. ASSUME NEW c \in Callers, Unloaded(c) PROVE LeasedIsLoaded'
  BY <1>27, <1>0 DEF Unloaded, Gone, Returns, Forget, Goes
<1>28. ASSUME NEW c \in Callers, StopTakes(c) PROVE LeasedIsLoaded'
  BY <1>28, <1>0 DEF StopTakes, Goes
<1>29. ASSUME NEW c \in Callers, StopClears(c) PROVE LeasedIsLoaded'
  BY <1>29, <1>0 DEF StopClears, Goes
<1>30. ASSUME NEW c \in Callers, Stopped(c) PROVE LeasedIsLoaded'
  BY <1>30, <1>0 DEF Stopped, Gone, Forget, Goes
<1>31. ASSUME NEW c \in Callers, NEW m \in Models, NEW gpu \in BOOLEAN, Acquire(c, m, gpu)
       PROVE  LeasedIsLoaded'
  BY <1>31 DEF Acquire, Goes
<1>. QED
  BY <1>2, <1>3, <1>4, <1>5, <1>6, <1>7, <1>8, <1>9, <1>10, <1>11, <1>12, <1>13, <1>14, <1>15, <1>16,
     <1>17, <1>18, <1>19, <1>20, <1>21, <1>22, <1>23, <1>24, <1>25, <1>26, <1>27, <1>28, <1>29,
     <1>30, <1>31, Steps DEF Step

\* The server in the slot keeps its model, and the snapshot follows the slot.
LEMMA SlotShown == ASSUME RuntimeInv, [LocalRuntimeNext]_runtimeVars PROVE SlotHasModel' /\ SnapshotShowsSlot'
<1>. /\ RuntimeTypes /\ ServersOwned /\ ModelsKnown /\ SlotHasModel /\ SnapshotShowsSlot
     /\ StopsOnShutdown
  BY DEF RuntimeInv
<1>1. SnapshotShowsSlot'
  BY SlotSteps DEF SnapshotShowsSlot, StopsOnShutdown, Stopping, Replace, Publish, UnloadTakes,
     UnloadReturns, StopTakes, StopClears
<1>2. \A c \in Callers : mine[c] # NoServer => mine[c] # slot
  BY DEF ServersOwned
<1>3. ASSUME slot' # NoServer, slot' = slot PROVE model'[slot'] \in Models
  <2>1. slot \in Servers /\ model[slot] \in Models
    BY <1>3 DEF SlotHasModel, RuntimeTypes
  <2>2. ASSUME NEW c \in Callers, Gone(mine[c]) PROVE model'[slot] = model[slot]
    BY <1>2, <2>1, <2>2, RuntimeAssumption DEF Gone, RuntimeTypes
  <2>3. ASSUME NEW c \in Callers, NEW s \in Servers, Launch(c, s) PROVE model'[slot] = model[slot]
    BY <2>1, <2>3 DEF Launch, Unused, RuntimeTypes
  <2>. QED
    BY <1>3, <2>1, <2>2, <2>3, ServerSteps DEF Replaced, LoadReady, Abandoned, Unloaded, Stopped, Crash
<1>4. ASSUME slot' # slot, slot' # NoServer PROVE model'[slot'] \in Models
  <2>1. PICK c \in Callers : Publish(c)
    BY <1>4, SlotSteps DEF Replace, UnloadTakes, UnloadReturns, StopTakes, StopClears
  <2>. QED
    BY <2>1 DEF Publish, ModelsKnown
<1>. QED
  BY <1>1, <1>3, <1>4 DEF SlotHasModel

-----------------------------------------------------------------------------
(* The whole invariant                                                     *)

\* Nothing is loaded and nobody asks for anything.
LEMMA RuntimeInit == LocalRuntimeInit => RuntimeInv
<1>. SUFFICES ASSUME LocalRuntimeInit PROVE RuntimeInv
  OBVIOUS
<1>1. RuntimeTypes /\ HolderInside /\ ServersOwned
  BY RuntimeAssumption DEF LocalRuntimeInit, RuntimeTypes, HolderInside, ServersOwned, Holding, Inside, Running, Stopping
<1>2. Len(queue) = 0
  BY DEF LocalRuntimeInit
<1>3. QueueHoldsWaiters
  BY <1>2 DEF LocalRuntimeInit, QueueHoldsWaiters
<1>4. LeasesCounted
  <2>1. \A s \in Servers : {c \in Callers : lease[c] = s} = {}
    BY RuntimeAssumption DEF LocalRuntimeInit
  <2>. QED
    BY <2>1, FS_EmptySet DEF LocalRuntimeInit, LeasesCounted
<1>. QED
  BY <1>1, <1>3, <1>4, RuntimeAssumption
     DEF LocalRuntimeInit, RuntimeInv, LeasedIsLoaded, NewUnleased, SlotHasModel, ModelsKnown, OpsAgree,
         LaunchesLeft, SnapshotShowsSlot, StopsOnShutdown, Stopping

\* Every step keeps what belongs together.
LEMMA RuntimeNext == RuntimeInv /\ [LocalRuntimeNext]_runtimeVars => RuntimeInv'
<1>. SUFFICES ASSUME RuntimeInv, [LocalRuntimeNext]_runtimeVars PROVE RuntimeInv'
  OBVIOUS
<1>1. SlotInv'
  <2>1. SlotInv
    BY DEF RuntimeInv, SlotInv, SlotTypes, RuntimeTypes
  <2>. QED
    BY <2>1, SlotNext
<1>2. shown' \in Servers \cup {NoServer}
  BY SlotSteps DEF RuntimeInv, RuntimeTypes, Replace, Publish, UnloadTakes, UnloadReturns, StopTakes, StopClears
<1>3. RuntimeTypes'
  BY <1>1, <1>2, QueueNext, OwnNext, ModelsNext, LeasesNext DEF RuntimeTypes, SlotInv, SlotTypes, OwnOK
<1>. QED
  BY <1>1, <1>3, QueueNext, OwnNext, ModelsNext, LeasesNext, UnleasedNext, LeasedNext, SlotShown
     DEF RuntimeInv, SlotInv, OwnOK

-----------------------------------------------------------------------------
(* The abstract slot                                                       *)

\* Nothing is loaded at first.
LEMMA SlotKeptInit == LocalRuntimeInit => Slot!Init
BY DEF LocalRuntimeInit, Slot!Init, loaded, alive, users, stoppers

\* A step that takes no lease and leaves the server in the slot alone is none
\* of the abstract slot's.
LEMMA SlotStutters ==
  ASSUME UNCHANGED <<slot, lease>>,
         slot # NoServer => model'[slot] = model[slot] /\ (Running(slot)' <=> Running(slot)),
         \A d \in Callers : d \in stoppers' <=> d \in stoppers
  PROVE  UNCHANGED Slot!vars
<1>1. UNCHANGED loaded /\ UNCHANGED users
  BY DEF loaded, users
<1>2. UNCHANGED alive
  BY DEF alive
<1>3. UNCHANGED stoppers
  BY DEF stoppers
<1>. QED
  BY <1>1, <1>2, <1>3 DEF Slot!vars

\* The entry and the exit of an operation, and what it does to a server outside
\* the slot.
LEMMA SilentSteps ==
  ASSUME RuntimeInv, NEW c \in Callers,
         \/ CancelTask(c) \/ Unload(c) \/ Enqueue(c) \/ Locked(c) \/ CancelLoads(c) \/ GiveUp(c)
         \/ \E m \in Models, gpu \in BOOLEAN : Acquire(c, m, gpu)
         \/ Refuse(c) \/ Replaced(c) \/ SlotIsFree(c) \/ (\E s \in Servers : Launch(c, s))
         \/ LaunchFails(c) \/ LoadExited(c) \/ LoadFails(c) \/ LoadReady(c) \/ LoadAbandoned(c)
         \/ Abandoned(c) \/ UnloadReturns(c) \/ Unloaded(c) \/ StopClears(c) \/ Stopped(c)
  PROVE  UNCHANGED Slot!vars
<1>. RuntimeTypes /\ ServersOwned /\ OpsAgree /\ ModelsKnown /\ StopsOnShutdown
  BY DEF RuntimeInv
<1>1. UNCHANGED <<slot, lease>>
  BY DEF CancelTask, Unload, Enqueue, Locked, CancelLoads, GiveUp, Acquire, Refuse, Replaced,
     SlotIsFree, Launch, LaunchFails, LoadExited, LoadFails, LoadReady, LoadAbandoned, Abandoned,
     UnloadReturns, Unloaded, StopClears, Stopped, slotVars
<1>2. ASSUME slot # NoServer PROVE model'[slot] = model[slot] /\ (Running(slot)' <=> Running(slot))
  <2>1. slot \in Servers /\ mine[c] # slot
    BY <1>2, RuntimeAssumption DEF ServersOwned, RuntimeTypes
  <2>2. ASSUME Gone(mine[c]) PROVE model'[slot] = model[slot] /\ proc'[slot] = proc[slot]
    BY <2>1, <2>2 DEF Gone, RuntimeTypes
  <2>3. ASSUME NEW s \in Servers, Launch(c, s) PROVE model'[slot] = model[slot] /\ proc'[slot] = proc[slot]
    BY <2>1, <2>3 DEF Launch, Unused, RuntimeTypes
  <2>4. ASSUME LoadReady(c) PROVE model'[slot] = model[slot] /\ proc'[slot] = proc[slot]
    BY <2>1, <2>4 DEF LoadReady, RuntimeTypes
  <2>5. \/ UNCHANGED <<proc, model>> \/ Gone(mine[c]) \/ LoadReady(c)
        \/ \E s \in Servers : Launch(c, s)
    BY DEF CancelTask, Unload, Enqueue, Locked, CancelLoads, GiveUp, Acquire, Refuse, Replaced,
       SlotIsFree, LaunchFails, LoadExited, LoadFails, LoadAbandoned, Abandoned, UnloadReturns,
       Unloaded, StopClears, Stopped, serverVars
  <2>. QED
    BY <1>1, <2>2, <2>3, <2>4, <2>5 DEF Running
<1>3. ASSUME NEW d \in Callers PROVE d \in stoppers' <=> d \in stoppers
  <2>. DEFINE Same == d \in stoppers' <=> d \in stoppers
  <2>. USE DEF stoppers, Stopping, RuntimeTypes, OpsAgree, ModelsKnown, StopsOnShutdown, requestVars
  <2>1. ASSUME CancelTask(c) \/ Unload(c) \/ Enqueue(c) \/ Locked(c) \/ CancelLoads(c) PROVE Same
    BY <2>1 DEF CancelTask, Unload, Enqueue, Locked, CancelLoads, Goes
  <2>2. ASSUME NEW m \in Models, NEW gpu \in BOOLEAN, Acquire(c, m, gpu) PROVE Same
    BY <2>2 DEF Acquire, Goes
  <2>3. ASSUME Replaced(c) \/ SlotIsFree(c) \/ LoadExited(c) PROVE Same
    BY <2>3 DEF Replaced, SlotIsFree, LoadExited, Goes
  <2>4. ASSUME NEW s \in Servers, Launch(c, s) PROVE Same
    BY <2>4 DEF Launch, Goes
  <2>5. ASSUME LoadReady(c) \/ LoadAbandoned(c) \/ StopClears(c) PROVE Same
    BY <2>5 DEF LoadReady, LoadAbandoned, StopClears, Goes
  <2>6. ASSUME Refuse(c) \/ LaunchFails(c) \/ LoadFails(c) \/ GiveUp(c) PROVE Same
    BY <2>6 DEF Refuse, LaunchFails, LoadFails, GiveUp, Returns, Forget, Goes
  <2>7. ASSUME Abandoned(c) \/ UnloadReturns(c) \/ Unloaded(c) \/ Stopped(c) PROVE Same
    BY <2>7 DEF Abandoned, UnloadReturns, Unloaded, Stopped, Returns, Forget, Goes
  <2>. QED
    BY <2>1, <2>2, <2>3, <2>4, <2>5, <2>6, <2>7
<1>. QED
  BY <1>1, <1>2, <1>3, SlotStutters

\* A load fills the empty slot, a server leaves it when nobody uses it, when it
\* has crashed or when a shutdown takes it.
LEMMA SlotKeptNext == RuntimeInv /\ [LocalRuntimeNext]_runtimeVars => [Slot!Next]_(Slot!vars)
<1>. SUFFICES ASSUME RuntimeInv, [LocalRuntimeNext]_runtimeVars PROVE [Slot!Next]_(Slot!vars)
  OBVIOUS
<1>. /\ RuntimeTypes /\ ServersOwned /\ OpsAgree /\ ModelsKnown /\ StopsOnShutdown /\ LeasedIsLoaded
     /\ NewUnleased
  BY DEF RuntimeInv
<1>0. \A c \in Callers : lease[c] \in Servers => leases[lease[c]] > 0
  BY Counted
<1>1. ASSUME UNCHANGED runtimeVars PROVE UNCHANGED Slot!vars
  BY <1>1 DEF runtimeVars, slotVars, serverVars, requestVars, Slot!vars, loaded, alive, users, stoppers,
     Running, Stopping
<1>2. ASSUME NEW s \in Servers, Crash(s) PROVE Slot!Crash \/ UNCHANGED Slot!vars
  <2>1. CASE s = slot
    <3>1. slot' = slot /\ ~Running(slot)' /\ slot # NoServer /\ Running(slot)
      BY <1>2, <2>1, RuntimeAssumption DEF Crash, Running, RuntimeTypes, slotVars
    <3>2. alive /\ alive' = FALSE
      BY <3>1 DEF alive
    <3>3. UNCHANGED <<loaded, users, stoppers>>
      BY <1>2 DEF Crash, slotVars, requestVars, loaded, users, stoppers, Stopping
    <3>. QED
      BY <3>2, <3>3 DEF Slot!Crash
  <2>2. CASE s # slot
    <3>1. \A d \in Callers : d \in stoppers' <=> d \in stoppers
      BY <1>2 DEF Crash, requestVars, stoppers, Stopping
    <3>. QED
      BY <1>2, <2>2, <3>1, SlotStutters DEF Crash, slotVars, Running, RuntimeTypes
  <2>. QED
    BY <2>1, <2>2
<1>3. ASSUME NEW c \in Callers, Share(c) PROVE Slot!Share(c)
  <2>1. alive /\ UNCHANGED <<slot, proc, model>>
    BY <1>3 DEF Share, alive, slotVars
  <2>2. users' = users \cup {c}
    BY <1>3 DEF Share, users, slotVars, RuntimeTypes
  <2>3. UNCHANGED stoppers
    BY <1>3 DEF Share, Returns, Forget, Goes, stoppers, Stopping, RuntimeTypes
  <2>. QED
    BY <2>1, <2>2, <2>3 DEF Slot!Share, loaded, alive, Running
<1>4. ASSUME NEW c \in Callers, Replace(c) \/ UnloadTakes(c) PROVE Slot!Evict
  <2>1. slot # NoServer /\ slot' = NoServer
    BY <1>4 DEF Replace, UnloadTakes
  <2>2. users = {} \/ ~alive
    <3>1. leases[slot] = 0 \/ ~Running(slot)
      BY <1>4 DEF Replace, UnloadTakes, ServerBusy, RuntimeTypes
    <3>2. leases[slot] = 0 => users = {}
      BY <1>0, <2>1 DEF users, RuntimeTypes
    <3>. QED
      BY <3>1, <3>2 DEF alive
  <2>3. loaded' = NoModel /\ alive' = FALSE /\ users' = {}
    BY <2>1 DEF loaded, alive, users
  <2>4. UNCHANGED stoppers
    BY <1>4 DEF Replace, UnloadTakes, Goes, stoppers, Stopping, RuntimeTypes, requestVars
  <2>. QED
    BY <2>2, <2>3, <2>4 DEF Slot!Evict, Slot!Empty
<1>5. ASSUME NEW c \in Callers, Publish(c) PROVE Slot!Load(c)
  <2>1. slot = NoServer /\ slot' = mine[c] /\ mine[c] \in Servers /\ model' = model
    BY <1>5 DEF Publish, ServersOwned, RuntimeTypes, Holding
  <2>2. loaded = NoModel /\ loaded' \in Models
    BY <1>5, <2>1, RuntimeAssumption DEF loaded, Publish, ModelsKnown
  <2>3. alive' \in BOOLEAN
    BY DEF alive
  <2>4. \A d \in Callers : lease[d] # mine[c]
    BY <1>0, <1>5, <2>1 DEF Publish, NewUnleased
  <2>5. users' = {c}
    BY <1>5, <2>1, <2>4, RuntimeAssumption DEF Publish, users, RuntimeTypes
  <2>6. UNCHANGED stoppers
    BY <1>5 DEF Publish, Returns, Forget, Goes, stoppers, Stopping, RuntimeTypes, ModelsKnown
  <2>. QED
    BY <2>2, <2>3, <2>5, <2>6 DEF Slot!Load
<1>6. ASSUME NEW c \in Callers, DropLease(c) PROVE Slot!Release(c) \/ UNCHANGED Slot!vars
  <2>1. UNCHANGED <<slot, proc, model>> /\ lease' = [lease EXCEPT ![c] = NoServer]
    BY <1>6 DEF DropLease, slotVars
  <2>2. UNCHANGED <<loaded, alive>>
    BY <2>1 DEF loaded, alive, Running
  <2>3. UNCHANGED stoppers
    BY <1>6 DEF DropLease, Goes, stoppers, Stopping, RuntimeTypes, requestVars
  <2>4. lease[c] # NoServer
    BY <1>6 DEF DropLease, LeasedIsLoaded
  <2>5. users' = users \ {c}
    BY <2>1 DEF users, RuntimeTypes
  <2>. QED
    BY <2>2, <2>3, <2>5 DEF Slot!Release, Slot!vars
<1>7. ASSUME NEW c \in Callers, Stop(c) PROVE Slot!AskStop(c)
  <2>1. UNCHANGED <<slot, lease, proc, model>> /\ Shutdown
    BY <1>7 DEF Stop, slotVars, serverVars
  <2>2. stoppers' = stoppers \cup {c}
    BY <1>7 DEF Stop, Goes, stoppers, Stopping, RuntimeTypes
  <2>. QED
    BY <2>1, <2>2 DEF Slot!AskStop, loaded, alive, users, Running
<1>8. ASSUME NEW c \in Callers, StopTakes(c) PROVE Slot!Stop(c)
  <2>1. c \in stoppers /\ stoppers' = stoppers \ {c}
    BY <1>8 DEF StopTakes, Goes, stoppers, Stopping, RuntimeTypes, requestVars
  <2>2. loaded' = NoModel /\ alive' = FALSE /\ users' = {}
    BY <1>8 DEF StopTakes, loaded, alive, users
  <2>. QED
    BY <2>1, <2>2 DEF Slot!Stop, Slot!Empty
<1>9. ASSUME NEW c \in Callers,
             \/ Step(c) \/ CancelTask(c) \/ Unload(c)
             \/ \E m \in Models, gpu \in BOOLEAN : Acquire(c, m, gpu)
      PROVE  [Slot!Next]_(Slot!vars)
  <2>1. CASE Share(c) \/ Replace(c) \/ UnloadTakes(c) \/ Publish(c) \/ StopTakes(c)
    BY <1>3, <1>4, <1>5, <1>8, <2>1 DEF Slot!Next
  <2>2. CASE ~(Share(c) \/ Replace(c) \/ UnloadTakes(c) \/ Publish(c) \/ StopTakes(c))
    BY <1>9, <2>2, SilentSteps DEF Step
  <2>. QED
    BY <2>1, <2>2
<1>. QED
  BY <1>1, <1>2, <1>6, <1>7, <1>9, Steps DEF Slot!Next

-----------------------------------------------------------------------------
(* The theorems                                                            *)

\* Who holds the mutex is alone in its critical section, and a server that
\* runs is in the slot or belongs to one operation (local_runtime.rs).
THEOREM SlotInvariant == LocalRuntimeSpec => []SlotInv
BY SlotInit, SlotNext, PTL DEF LocalRuntimeSpec

\* One server runs at a time, except for one that a shutdown is about to stop
\* (local_runtime.rs acquire, terminate, stop).
THEOREM NoOverlap == LocalRuntimeSpec => []OneServer
<1>1. SlotInv => OneServer
  BY RuntimeAssumption DEF SlotInv, SlotTypes, ServersOwned, OneServer
<1>. QED
  BY <1>1, SlotInvariant, PTL

\* The mutex, its queue, the slot, the leases, the processes and the operations
\* belong together: each lease is counted at its server, a server in use stays
\* in the slot until it crashes or a shutdown takes it, and no acquire waits
\* outside the queue (local_runtime.rs acquire, unload, stop, Lease).
THEOREM RuntimeInvariant == LocalRuntimeSpec => []RuntimeInv
BY RuntimeInit, RuntimeNext, PTL DEF LocalRuntimeSpec

\* The runtime keeps the promise of the abstract slot: one model at a time, and
\* nothing but a crash and a shutdown takes it from those who use it
\* (local_runtime.rs acquire, unload, stop, Lease).
THEOREM SlotKept == LocalRuntimeSpec => ImplementsModelSlot
<1>1. RuntimeInv /\ RuntimeInv' /\ [LocalRuntimeNext]_runtimeVars => [Slot!Next]_(Slot!vars)
  BY SlotKeptNext
<1>. QED
  BY <1>1, SlotKeptInit, RuntimeInvariant, PTL DEF LocalRuntimeSpec, ImplementsModelSlot, Slot!Spec
=============================================================================
