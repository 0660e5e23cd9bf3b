-------------------------- MODULE LocalRuntimeProps --------------------------
(* What the local model runtime promises. *)
EXTENDS LocalRuntime

\* Where an operation holds the mutex of the slot.
Holding == {"holding", "replacing", "launch", "loading", "ready", "abandoning", "unloading"}

-----------------------------------------------------------------------------
(* Safety                                                                  *)

\* A shutdown has taken the server out of the slot and not yet waited for it.
Stopping(c) == pc[c] \in {"clearing", "stopping"}

\* One server runs at a time: the next one starts only after the one before it
\* is gone, whatever crashes or is cancelled.  Only one that a shutdown is
\* about to stop may overlap with it (local_runtime.rs acquire, terminate,
\* stop).
OneServer ==
    \A s, t \in Servers :
        Running(s) /\ Running(t) =>
            s = t \/ \E c \in Callers : Stopping(c) /\ mine[c] \in {s, t}

\* "Only one GGUF is loaded at a time" (local_runtime.rs LocalRuntime).
OneAlways == \A s, t \in Servers : Running(s) /\ Running(t) => s = t

\* The one who holds the mutex is inside its critical section.
HolderInside ==
    \A c \in Callers : holder = c <=> pc[c] \in Holding

\* A server that runs is in the slot, which it leaves before it is stopped and
\* enters after it is ready.
ServersOwned ==
    /\ \A s \in Servers : Running(s) => s = slot \/ \E c \in Callers : mine[c] = s
    /\ \A c \in Callers : mine[c] # NoServer =>
                             mine[c] # slot /\ (Stopping(c) \/ (holder = c /\ slot = NoServer))
    /\ \A c, d \in Callers : mine[c] = mine[d] => mine[c] = NoServer \/ c = d
    /\ \A c \in Callers : pc[c] \in Holding \ {"holding"} => slot = NoServer
    /\ \A c \in Callers : pc[c] \in {"holding", "launch"} => mine[c] = NoServer
    /\ \A c \in Callers : pc[c] \in {"replacing", "loading", "ready", "abandoning", "unloading"} =>
                             mine[c] # NoServer

\* The types of what they speak of.
SlotTypes ==
    /\ holder \in Callers \cup {NoCaller}
    /\ slot \in Servers \cup {NoServer}
    /\ proc \in [Servers -> {"gone", "starting", "up"}]
    /\ pc \in [Callers -> {"idle", "checked", "using"} \cup Inside]
    /\ mine \in [Callers -> Servers \cup {NoServer}]

\* What TLAPS proves OneServer from.
SlotInv == SlotTypes /\ HolderInside /\ ServersOwned

\* A leased server is the loaded one, unless it crashed and was replaced or a
\* shutdown takes it.
LeasedIsLoaded ==
    \A c \in Callers :
        /\ lease[c] # NoServer <=> pc[c] = "using"
        /\ lease[c] # NoServer =>
              \/ lease[c] = slot
              \/ ~Running(lease[c])
              \/ \E d \in Callers : Stopping(d) /\ mine[d] = lease[c]

LeasesCounted ==
    \A s \in Servers : leases[s] = Cardinality({c \in Callers : lease[c] = s})

\* A server that is being started has no lease yet.
NewUnleased ==
    \A c \in Callers : pc[c] \in {"loading", "ready", "abandoning"} => leases[mine[c]] = 0

SlotHasModel == slot # NoServer => model[slot] \in Models

ModelsKnown ==
    \A c \in Callers :
        /\ op[c] = "acquire" => want[c] \in Models
        /\ pc[c] \in {"launch", "loading", "ready"} => op[c] = "acquire" /\ want[c] \in Models
        /\ pc[c] \in {"loading", "ready"} => model[mine[c]] = want[c]

\* The snapshot shows the loaded server, except that a shutdown can clear it
\* after the next one was loaded.
SnapshotShowsSlot == ~Shutdown => shown = slot

StopsOnShutdown == \A c \in Callers : op[c] = "stop" \/ Stopping(c) => Shutdown /\ op[c] = "stop"

\* Where an operation is tells what it is.
OpsAgree ==
    \A c \in Callers :
        /\ pc[c] \in {"idle", "using"} => op[c] = "none"
        /\ pc[c] = "checked" => op[c] \in {"unload", "stop"}
        /\ pc[c] \in {"replacing", "abandoning"} => op[c] = "acquire"
        /\ pc[c] = "unloading" => op[c] = "unload"

\* An acquire that comes to a launch has one left.
LaunchesLeft ==
    \A c \in Callers :
        op[c] = "acquire" /\ pc[c] \in {"asked", "queued", "holding", "replacing", "launch"}
            => tries[c] > 0

\* Who waits for the mutex is in its queue, once, and nobody else is.
QueueHoldsWaiters ==
    /\ \A c \in Callers : pc[c] = "queued" => \E i \in 1..Len(queue) : queue[i] = c
    /\ \A i \in 1..Len(queue) : pc[queue[i]] = "queued"
    /\ \A i, j \in 1..Len(queue) : queue[i] = queue[j] => i = j

\* The mutex, its queue, the slot, the leases and the processes belong
\* together, and so do the operations and what they work with
\* (local_runtime.rs acquire, unload, stop, Lease).
RuntimeInv ==
    /\ RuntimeTypes /\ HolderInside /\ ServersOwned /\ QueueHoldsWaiters
    /\ LeasedIsLoaded /\ LeasesCounted /\ NewUnleased
    /\ SlotHasModel /\ ModelsKnown /\ OpsAgree /\ LaunchesLeft
    /\ SnapshotShowsSlot /\ StopsOnShutdown

-----------------------------------------------------------------------------
(* The abstract slot                                                       *)

loaded == IF slot = NoServer THEN NoModel ELSE model[slot]
alive  == slot # NoServer /\ Running(slot)
users  == {c \in Callers : slot # NoServer /\ lease[c] = slot}
stoppers == {c \in Callers : op[c] = "stop" /\ ~Stopping(c)}

Slot == INSTANCE ModelSlot

\* The runtime implements the abstract slot: nothing but a crash and a
\* shutdown takes a model from those who use it (local_runtime.rs acquire,
\* unload).
ImplementsModelSlot == Slot!Spec

-----------------------------------------------------------------------------
(* Liveness                                                                *)

\* Every acquire, unload and stop returns, in the order of the mutex
\* (local_runtime.rs).
OperationsEnd == \A c \in Callers : (pc[c] \in Inside) ~> (pc[c] \notin Inside)
=============================================================================
