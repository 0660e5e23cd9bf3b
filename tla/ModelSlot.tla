------------------------------ MODULE ModelSlot ------------------------------
(***************************************************************************)
(* What the engine's single model slot promises its callers: one model at  *)
(* a time; who uses it keeps it until they give it back, unless the server *)
(* crashes or the engine shuts down.                                       *)
(***************************************************************************)
CONSTANTS Callers, Models, NoModel, Shutdown

VARIABLES
    loaded,   \* the model in the slot
    alive,    \* does its server run?
    users,    \* the callers that hold it
    stoppers  \* who asked for a shutdown and waits for the slot

vars == <<loaded, alive, users, stoppers>>

Init == loaded = NoModel /\ alive = FALSE /\ users = {} /\ stoppers = {}

\* A model is loaded for a caller into the empty slot; its server may have
\* crashed by then.
Load(c) ==
    /\ loaded = NoModel
    /\ loaded' \in Models
    /\ alive' \in BOOLEAN
    /\ users' = {c}
    /\ UNCHANGED stoppers

Share(c) ==
    /\ alive
    /\ users' = users \cup {c}
    /\ UNCHANGED <<loaded, alive, stoppers>>

Release(c) ==
    /\ c \in users
    /\ users' = users \ {c}
    /\ UNCHANGED <<loaded, alive, stoppers>>

Empty ==
    /\ loaded' = NoModel
    /\ alive' = FALSE
    /\ users' = {}

\* Only a model that nobody uses, or whose server crashed, leaves the slot.
Evict == (users = {} \/ ~alive) /\ Empty /\ UNCHANGED stoppers

Crash ==
    /\ alive
    /\ alive' = FALSE
    /\ UNCHANGED <<loaded, users, stoppers>>

AskStop(c) ==
    /\ Shutdown
    /\ stoppers' = stoppers \cup {c}
    /\ UNCHANGED <<loaded, alive, users>>

\* A shutdown empties the slot once, whoever uses it.
Stop(c) ==
    /\ c \in stoppers
    /\ stoppers' = stoppers \ {c}
    /\ Empty

Next ==
    \/ \E c \in Callers : Load(c) \/ Share(c) \/ Release(c) \/ AskStop(c) \/ Stop(c)
    \/ Evict \/ Crash

Spec == Init /\ [][Next]_vars
=============================================================================
