----------------------------- MODULE JobService -----------------------------
(***************************************************************************)
(* What the job scheduler promises its callers, without queues, workers,   *)
(* locks or a database: an accepted job ends exactly once, its body runs   *)
(* at most once, and a workspace is used by one job body or one manual     *)
(* change at a time.                                                       *)
(***************************************************************************)
CONSTANTS Jobs, Workspaces, Clients, Nobody

VARIABLES
    row,     \* "none", "open" (accepted), "spent" (its body has run or will
             \* never run), "ended"
    holder   \* who uses each workspace

vars == <<row, holder>>

TypeOK ==
    /\ row \in [Jobs -> {"none", "open", "spent", "ended"}]
    /\ holder \in [Workspaces -> Jobs \cup Clients \cup {Nobody}]

Init ==
    /\ row = [j \in Jobs |-> "none"]
    /\ holder = [w \in Workspaces |-> Nobody]

Accept(j) ==
    /\ row[j] = "none"
    /\ row' = [row EXCEPT ![j] = "open"]
    /\ UNCHANGED holder

Hold(w, c) ==
    /\ holder[w] = Nobody
    /\ holder' = [holder EXCEPT ![w] = c]
    /\ UNCHANGED row

StartBody(w, j) ==
    /\ row[j] = "open"
    /\ holder[w] = Nobody
    /\ row' = [row EXCEPT ![j] = "spent"]
    /\ holder' = [holder EXCEPT ![w] = j]

\* A body ends or a manual change is over.
Free(w) ==
    /\ holder' = [holder EXCEPT ![w] = Nobody]
    /\ UNCHANGED row

\* The job will not run.
Withdraw(j) ==
    /\ row[j] = "open"
    /\ row' = [row EXCEPT ![j] = "spent"]
    /\ UNCHANGED holder

End(j) ==
    /\ row[j] \in {"open", "spent"}
    /\ \A w \in Workspaces : holder[w] # j
    /\ row' = [row EXCEPT ![j] = "ended"]
    /\ UNCHANGED holder

\* The process restarts: nothing is held, and what was accepted has ended.
Recover ==
    /\ row' = [j \in Jobs |-> IF row[j] = "none" THEN "none" ELSE "ended"]
    /\ holder' = [w \in Workspaces |-> Nobody]

Next ==
    \/ \E j \in Jobs : Accept(j) \/ Withdraw(j) \/ End(j)
    \/ \E w \in Workspaces :
          \/ \E c \in Clients : Hold(w, c)
          \/ \E j \in Jobs : StartBody(w, j)
          \/ Free(w)
    \/ Recover

Spec == Init /\ [][Next]_vars
=============================================================================
