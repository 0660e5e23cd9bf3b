--------------------------- MODULE ApprovalsProps ---------------------------
(* What approvals promise. *)
EXTENDS Approvals

-----------------------------------------------------------------------------
(* Safety                                                                  *)

\* An action runs only if the user allowed it, or allowed its scope for the
\* rest of the same task (approvals.rs ask, answer; tools.rs execute_inner).
RunsWithConsent ==
    \A r \in ran : \E a \in answers :
        /\ a.task = r.task /\ a.allow
        /\ a.ask = r.ask \/ (a.forTask /\ a.scope = r.scope)

\* A prompt is answered once, also while ask is about to give up on it
\* (approvals.rs answer).
AnsweredOnce ==
    \A a, b \in answers : (a.task = b.task /\ a.ask = b.ask) => a = b

\* The task holds neither a prompt nor a grant.
HoldsNothing(t) == grants[t] = {} /\ \A p \in pending : p[1] # t

\* No prompt and no grant outlives a task that finish completed, although an
\* answer may come at any time (approvals.rs answer, deny_task; engine.rs
\* finish).
EndsWithTask == \A t \in Tasks : stage[t] = "finished" => HoldsNothing(t)

\* Every listed prompt has a tool call that waits for it, so none is left for
\* the user to answer in vain (approvals.rs Ticket).
PromptsAreHeard ==
    \A p \in pending : stage[p[1]] \in Open /\ p = Current(p[1])

\* The action of the task is allowed by an accepted answer.
Consented(t) ==
    \E a \in answers :
        /\ a.task = t /\ a.allow
        /\ a.ask = asks[t] \/ (a.forTask /\ a.scope = scope[t])

\* An accepted answer closes its prompt, and is for an action that was asked
\* for.
AnswersClose ==
    \A a \in answers : a.ask <= asks[a.task] /\ <<a.task, a.ask>> \notin pending

\* An answer to the current action came after its prompt was listed.
AnswersFollow ==
    \A a \in answers : a.ask = asks[a.task] =>
        /\ stage[a.task] \notin {"asking", "uncovered"}
        /\ a.scope = scope[a.task]

AsksCounted ==
    \A t \in Tasks :
        /\ asks[t] <= asked
        /\ stage[t] \in Open \cup {"asking", "uncovered", "answered", "allowed"} => asks[t] > 0

\* An answer in the channel, a decision to allow and a grant have an accepted
\* answer behind them.
ConsentBehind ==
    \A t \in Tasks :
        (answer[t] = "allow" \/ allow[t] \/ stage[t] = "allowed") => Consented(t)

GrantsGiven ==
    \A t \in Tasks : \A s \in grants[t] :
        \E a \in answers : a.task = t /\ a.allow /\ a.forTask /\ a.scope = s

\* What TLAPS proves RunsWithConsent, AnsweredOnce and PromptsAreHeard from.
ApprovalInv ==
    /\ ApprovalTypes
    /\ RunsWithConsent /\ AnsweredOnce /\ PromptsAreHeard
    /\ AnswersClose /\ AnswersFollow /\ AsksCounted
    /\ ConsentBehind /\ GrantsGiven

-----------------------------------------------------------------------------
(* Liveness                                                                *)

\* Every prompt is decided: the user, the token or the deadline ends the wait
\* (approvals.rs ask).
PromptsEnd == \A t \in Tasks : (stage[t] = "waiting") ~> (stage[t] # "waiting")
=============================================================================
