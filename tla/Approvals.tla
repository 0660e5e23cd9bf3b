------------------------------ MODULE Approvals ------------------------------
(***************************************************************************)
(* Approval prompts and the grants a user gives for the rest of a task:    *)
(* approvals.rs, its callers in tools.rs and cli_agent/runner.rs, and the  *)
(* places of engine.rs that cancel and finish a task.                      *)
(*                                                                         *)
(* A task asks for one action after another.  The prompts and the grants   *)
(* have a lock each; an answer holds the first around the second, and      *)
(* deny_task takes one after the other.  A step is one critical section.   *)
(***************************************************************************)
EXTENDS Naturals

CONSTANTS
    Tasks,
    Vendors,      \* the tasks a vendor's command line tool runs
    Scopes,       \* what a grant can cover: a kind of tool, a command prefix
    NoScope,      \* the action can only be allowed once
    MaxAsks,      \* bound: actions the tasks ask for
    StoreFaults   \* may a database access fail?

ASSUME ApprovalAssumption ==
    /\ Vendors \subseteq Tasks
    /\ NoScope \notin Scopes
    /\ MaxAsks \in Nat
    /\ StoreFaults \in BOOLEAN

VARIABLES
    \* ApprovalHub
    pending,    \* the open prompts, <<task, ask>>
    grants,     \* per task the scopes it holds
    \* per task
    taskCancelled,
    denying,    \* is a deny_task of a cancel between its two locks?
    stage,
    asks,       \* the number of its action, as the prompt's id
    scope,      \* what a grant for the action would cover
    answer,     \* the oneshot channel of the prompt
    expired,    \* is the prompt's deadline over?
    unrecorded, \* did storing the prompt fail?
    allow,      \* what ask returns
    \* what happened
    asked,      \* how many actions were asked for
    answers,    \* the answers the hub accepted
    ran         \* the actions that ran

hubVars  == <<pending, grants>>
callVars == <<asks, scope, answer, expired, unrecorded, allow>>
approvalVars == <<hubVars, taskCancelled, denying, stage, callVars, asked, answers, ran>>

Prompts == Tasks \X (1..MaxAsks)
Answers == [task : Tasks, ask : 1..MaxAsks, scope : Scopes \cup {NoScope},
            allow : BOOLEAN, forTask : BOOLEAN]

\* The task is finished, by finish or, when that failed, by its worker alone.
Ended == {"finished", "failed"}

\* Where ask has a prompt listed.
Open == {"prompted", "waiting", "decided"}

ApprovalTypes ==
    /\ pending \subseteq Prompts
    /\ grants \in [Tasks -> SUBSET Scopes]
    /\ taskCancelled \in [Tasks -> BOOLEAN]
    /\ denying \in [Tasks -> BOOLEAN]
    /\ stage \in [Tasks -> {"work", "asking", "uncovered", "answered", "allowed", "over",
                         "finishing", "finished", "failed"} \cup Open]
    /\ asks \in [Tasks -> 0..MaxAsks]
    /\ scope \in [Tasks -> Scopes \cup {NoScope}]
    /\ answer \in [Tasks -> {"none", "allow", "deny", "closed"}]
    /\ expired \in [Tasks -> BOOLEAN]
    /\ unrecorded \in [Tasks -> BOOLEAN]
    /\ allow \in [Tasks -> BOOLEAN]
    /\ asked \in 0..MaxAsks
    /\ answers \subseteq Answers
    /\ ran \subseteq [task : Tasks, ask : 1..MaxAsks, scope : Scopes \cup {NoScope}]

ApprovalsInit ==
    /\ pending = {} /\ grants = [t \in Tasks |-> {}]
    /\ taskCancelled = [t \in Tasks |-> FALSE] /\ denying = [t \in Tasks |-> FALSE]
    /\ stage = [t \in Tasks |-> "work"] /\ asks = [t \in Tasks |-> 0]
    /\ scope = [t \in Tasks |-> NoScope] /\ answer = [t \in Tasks |-> "none"]
    /\ expired = [t \in Tasks |-> FALSE] /\ unrecorded = [t \in Tasks |-> FALSE]
    /\ allow = [t \in Tasks |-> FALSE]
    /\ asked = 0 /\ answers = {} /\ ran = {}

Current(t) == <<t, asks[t]>>

\* The prompts of the task leave the hub; their senders are dropped, which
\* closes the channel unless it holds an answer.
DropPrompts(t) ==
    /\ pending' = {p \in pending : p[1] # t}
    /\ answer' = [answer EXCEPT ![t] =
                     IF Current(t) \in pending THEN "closed" ELSE answer[t]]

-----------------------------------------------------------------------------
(* The tool asks                                                           *)

\* ApprovalHub::ask is refused for a cancelled task.
Ask(t, s) ==
    /\ stage[t] = "work"
    /\ ~taskCancelled[t]
    /\ asked < MaxAsks
    /\ asked' = asked + 1
    /\ asks' = [asks EXCEPT ![t] = asked + 1]
    /\ scope' = [scope EXCEPT ![t] = s]
    /\ answer' = [answer EXCEPT ![t] = "none"]
    /\ expired' = [expired EXCEPT ![t] = FALSE]
    /\ unrecorded' = [unrecorded EXCEPT ![t] = FALSE]
    /\ allow' = [allow EXCEPT ![t] = FALSE]
    /\ stage' = [stage EXCEPT ![t] = "asking"]
    /\ UNCHANGED <<hubVars, taskCancelled, denying, answers, ran>>

\* Mutant: the grants of every task count.
CoveredAnywhere(t) == \E u \in Tasks : scope[t] \in grants[u]

\* Mutant: a grant of another scope counts.
CoveredByAny(t) == grants[t] # {}

\* ApprovalHub::granted: an earlier "Allow for this task" covers the action.
Covered(t) == scope[t] \in grants[t]

AskGranted(t) ==
    /\ stage[t] = "asking"
    /\ Covered(t)
    /\ stage' = [stage EXCEPT ![t] = "answered"]
    /\ allow' = [allow EXCEPT ![t] = TRUE]
    /\ UNCHANGED <<hubVars, taskCancelled, denying, asks, scope, answer, expired, unrecorded,
                   asked, answers, ran>>

AskUncovered(t) ==
    /\ stage[t] = "asking"
    /\ ~Covered(t)
    /\ stage' = [stage EXCEPT ![t] = "uncovered"]
    /\ UNCHANGED <<hubVars, taskCancelled, denying, callVars, asked, answers, ran>>

\* The prompt is listed; its deadline runs from here.
AskPrompts(t) ==
    /\ stage[t] = "uncovered"
    /\ pending' = pending \cup {Current(t)}
    /\ stage' = [stage EXCEPT ![t] = "prompted"]
    /\ UNCHANGED <<grants, taskCancelled, denying, callVars, asked, answers, ran>>

\* on_pending stores the approval.requested event; when that fails it cancels
\* the task.
AskAnnounced(t, ok) ==
    /\ stage[t] = "prompted"
    /\ ok \/ StoreFaults
    /\ stage' = [stage EXCEPT ![t] = "waiting"]
    /\ unrecorded' = [unrecorded EXCEPT ![t] = ~ok]
    /\ taskCancelled' = [taskCancelled EXCEPT ![t] = taskCancelled[t] \/ ~ok]
    /\ UNCHANGED <<hubVars, denying, asks, scope, answer, expired, allow, asked, answers, ran>>

\* The select! of ask takes any branch that is ready: the channel, ...
AskAnswered(t) ==
    /\ stage[t] = "waiting"
    /\ answer[t] # "none"
    /\ stage' = [stage EXCEPT ![t] = "decided"]
    /\ allow' = [allow EXCEPT ![t] = answer[t] = "allow"]
    /\ UNCHANGED <<hubVars, taskCancelled, denying, asks, scope, answer, expired, unrecorded,
                   asked, answers, ran>>

\* Mutant: the ask of a task that was not cancelled waits without a deadline.
GivesUpCancelled(t) ==
    /\ stage[t] = "waiting"
    /\ taskCancelled[t]
    /\ stage' = [stage EXCEPT ![t] = "decided"]
    /\ UNCHANGED <<hubVars, taskCancelled, denying, callVars, asked, answers, ran>>

\* ... the token or the deadline, which deny.
AskGivesUp(t) ==
    /\ stage[t] = "waiting"
    /\ taskCancelled[t] \/ expired[t]
    /\ stage' = [stage EXCEPT ![t] = "decided"]
    /\ UNCHANGED <<hubVars, taskCancelled, denying, callVars, asked, answers, ran>>

\* Mutant: ask leaves its prompt in the list.
ReturnsListed(t) ==
    /\ stage[t] = "decided"
    /\ stage' = [stage EXCEPT ![t] = "answered"]
    /\ UNCHANGED <<hubVars, taskCancelled, denying, callVars, asked, answers, ran>>

\* The Ticket is dropped, then the receiver.
AskReturns(t) ==
    /\ stage[t] = "decided"
    /\ pending' = pending \ {Current(t)}
    /\ stage' = [stage EXCEPT ![t] = "answered"]
    /\ UNCHANGED <<grants, taskCancelled, denying, callVars, asked, answers, ran>>

\* The caller stores what was decided (approval.granted, approval.resolved)
\* and fails the tool call if a store failed.
AskRecorded(t, ok) ==
    /\ stage[t] = "answered"
    /\ ok \/ StoreFaults
    /\ stage' = [stage EXCEPT ![t] = IF ok /\ ~unrecorded[t] /\ allow[t] THEN "allowed" ELSE "work"]
    /\ UNCHANGED <<hubVars, taskCancelled, denying, callVars, asked, answers, ran>>

\* The action runs.  A native tool looks at the token once more; a vendor is
\* sent the answer as it is.
Run(t) ==
    /\ stage[t] = "allowed"
    /\ stage' = [stage EXCEPT ![t] = "work"]
    /\ ran' = IF taskCancelled[t] /\ t \notin Vendors THEN ran
              ELSE ran \cup {[task |-> t, ask |-> asks[t], scope |-> scope[t]]}
    /\ UNCHANGED <<hubVars, taskCancelled, denying, callVars, asked, answers>>

-----------------------------------------------------------------------------
(* The user answers                                                        *)

\* The wall clock passes expires_at; the timer fires after it.
Deadline(t) ==
    /\ stage[t] \in {"prompted", "waiting"}
    /\ ~expired[t]
    /\ expired' = [expired EXCEPT ![t] = TRUE]
    /\ UNCHANGED <<hubVars, taskCancelled, denying, stage, asks, scope, answer, unrecorded, allow,
                   asked, answers, ran>>

\* What an accepted answer does: the channel holds it, and a grant covers the
\* rest of the task.
Accept(t, yes, forTask) ==
    /\ answer' = [answer EXCEPT ![t] = IF yes THEN "allow" ELSE "deny"]
    /\ grants' = [grants EXCEPT ![t] = IF forTask THEN @ \cup {scope[t]} ELSE @]
    /\ answers' = answers \cup {[task |-> t, ask |-> asks[t], scope |-> scope[t],
                                 allow |-> yes, forTask |-> forTask]}
    /\ UNCHANGED <<taskCancelled, denying, stage, asks, scope, expired, unrecorded, allow,
                   asked, ran>>

\* Mutant: the prompt stays until ask returns.
AnswerKeepsPrompt(t, yes, forTask) ==
    /\ Current(t) \in pending
    /\ ~expired[t]
    /\ forTask => yes /\ scope[t] # NoScope
    /\ Accept(t, yes, forTask)
    /\ UNCHANGED pending

\* Mutant: the prompt is read under one lock and removed under another.
AnswerStale(t, yes, forTask) ==
    /\ asks[t] > 0 /\ stage[t] \notin {"asking", "uncovered"}
    /\ ~expired[t]
    /\ forTask => yes /\ scope[t] # NoScope
    /\ Accept(t, yes, forTask)
    /\ pending' = pending \ {Current(t)}

\* ApprovalHub::answer, under the lock of the prompts: allow once, allow for
\* this task or deny.  Any other answer is refused and changes nothing.
Answer(t, yes, forTask) ==
    /\ Current(t) \in pending
    /\ ~expired[t]
    /\ forTask => yes /\ scope[t] # NoScope
    /\ Accept(t, yes, forTask)
    /\ pending' = pending \ {Current(t)}

-----------------------------------------------------------------------------
(* The task is cancelled or ends                                           *)

\* Engine::request_cancel_if and shutdown: the token, ...
CancelsTask(t) ==
    /\ stage[t] \notin Ended
    /\ ~taskCancelled[t]
    /\ taskCancelled' = [taskCancelled EXCEPT ![t] = TRUE]
    /\ UNCHANGED <<hubVars, denying, stage, callVars, asked, answers, ran>>

\* ... then ApprovalHub::deny_task, first the prompts, then the grants.  A
\* task can be cancelled again.
CancelDenies(t) ==
    /\ taskCancelled[t] /\ ~denying[t]
    /\ stage[t] \notin Ended
    /\ DropPrompts(t)
    /\ denying' = [denying EXCEPT ![t] = TRUE]
    /\ UNCHANGED <<grants, taskCancelled, stage, asks, scope, expired, unrecorded, allow,
                   asked, answers, ran>>

CancelRevokes(t) ==
    /\ denying[t]
    /\ denying' = [denying EXCEPT ![t] = FALSE]
    /\ grants' = [grants EXCEPT ![t] = {}]
    /\ UNCHANGED <<pending, taskCancelled, stage, callVars, asked, answers, ran>>

\* The task's future returns: no tool is running any more.
TaskIsOver(t) ==
    /\ stage[t] = "work"
    /\ stage' = [stage EXCEPT ![t] = "over"]
    /\ UNCHANGED <<hubVars, taskCancelled, denying, callVars, asked, answers, ran>>

\* Engine::finish calls deny_task before it stores the final row.
FinishDenies(t) ==
    /\ stage[t] = "over"
    /\ DropPrompts(t)
    /\ stage' = [stage EXCEPT ![t] = "finishing"]
    /\ UNCHANGED <<grants, taskCancelled, denying, asks, scope, expired, unrecorded, allow,
                   asked, answers, ran>>

FinishRevokes(t) ==
    /\ stage[t] = "finishing"
    /\ grants' = [grants EXCEPT ![t] = {}]
    /\ stage' = [stage EXCEPT ![t] = "finished"]
    /\ UNCHANGED <<pending, taskCancelled, denying, callVars, asked, answers, ran>>

\* finish reads events of the task before that; when a read fails the worker
\* marks the job as finished itself (Engine::drain).
FinishFails(t) ==
    /\ StoreFaults
    /\ stage[t] = "over"
    /\ stage' = [stage EXCEPT ![t] = "failed"]
    /\ UNCHANGED <<hubVars, taskCancelled, denying, callVars, asked, answers, ran>>

-----------------------------------------------------------------------------
\* What a task does by itself once it has asked.
AskerStep(t) ==
    \/ AskGranted(t) \/ AskUncovered(t) \/ AskPrompts(t)
    \/ \E ok \in BOOLEAN : AskAnnounced(t, ok) \/ AskRecorded(t, ok)
    \/ AskAnswered(t) \/ AskGivesUp(t) \/ AskReturns(t) \/ Run(t)

ApprovalsNext ==
    \E t \in Tasks :
        \/ AskerStep(t) \/ Deadline(t)
        \/ \E s \in Scopes \cup {NoScope} : Ask(t, s)
        \/ \E yes, forTask \in BOOLEAN : Answer(t, yes, forTask)
        \/ CancelsTask(t) \/ CancelDenies(t) \/ CancelRevokes(t)
        \/ TaskIsOver(t) \/ FinishDenies(t) \/ FinishRevokes(t) \/ FinishFails(t)

ApprovalsSpec == ApprovalsInit /\ [][ApprovalsNext]_approvalVars
=============================================================================
