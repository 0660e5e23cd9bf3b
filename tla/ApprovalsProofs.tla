--------------------------- MODULE ApprovalsProofs ---------------------------
(***************************************************************************)
(* Approvals keep their promises for any number of tasks, scopes and       *)
(* actions, also when database accesses fail.  The properties follow from  *)
(* the inductive invariant ApprovalInv of ApprovalsProps.                  *)
(***************************************************************************)
EXTENDS ApprovalsProps, TLAPS

-----------------------------------------------------------------------------
(* Types                                                                   *)

\* The prompt of an action that was asked for is a prompt.
LEMMA CurrentIsPrompt ==
  ASSUME ApprovalTypes, NEW t \in Tasks, asks[t] > 0
  PROVE  Current(t) \in Prompts
BY ApprovalAssumption DEF ApprovalTypes, Current, Prompts

\* The steps of an asking task keep the types.
LEMMA AskTypes ==
  ASSUME ApprovalTypes, AsksCounted, NEW t \in Tasks,
         AskerStep(t) \/ Deadline(t) \/ \E s \in Scopes \cup {NoScope} : Ask(t, s)
  PROVE  ApprovalTypes'
<1>. USE DEF ApprovalTypes, hubVars, callVars, Open
<1>1. ASSUME NEW s \in Scopes \cup {NoScope}, Ask(t, s) PROVE ApprovalTypes'
  <2>1. asked + 1 \in 0..MaxAsks
    BY <1>1, ApprovalAssumption DEF Ask
  <2>. QED
    BY <1>1, <2>1 DEF Ask, Prompts
<1>2. CASE AskGranted(t) \/ AskUncovered(t)
  BY <1>2 DEF AskGranted, AskUncovered
<1>3. CASE AskPrompts(t)
  <2>1. Current(t) \in Prompts
    BY <1>3, CurrentIsPrompt DEF AskPrompts, AsksCounted
  <2>. QED
    BY <1>3, <2>1 DEF AskPrompts
<1>4. ASSUME NEW ok \in BOOLEAN, AskAnnounced(t, ok) \/ AskRecorded(t, ok) PROVE ApprovalTypes'
  BY <1>4 DEF AskAnnounced, AskRecorded
<1>5. CASE AskAnswered(t) \/ AskGivesUp(t) \/ AskReturns(t) \/ Deadline(t)
  BY <1>5 DEF AskAnswered, AskGivesUp, AskReturns, Deadline
<1>6. CASE Run(t)
  <2>1. asks[t] \in 1..MaxAsks
    BY <1>6, ApprovalAssumption DEF Run, AsksCounted
  <2>. QED
    BY <1>6, <2>1 DEF Run
<1>. QED
  BY <1>1, <1>2, <1>3, <1>4, <1>5, <1>6 DEF AskerStep

\* So do an answer and the end of a task.
LEMMA EndTypes ==
  ASSUME ApprovalTypes, AsksCounted, PromptsAreHeard, NEW t \in Tasks,
         \/ \E yes, forTask \in BOOLEAN : Answer(t, yes, forTask)
         \/ CancelsTask(t) \/ CancelDenies(t) \/ CancelRevokes(t)
         \/ TaskIsOver(t) \/ FinishDenies(t) \/ FinishRevokes(t) \/ FinishFails(t)
  PROVE  ApprovalTypes'
<1>. USE DEF ApprovalTypes, hubVars, callVars, Open
<1>1. ASSUME NEW yes \in BOOLEAN, NEW forTask \in BOOLEAN, Answer(t, yes, forTask) PROVE ApprovalTypes'
  <2>1. asks[t] \in 1..MaxAsks
    BY <1>1 DEF Answer, Current, Prompts
  <2>2. [task |-> t, ask |-> asks[t], scope |-> scope[t], allow |-> yes, forTask |-> forTask]
           \in Answers
    BY <2>1 DEF Answers
  <2>3. forTask => scope[t] \in Scopes
    BY <1>1 DEF Answer
  <2>. QED
    BY <1>1, <2>2, <2>3 DEF Answer, Accept
<1>2. CASE CancelsTask(t) \/ CancelRevokes(t) \/ TaskIsOver(t) \/ FinishRevokes(t) \/ FinishFails(t)
  BY <1>2 DEF CancelsTask, CancelRevokes, TaskIsOver, FinishRevokes, FinishFails
<1>3. CASE CancelDenies(t) \/ FinishDenies(t)
  BY <1>3 DEF CancelDenies, FinishDenies, DropPrompts
<1>. QED
  BY <1>1, <1>2, <1>3

-----------------------------------------------------------------------------
(* The inductive invariant                                                 *)

\* No task has asked for anything yet.
LEMMA InvInit == ApprovalsInit => ApprovalInv
BY ApprovalAssumption
   DEF ApprovalsInit, ApprovalInv, ApprovalTypes, RunsWithConsent, AnsweredOnce, PromptsAreHeard, AnswersClose,
       AnswersFollow, AsksCounted, ConsentBehind, GrantsGiven, Open, Prompts

\* A new action has no answer yet: its number is new.
LEMMA AskInv ==
  ASSUME ApprovalInv, NEW t \in Tasks, NEW s \in Scopes \cup {NoScope}, Ask(t, s)
  PROVE  ApprovalInv'
<1>1. ApprovalTypes /\ ApprovalTypes'
  BY AskTypes DEF ApprovalInv
<1>2. UNCHANGED <<pending, grants, answers, ran>>
  BY DEF Ask, hubVars
<1>3. /\ asked' = asked + 1
      /\ asks' = [asks EXCEPT ![t] = asked + 1]
      /\ \A u \in Tasks : asks[u] <= asked
      /\ \A u \in Tasks \ {t} : /\ asks'[u] = asks[u] /\ scope'[u] = scope[u] /\ stage'[u] = stage[u]
                               /\ answer'[u] = answer[u] /\ allow'[u] = allow[u]
      /\ stage[t] = "work" /\ stage'[t] = "asking" /\ answer'[t] = "none" /\ ~allow'[t]
  BY <1>1 DEF Ask, ApprovalTypes, ApprovalInv, AsksCounted
<1>4. \A a \in answers : a.task \in Tasks /\ a.ask \in Nat
  BY <1>1 DEF ApprovalTypes, Answers
<1>5. (RunsWithConsent /\ AnsweredOnce /\ GrantsGiven)'
  BY <1>2 DEF ApprovalInv, RunsWithConsent, AnsweredOnce, GrantsGiven
<1>6. PromptsAreHeard'
  <2>. SUFFICES ASSUME NEW p \in pending PROVE (stage[p[1]] \in Open /\ p = Current(p[1]))'
    BY <1>2 DEF PromptsAreHeard
  <2>1. p[1] \in Tasks /\ stage[p[1]] \in Open /\ p = Current(p[1])
    BY <1>1 DEF ApprovalInv, PromptsAreHeard, ApprovalTypes, Prompts
  <2>2. p[1] # t
    BY <2>1, <1>3 DEF Open
  <2>. QED
    BY <2>1, <2>2, <1>3 DEF Current, Open
<1>7. AnswersClose' /\ AnswersFollow'
  <2>. SUFFICES ASSUME NEW a \in answers
                PROVE  /\ a.ask <= asks'[a.task] /\ <<a.task, a.ask>> \notin pending
                       /\ a.ask = asks'[a.task] =>
                            stage'[a.task] \notin {"asking", "uncovered"} /\ a.scope = scope'[a.task]
    BY <1>2 DEF AnswersClose, AnswersFollow
  <2>1. /\ a.task \in Tasks /\ a.ask \in Nat /\ asks[a.task] \in Nat
        /\ a.ask <= asks[a.task] /\ <<a.task, a.ask>> \notin pending
    BY <1>1, <1>4, ApprovalAssumption DEF ApprovalInv, AnswersClose, ApprovalTypes
  <2>2. CASE a.task = t
    BY <2>1, <2>2, <1>1, <1>3 DEF ApprovalTypes
  <2>3. CASE a.task # t
    BY <2>1, <2>3, <1>3 DEF ApprovalInv, AnswersFollow
  <2>. QED
    BY <2>2, <2>3
<1>8. AsksCounted'
  BY <1>1, <1>3, ApprovalAssumption DEF ApprovalInv, AsksCounted, ApprovalTypes, Open
<1>9. ConsentBehind'
  BY <1>2, <1>3 DEF ApprovalInv, ConsentBehind, Consented
<1>. QED
  BY <1>1, <1>5, <1>6, <1>7, <1>8, <1>9 DEF ApprovalInv

\* Steps that change neither the actions asked for nor the answers keep what
\* depends on them.
LEMMA CallInv ==
  ASSUME ApprovalInv, ApprovalTypes', UNCHANGED <<asks, asked, scope, answers>>,
         RunsWithConsent', PromptsAreHeard',
         NEW t \in Tasks, \A u \in Tasks \ {t} : stage'[u] = stage[u] /\ allow'[u] = allow[u],
         \A p \in pending' \ pending : p = Current(t) /\ stage[t] = "uncovered",
         stage'[t] = "uncovered" => stage[t] \in {"asking", "uncovered"},
         stage'[t] = "asking" => stage[t] = "asking",
         asks[t] > 0 \/ stage'[t] \in {"work", "over", "finishing"} \cup Ended,
         \A u \in Tasks : answer'[u] = "allow" => answer[u] = "allow",
         allow'[t] => allow[t] \/ Consented(t),
         stage'[t] = "allowed" => allow[t] \/ stage[t] = "allowed",
         \A u \in Tasks : grants'[u] \subseteq grants[u]
  PROVE  ApprovalInv'
<1>1. ApprovalTypes
  BY DEF ApprovalInv
<1>2. AnsweredOnce' /\ GrantsGiven'
  BY DEF ApprovalInv, AnsweredOnce, GrantsGiven
<1>3. AnswersClose'
  <2>. SUFFICES ASSUME NEW a \in answers, <<a.task, a.ask>> \in pending' PROVE FALSE
    BY DEF ApprovalInv, AnswersClose
  <2>1. <<a.task, a.ask>> = Current(t) /\ stage[t] = "uncovered"
    BY DEF ApprovalInv, AnswersClose
  <2>. QED
    BY <2>1 DEF Current, ApprovalInv, AnswersFollow
<1>4. AnswersFollow'
  <2>1. \A a \in answers : a.task \in Tasks
    BY <1>1 DEF ApprovalTypes, Answers
  <2>. QED
    BY <2>1 DEF ApprovalInv, AnswersFollow
<1>5. AsksCounted'
  BY DEF ApprovalInv, AsksCounted, Open, Ended
<1>6. ConsentBehind'
  <2>. SUFFICES ASSUME NEW u \in Tasks, answer'[u] = "allow" \/ allow'[u] \/ stage'[u] = "allowed"
                PROVE  Consented(u)'
    BY DEF ConsentBehind
  <2>1. Consented(u)
    BY DEF ApprovalInv, ConsentBehind
  <2>. QED
    BY <2>1 DEF Consented
<1>. QED
  BY <1>2, <1>3, <1>4, <1>5, <1>6 DEF ApprovalInv

\* A step of an asking task keeps the invariant.  A decision to allow has the
\* answer in the channel or a grant behind it.
LEMMA TaskInv ==
  ASSUME ApprovalInv, NEW t \in Tasks, AskerStep(t) \/ Deadline(t)
  PROVE  ApprovalInv'
<1>1. ApprovalTypes /\ ApprovalTypes'
  BY AskTypes DEF ApprovalInv
<1>2. asks[t] > 0 /\ \A p \in pending : p[1] \in Tasks
  BY <1>1 DEF AskerStep, Deadline, AskGranted, AskUncovered, AskPrompts, AskAnnounced, AskRecorded,
      AskAnswered, AskGivesUp, AskReturns, Run, ApprovalInv, AsksCounted, Open, ApprovalTypes, Prompts
<1>. USE <1>1, <1>2 DEF hubVars, callVars
<1>3. CASE AskGranted(t)
  <2>1. Consented(t)
    BY <1>3 DEF AskGranted, Covered, ApprovalInv, GrantsGiven, Consented
  <2>2. RunsWithConsent' /\ PromptsAreHeard'
    BY <1>3 DEF AskGranted, ApprovalInv, RunsWithConsent, PromptsAreHeard, Current, ApprovalTypes, Open
  <2>. QED
    BY <1>3, <2>1, <2>2, CallInv DEF AskGranted, ApprovalTypes
<1>4. CASE AskUncovered(t)
  <2>1. RunsWithConsent' /\ PromptsAreHeard'
    BY <1>4 DEF AskUncovered, ApprovalInv, RunsWithConsent, PromptsAreHeard, Current, ApprovalTypes, Open
  <2>. QED
    BY <1>4, <2>1, CallInv DEF AskUncovered, ApprovalTypes
<1>5. CASE AskPrompts(t)
  <2>1. PromptsAreHeard'
    BY <1>5 DEF AskPrompts, ApprovalInv, PromptsAreHeard, Current, ApprovalTypes, Open
  <2>2. RunsWithConsent'
    BY <1>5 DEF AskPrompts, ApprovalInv, RunsWithConsent
  <2>. QED
    BY <1>5, <2>1, <2>2, CallInv DEF AskPrompts, ApprovalTypes
<1>6. ASSUME NEW ok \in BOOLEAN, AskAnnounced(t, ok) PROVE ApprovalInv'
  <2>1. RunsWithConsent' /\ PromptsAreHeard'
    BY <1>6 DEF AskAnnounced, ApprovalInv, RunsWithConsent, PromptsAreHeard, Current, ApprovalTypes, Open
  <2>. QED
    BY <1>6, <2>1, CallInv DEF AskAnnounced, ApprovalTypes
<1>7. ASSUME NEW ok \in BOOLEAN, AskRecorded(t, ok) PROVE ApprovalInv'
  <2>1. RunsWithConsent' /\ PromptsAreHeard'
    BY <1>7 DEF AskRecorded, ApprovalInv, RunsWithConsent, PromptsAreHeard, Current, ApprovalTypes, Open
  <2>. QED
    BY <1>7, <2>1, CallInv DEF AskRecorded, ApprovalTypes
<1>8. CASE AskAnswered(t) \/ AskGivesUp(t)
  <2>1. RunsWithConsent' /\ PromptsAreHeard'
    BY <1>8 DEF AskAnswered, AskGivesUp, ApprovalInv, RunsWithConsent, PromptsAreHeard, Current,
        ApprovalTypes, Open
  <2>2. allow'[t] => allow[t] \/ Consented(t)
    BY <1>8 DEF AskAnswered, AskGivesUp, ApprovalInv, ConsentBehind, ApprovalTypes
  <2>. QED
    BY <1>8, <2>1, <2>2, CallInv DEF AskAnswered, AskGivesUp, ApprovalTypes
<1>9. CASE AskReturns(t)
  <2>1. RunsWithConsent'
    BY <1>9 DEF AskReturns, ApprovalInv, RunsWithConsent
  <2>2. PromptsAreHeard'
    BY <1>9 DEF AskReturns, ApprovalInv, PromptsAreHeard, Current, ApprovalTypes, Open
  <2>. QED
    BY <1>9, <2>1, <2>2, CallInv DEF AskReturns, ApprovalTypes
<1>10. CASE Run(t)
  <2>1. Consented(t)
    BY <1>10 DEF Run, ApprovalInv, ConsentBehind
  <2>2. RunsWithConsent'
    BY <1>10, <2>1 DEF Run, ApprovalInv, RunsWithConsent, Consented
  <2>3. PromptsAreHeard'
    BY <1>10 DEF Run, ApprovalInv, PromptsAreHeard, Current, ApprovalTypes, Open
  <2>. QED
    BY <1>10, <2>2, <2>3, CallInv DEF Run, ApprovalTypes
<1>11. CASE Deadline(t)
  <2>1. RunsWithConsent' /\ PromptsAreHeard'
    BY <1>11 DEF Deadline, ApprovalInv, RunsWithConsent, PromptsAreHeard, Current, Open
  <2>. QED
    BY <1>11, <2>1, CallInv DEF Deadline, ApprovalTypes
<1>. QED
  BY <1>3, <1>4, <1>5, <1>6, <1>7, <1>8, <1>9, <1>10, <1>11 DEF AskerStep

\* So does the end of a task: what it drops only removes prompts and grants.
LEMMA EndInv ==
  ASSUME ApprovalInv, NEW t \in Tasks,
         \/ CancelsTask(t) \/ CancelDenies(t) \/ CancelRevokes(t)
         \/ TaskIsOver(t) \/ FinishDenies(t) \/ FinishRevokes(t) \/ FinishFails(t)
  PROVE  ApprovalInv'
<1>1. ApprovalTypes /\ ApprovalTypes'
  BY EndTypes DEF ApprovalInv
<1>. USE <1>1 DEF hubVars, callVars
<1>2. \A p \in pending : p[1] \in Tasks /\ stage[p[1]] \in Open /\ p = Current(p[1])
  BY DEF ApprovalInv, PromptsAreHeard, ApprovalTypes, Prompts
<1>3. RunsWithConsent'
  BY DEF CancelsTask, CancelDenies, CancelRevokes, TaskIsOver, FinishDenies, FinishRevokes, FinishFails,
      ApprovalInv, RunsWithConsent
<1>4. CASE CancelsTask(t) \/ CancelRevokes(t) \/ CancelDenies(t)
  <2>1. /\ UNCHANGED <<stage, asks, asked, scope, answers, allow>> /\ pending' \subseteq pending
        /\ \A u \in Tasks : answer'[u] = "allow" => answer[u] = "allow"
        /\ \A u \in Tasks : grants'[u] \subseteq grants[u]
    BY <1>4 DEF CancelsTask, CancelRevokes, CancelDenies, DropPrompts, ApprovalTypes
  <2>2. PromptsAreHeard'
    BY <2>1, <1>2 DEF PromptsAreHeard, Current
  <2>3. AnswersClose' /\ AnswersFollow' /\ AsksCounted' /\ AnsweredOnce' /\ GrantsGiven'
    BY <2>1 DEF ApprovalInv, AnswersClose, AnswersFollow, AsksCounted, AnsweredOnce, GrantsGiven
  <2>4. ConsentBehind'
    BY <2>1 DEF ApprovalInv, ConsentBehind, Consented
  <2>. QED
    BY <1>3, <2>2, <2>3, <2>4 DEF ApprovalInv
<1>5. CASE TaskIsOver(t) \/ FinishDenies(t) \/ FinishRevokes(t) \/ FinishFails(t)
  <2>1. /\ UNCHANGED <<asks, asked, scope, answers, allow>> /\ pending' \subseteq pending
        /\ \A u \in Tasks \ {t} : stage'[u] = stage[u]
        /\ stage[t] \notin Open /\ stage'[t] \in {"over", "finishing"} \cup Ended
        /\ \A u \in Tasks : answer'[u] = "allow" => answer[u] = "allow"
        /\ \A u \in Tasks : grants'[u] \subseteq grants[u]
    BY <1>5 DEF TaskIsOver, FinishDenies, FinishRevokes, FinishFails, DropPrompts, ApprovalTypes, Open,
        Ended
  <2>2. PromptsAreHeard'
    BY <2>1, <1>2 DEF PromptsAreHeard, Current, Open
  <2>. QED
    BY <2>1, <2>2, <1>3, CallInv DEF Ended
<1>. QED
  BY <1>4, <1>5

\* An answer closes its prompt under the lock that found it open, so there was
\* none before; it is the consent behind what it sends and grants.
LEMMA AnswerInv ==
  ASSUME ApprovalInv, NEW t \in Tasks, NEW yes \in BOOLEAN, NEW forTask \in BOOLEAN,
         Answer(t, yes, forTask)
  PROVE  ApprovalInv'
<1>. DEFINE new == [task |-> t, ask |-> asks[t], scope |-> scope[t],
                    allow |-> yes, forTask |-> forTask]
<1>1. ApprovalTypes /\ ApprovalTypes'
  BY EndTypes DEF ApprovalInv
<1>2. /\ answers' = answers \cup {new} /\ pending' = pending \ {Current(t)}
      /\ UNCHANGED <<stage, asks, asked, scope, allow, ran>>
      /\ \A u \in Tasks \ {t} : answer'[u] = answer[u] /\ grants'[u] = grants[u]
      /\ answer'[t] = "allow" => yes
      /\ grants'[t] = IF forTask THEN grants[t] \cup {scope[t]} ELSE grants[t]
      /\ forTask => yes
      /\ Current(t) \in pending
  BY <1>1 DEF Answer, Accept, ApprovalTypes
<1>3. stage[t] \in Open /\ asks[t] \in Nat
  BY <1>1, <1>2 DEF ApprovalInv, PromptsAreHeard, Current, ApprovalTypes
<1>. HIDE DEF new
<1>4. /\ new.task = t /\ new.ask = asks[t] /\ new.scope = scope[t]
      /\ new.allow = yes /\ new.forTask = forTask
  BY DEF new
<1>5. RunsWithConsent'
  BY <1>2 DEF ApprovalInv, RunsWithConsent
<1>6. ASSUME NEW a \in answers, a.task = t, a.ask = asks[t] PROVE FALSE
  <2>1. <<a.task, a.ask>> \notin pending
    BY DEF ApprovalInv, AnswersClose
  <2>2. <<a.task, a.ask>> = Current(t)
    BY <1>6 DEF Current
  <2>. QED
    BY <2>1, <2>2, <1>2
<1>7. AnsweredOnce'
  BY <1>2, <1>4, <1>6 DEF ApprovalInv, AnsweredOnce
<1>8. PromptsAreHeard'
  BY <1>2 DEF ApprovalInv, PromptsAreHeard, Current
<1>9. AnswersClose'
  <2>. SUFFICES ASSUME NEW a \in answers \cup {new}
                PROVE  a.ask <= asks[a.task] /\ <<a.task, a.ask>> \notin pending \ {Current(t)}
    BY <1>2 DEF AnswersClose
  <2>1. CASE a \in answers
    BY <2>1 DEF ApprovalInv, AnswersClose
  <2>2. CASE a = new
    <3>1. <<a.task, a.ask>> = Current(t)
      BY <2>2, <1>4 DEF Current
    <3>. QED
      BY <2>2, <3>1, <1>3, <1>4
  <2>. QED
    BY <2>1, <2>2
<1>10. AnswersFollow'
  BY <1>2, <1>3, <1>4 DEF ApprovalInv, AnswersFollow, Open
<1>11. AsksCounted'
  BY <1>2 DEF ApprovalInv, AsksCounted
<1>12. ConsentBehind'
  <2>. SUFFICES ASSUME NEW u \in Tasks, answer'[u] = "allow" \/ allow'[u] \/ stage'[u] = "allowed"
                PROVE  Consented(u)'
    BY DEF ConsentBehind
  <2>1. CASE u = t /\ answer'[t] = "allow"
    BY <2>1, <1>2, <1>4 DEF Consented
  <2>2. CASE Consented(u)
    BY <2>2, <1>2 DEF Consented
  <2>. QED
    BY <2>1, <2>2, <1>2 DEF ApprovalInv, ConsentBehind
<1>13. GrantsGiven'
  <2>. SUFFICES ASSUME NEW u \in Tasks, NEW s \in grants'[u]
                PROVE  \E a \in answers' : a.task = u /\ a.allow /\ a.forTask /\ a.scope = s
    BY DEF GrantsGiven
  <2>1. CASE s \in grants[u]
    BY <2>1, <1>2 DEF ApprovalInv, GrantsGiven
  <2>2. CASE u = t /\ forTask /\ s = scope[t]
    BY <2>2, <1>2, <1>4
  <2>. QED
    BY <2>1, <2>2, <1>2
<1>. QED
  BY <1>1, <1>5, <1>7, <1>8, <1>9, <1>10, <1>11, <1>12, <1>13 DEF ApprovalInv

\* Every step keeps the invariant.
LEMMA InvNext == ApprovalInv /\ [ApprovalsNext]_approvalVars => ApprovalInv'
<1>. SUFFICES ASSUME ApprovalInv, [ApprovalsNext]_approvalVars PROVE ApprovalInv'
  OBVIOUS
<1>1. CASE UNCHANGED approvalVars
  BY <1>1 DEF approvalVars, hubVars, callVars, ApprovalInv, ApprovalTypes, RunsWithConsent, AnsweredOnce,
      PromptsAreHeard, AnswersClose, AnswersFollow, AsksCounted, ConsentBehind, GrantsGiven,
      Consented, Current
<1>. QED
  BY <1>1, AskInv, TaskInv, AnswerInv, EndInv DEF ApprovalsNext

-----------------------------------------------------------------------------
(* The theorems                                                            *)

\* The inductive invariant holds (approvals.rs).
THEOREM ApprovalInvariant == ApprovalsSpec => []ApprovalInv
BY InvInit, InvNext, PTL DEF ApprovalsSpec

\* An action runs only if the user allowed it, or allowed its scope for the
\* rest of the same task (approvals.rs ask, answer).
THEOREM ConsentedRuns == ApprovalsSpec => []RunsWithConsent
<1>1. ApprovalInv => RunsWithConsent
  BY DEF ApprovalInv
<1>. QED
  BY <1>1, ApprovalInvariant, PTL

\* A prompt is answered once (approvals.rs answer).
THEOREM OneAnswer == ApprovalsSpec => []AnsweredOnce
<1>1. ApprovalInv => AnsweredOnce
  BY DEF ApprovalInv
<1>. QED
  BY <1>1, ApprovalInvariant, PTL

\* Every listed prompt has a tool call that waits for it (approvals.rs Ticket).
THEOREM PromptsHeard == ApprovalsSpec => []PromptsAreHeard
<1>1. ApprovalInv => PromptsAreHeard
  BY DEF ApprovalInv
<1>. QED
  BY <1>1, ApprovalInvariant, PTL

\* No prompt and no grant outlives a task that finish completed: an answer
\* after the task's end finds no prompt (approvals.rs answer,
\* deny_task; engine.rs finish).
THEOREM EndedHoldsNothing == ApprovalsSpec => []EndsWithTask
<1>1. ApprovalsInit => EndsWithTask
  BY DEF ApprovalsInit, EndsWithTask
<1>2. ApprovalInv /\ EndsWithTask /\ [ApprovalsNext]_approvalVars => EndsWithTask'
  <2>. SUFFICES ASSUME ApprovalInv, EndsWithTask, [ApprovalsNext]_approvalVars,
                       NEW u \in Tasks, stage'[u] = "finished",
                       ApprovalInv'
                PROVE  grants'[u] = {} /\ \A p \in pending' : p[1] # u
    BY InvNext DEF EndsWithTask, HoldsNothing
  <2>1. \A p \in pending' : p[1] # u
    BY DEF ApprovalInv, PromptsAreHeard, Open
  <2>2. ApprovalTypes /\ (\A p \in pending : stage[p[1]] \in Open)
    BY DEF ApprovalInv, PromptsAreHeard
  <2>3. CASE UNCHANGED approvalVars
    BY <2>1, <2>3 DEF approvalVars, hubVars, EndsWithTask, HoldsNothing
  <2>4. ASSUME NEW t \in Tasks, AskerStep(t) \/ Deadline(t) \/ CancelsTask(t) \/ CancelDenies(t) \/ TaskIsOver(t)
                 \/ FinishDenies(t) \/ \E s \in Scopes \cup {NoScope} : Ask(t, s)
        PROVE  grants'[u] = {}
    BY <2>2, <2>4 DEF AskerStep, Deadline, CancelsTask, CancelDenies, TaskIsOver, FinishDenies, Ask,
        AskGranted, AskUncovered, AskPrompts, AskAnnounced, AskRecorded, AskAnswered, AskGivesUp,
        AskReturns, Run, DropPrompts, hubVars, EndsWithTask, HoldsNothing, ApprovalTypes, Ended
  <2>5. ASSUME NEW t \in Tasks, CancelRevokes(t) \/ FinishRevokes(t) PROVE grants'[u] = {}
    BY <2>2, <2>5 DEF CancelRevokes, FinishRevokes, EndsWithTask, HoldsNothing, ApprovalTypes, Ended
  <2>6. ASSUME NEW t \in Tasks, NEW yes \in BOOLEAN, NEW forTask \in BOOLEAN,
               Answer(t, yes, forTask)
        PROVE  grants'[u] = {}
    BY <2>2, <2>6 DEF Answer, Accept, Current, EndsWithTask, HoldsNothing, ApprovalTypes, Open
  <2>7. ASSUME NEW t \in Tasks, FinishFails(t) PROVE grants'[u] = {}
    BY <2>2, <2>7 DEF FinishFails, hubVars, EndsWithTask, HoldsNothing, ApprovalTypes
  <2>. QED
    BY <2>1, <2>3, <2>4, <2>5, <2>6, <2>7 DEF ApprovalsNext
<1>. QED
  BY <1>1, <1>2, ApprovalInvariant, PTL DEF ApprovalsSpec
=============================================================================
