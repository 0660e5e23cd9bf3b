-------------------------- MODULE AutomationsProofs --------------------------
(***************************************************************************)
(* For any number of automations, schedules, runs and requests: one run of *)
(* an automation goes at a time, and a scheduled time is recorded once.    *)
(* AutomationInv orders the times: those with a row lie before the copies  *)
(* the tick holds, these before the next time in the row, and that is in   *)
(* the future when it is written.                                          *)
(***************************************************************************)
EXTENDS Automations, TLAPS

-----------------------------------------------------------------------------
(* The inductive invariant                                                 *)

\* A run that is not over has its automation's place in the registry.
Registered == \A r \in AutomationRuns : ActiveRun(r) => registry[ofRun[r]] = r

\* A row comes with the worker, and says running no longer than it.
RowsKnown ==
    \A r \in AutomationRuns :
        /\ runner[r] = "reserved" => history[r] = "none"
        /\ runner[r] \in {"driving", "watching", "ending", "recorded"} => history[r] # "none"

\* A launch on the way holds the run it took.
LaunchesHold ==
    /\ request.pc = "saving" => runner[request.run] = "reserved" /\ dueRun[request.run] = NoTime
    /\ tick.pc = "saving" => /\ runner[tick.run] = "reserved"
                             /\ ofRun[tick.run] = tick.at.id
                             /\ dueRun[tick.run] = tick.at.due

\* The scheduled times that have a row, or are about to.
Dated(r) == (history[r] # "none" \/ runner[r] = "reserved") /\ dueRun[r] # NoTime

DatesPast ==
    \A r \in AutomationRuns : Dated(r) =>
        /\ dueRun[r] <= clock
        /\ tick.pc # "idle" => dueRun[r] <= tick.now

DatesOnce ==
    \A r, s \in AutomationRuns :
        (Dated(r) /\ Dated(s) /\ ofRun[r] = ofRun[s] /\ dueRun[r] = dueRun[s] /\ ofRun[r] \notin late)
        => r = s

\* A next time that is not late lies after the times that were used.
NextIsAhead ==
    \A r \in AutomationRuns : (Dated(r) /\ ofRun[r] \in planned \ late /\ plan[ofRun[r]].next # NoTime) =>
        dueRun[r] < plan[ofRun[r]].next

\* So do the copies of the tick, and the next time after the one it is at.
CopiesAreAhead ==
    tick.pc # "idle" =>
        /\ tick.now <= clock
        /\ \A c \in tick.due : c.due \in Nat /\ c.due <= tick.now
        /\ \A c, d \in tick.due : c.id = d.id => c = d
        /\ \A c \in tick.due, r \in AutomationRuns : (Dated(r) /\ ofRun[r] = c.id /\ c.id \notin late) =>
              dueRun[r] < c.due \/ (tick.pc = "saving" /\ r = tick.run)
        /\ tick.pc # "advance" =>
              /\ tick.at \in tick.due
              /\ (tick.at.id \in planned \ late /\ plan[tick.at.id].next # NoTime) =>
                    tick.at.due < plan[tick.at.id].next

Times == DatesPast /\ DatesOnce /\ NextIsAhead /\ CopiesAreAhead

AutomationInv == AutomationTypes /\ Registered /\ RowsKnown /\ RowsTellRuns /\ LaunchesHold /\ Times

-----------------------------------------------------------------------------
(* Types                                                                   *)

LEMMA NextRunAhead ==
  ASSUME NEW p \in Nat \ {0}, NEW t \in Nat
  PROVE  NextRun(p, t) \in Nat /\ t < NextRun(p, t)
<1>. DEFINE q == t \div p
<1>1. q \in Nat /\ t = p * q + (t % p) /\ t % p \in 0 .. (p - 1)
  OBVIOUS
<1>2. NextRun(p, t) = (q + 1) * p
  BY DEF NextRun
<1>. HIDE DEF q
<1>3. (q + 1) * p = p * q + p
  BY <1>1
<1>. QED
  BY <1>1, <1>2, <1>3

LEMMA TickShape ==
  ASSUME AutomationTypes
  PROVE  /\ tick.pc \in {"idle", "advance", "decide", "failed", "saving"}
         /\ tick.pc # "idle" => tick.due \in SUBSET Copy /\ tick.now \in Nat
         /\ tick.pc \in {"decide", "failed", "saving"} => tick.at \in Copy
         /\ tick.pc = "saving" => tick.run \in AutomationRuns
<1>1. CASE tick = Idle
  BY <1>1 DEF Idle
<1>2. CASE tick \in [pc : {"advance"}, due : SUBSET Copy, now : Nat]
  BY <1>2
<1>3. CASE tick \in [pc : {"decide", "failed"}, due : SUBSET Copy, now : Nat, at : Copy]
  BY <1>3
<1>4. CASE tick \in [pc : {"saving"}, due : SUBSET Copy, now : Nat, at : Copy, run : AutomationRuns]
  BY <1>4
<1>. QED
  BY <1>1, <1>2, <1>3, <1>4, Zenon DEF AutomationTypes, TickTypes, RequestTypes

LEMMA RequestShape ==
  ASSUME AutomationTypes
  PROVE  /\ request.pc = "launch" => request.at \in Copy
         /\ request.pc = "saving" => request.run \in AutomationRuns
         /\ request.pc \in {"edit", "resume"} =>
               request.id \in AutomationIds /\ request.every \in Periods /\ request.next \in Nat \cup {NoTime}
<1>1. CASE request = Idle
  BY <1>1 DEF Idle
<1>2. CASE request \in [pc : {"launch"}, at : Copy]
  BY <1>2
<1>3. CASE request \in [pc : {"saving"}, run : AutomationRuns]
  BY <1>3
<1>4. CASE request \in [pc : {"edit", "resume"}, id : AutomationIds, every : Periods,
                        next : Nat \cup {NoTime}]
  BY <1>4
<1>. QED
  BY <1>1, <1>2, <1>3, <1>4, Zenon DEF AutomationTypes, TickTypes, RequestTypes
LEMMA AutomationInitInv == AutomationsInit => AutomationInv
<1>. SUFFICES ASSUME AutomationsInit PROVE AutomationInv
  OBVIOUS
<1>. USE AutomationAssumption DEF AutomationsInit
<1>1. (CHOOSE a \in AutomationIds : TRUE) \in AutomationIds
  <2>1. PICK a \in AutomationIds : TRUE
    OBVIOUS
  <2>. QED
    BY <2>1
<1>2. \A p \in Periods : [every |-> p, next |-> NextRun(p, 0)] \in Plan
  BY NextRunAhead DEF Plan
<1>3. plan \in [AutomationIds -> Plan]
  BY <1>2
<1>4. AutomationRowTypes /\ ActiveRunTypes
  BY <1>1, <1>3 DEF AutomationRowTypes, ActiveRunTypes, RowStatuses
<1>5. AutomationTypes
  BY <1>4 DEF AutomationTypes, TickTypes, RequestTypes
<1>6. tick.pc = "idle" /\ request.pc = "idle"
  BY DEF Idle
<1>7. \A r \in AutomationRuns : history[r] = "none" /\ runner[r] = "none"
  OBVIOUS
<1>8. Registered /\ RowsKnown /\ RowsTellRuns /\ LaunchesHold
  BY <1>6, <1>7 DEF Registered, RowsKnown, RowsTellRuns, LaunchesHold, ActiveRun, Active
<1>9. Times
  BY <1>6, <1>7 DEF Times, DatesPast, DatesOnce, NextIsAhead, CopiesAreAhead, Dated
<1>. QED
  BY <1>5, <1>8, <1>9 DEF AutomationInv

\* Steps of the tick.
LEMMA TickTyped ==
  ASSUME AutomationTypes, TickNext \/ TickSpawns \/ TickReleases
  PROVE  AutomationTypes'
<1>. USE DEF TickUnchanged, planVars, rowVars, ghostVars
<1>1. AutomationRowTypes /\ ActiveRunTypes /\ TickTypes
  BY DEF AutomationTypes
<1>2. UNCHANGED <<clock, stopped, request, automationsClosing, automationRestarts, ghostVars>>
  BY DEF TickNext, TickReads, TickAdvances, TickFails, TickMisses, TickTakes, TickSkips,
         TickRecordsFailure, TickRecords, TickSpawns, TickReleases
<1>3. SUFFICES AutomationRowTypes' /\ ActiveRunTypes' /\ TickTypes'
  BY <1>2 DEF AutomationTypes, RequestTypes
<1>4. ASSUME TickGoesOn, tick.pc # "idle" PROVE TickTypes'
  <2>1. tick' = Idle \/ tick' = [pc |-> "advance", due |-> tick.due \ {tick.at}, now |-> tick.now]
    BY <1>4, Zenon DEF TickGoesOn
  <2>2. tick.due \ {tick.at} \in SUBSET Copy /\ tick.now \in Nat
    BY <1>4, TickShape
  <2>3. CASE tick' = Idle
    BY <2>3 DEF TickTypes
  <2>4. CASE tick' = [pc |-> "advance", due |-> tick.due \ {tick.at}, now |-> tick.now]
    <3>1. tick' \in [pc : {"advance"}, due : SUBSET Copy, now : Nat]
      BY <2>2, <2>4
    <3>. QED
      BY <3>1 DEF TickTypes
  <2>. QED
    BY <2>1, <2>3, <2>4
<1>5. CASE TickReads
  <2>1. \A a \in AutomationIds : CopyOf(a) \in Copy
    BY <1>1 DEF CopyOf, Copy, AutomationRowTypes, Plan
  <2>2. {CopyOf(a) : a \in {b \in AutomationIds : IsDue(b)}} \in SUBSET Copy
    BY <2>1
  <2>3. clock \in Nat
    BY <1>1 DEF AutomationRowTypes
  <2>4. TickTypes'
    BY <1>5, <2>2, <2>3, Zenon DEF TickReads, TickTypes
  <2>. QED
    BY <1>1, <1>2, <1>5, <2>4 DEF TickReads, AutomationRowTypes, ActiveRunTypes
<1>6. CASE TickAdvances
  <2>1. PICK c \in tick.due :
           /\ Advance(c)
           /\ tick' = [pc |-> "decide", due |-> tick.due, now |-> tick.now, at |-> c]
    BY <1>6 DEF TickAdvances
  <2>2. c \in Copy /\ tick.now \in Nat /\ tick.due \in SUBSET Copy
    BY <1>6, TickShape DEF TickAdvances
  <2>3. NextRun(c.every, tick.now) \in Nat
    BY <2>2, NextRunAhead, AutomationAssumption DEF Copy
  <2>4. plan' \in [AutomationIds -> Plan]
    <3>1. c.id \in AutomationIds
      BY <2>2 DEF Copy
    <3>. QED
      BY <1>1, <2>1, <2>3, <3>1 DEF Advance, AutomationRowTypes, Plan
  <2>5. TickTypes'
    BY <2>1, <2>2, Zenon DEF TickTypes
  <2>. QED
    BY <1>1, <1>2, <1>6, <2>4, <2>5 DEF TickAdvances, AutomationRowTypes, ActiveRunTypes
<1>7. CASE TickFails
  BY <1>1, <1>2, <1>7 DEF TickFails, AutomationRowTypes, ActiveRunTypes, TickTypes
<1>8. ASSUME NEW r \in AutomationRuns, NEW status \in {"missed", "skipped", "ended"},
             TickRecords(r, status), tick.pc \in {"decide", "failed"}
      PROVE  AutomationRowTypes' /\ ActiveRunTypes' /\ TickTypes'
  <2>1. TickTypes'
    BY <1>4, <1>8 DEF TickRecords
  <2>2. tick.at.id \in AutomationIds /\ tick.at.due \in Nat \cup {NoTime}
    BY <1>8, TickShape DEF Copy
  <2>3. AutomationRowTypes'
    BY <1>1, <1>2, <1>8 DEF TickRecords, SaveRow, AutomationRowTypes, RowStatuses
  <2>4. ActiveRunTypes'
    BY <1>1, <1>2, <1>8, <2>2 DEF TickRecords, ActiveRunTypes
  <2>. QED
    BY <2>1, <2>3, <2>4
<1>9. ASSUME NEW r \in AutomationRuns, TickTakes(r)
      PROVE  AutomationRowTypes' /\ ActiveRunTypes' /\ TickTypes'
  <2>1. tick.at \in Copy /\ tick.due \in SUBSET Copy /\ tick.now \in Nat
    BY <1>9, TickShape DEF TickTakes
  <2>2. tick.at.id \in AutomationIds /\ tick.at.due \in Nat \cup {NoTime}
    BY <2>1 DEF Copy
  <2>3. TickTypes'
    BY <1>9, <2>1, Zenon DEF TickTakes, TickTypes
  <2>. QED
    BY <1>1, <1>2, <1>9, <2>2, <2>3 DEF TickTakes, Takes, AutomationRowTypes, ActiveRunTypes, Active
<1>10. CASE TickSpawns
  <2>1. tick.run \in AutomationRuns
    BY <1>10, TickShape DEF TickSpawns
  <2>2. TickTypes'
    BY <1>4, <1>10 DEF TickSpawns
  <2>. QED
    BY <1>1, <1>2, <1>10, <2>1, <2>2 DEF TickSpawns, Spawns, SaveRow, AutomationRowTypes, ActiveRunTypes,
                                       Active, RowStatuses
<1>11. CASE TickReleases
  <2>1. tick.run \in AutomationRuns /\ tick.at \in Copy /\ tick.due \in SUBSET Copy /\ tick.now \in Nat
    BY <1>11, TickShape DEF TickReleases
  <2>2. tick' = Idle \/ tick' = [pc |-> "failed", due |-> tick.due, now |-> tick.now, at |-> tick.at]
    BY <1>11, Zenon DEF TickReleases
  <2>3. TickTypes'
    <3>1. CASE tick' = Idle
      BY <3>1 DEF TickTypes
    <3>2. CASE tick' = [pc |-> "failed", due |-> tick.due, now |-> tick.now, at |-> tick.at]
      <4>1. tick' \in [pc : {"decide", "failed"}, due : SUBSET Copy, now : Nat, at : Copy]
        BY <2>1, <3>2
      <4>. QED
        BY <4>1 DEF TickTypes
    <3>. QED
      BY <2>2, <3>1, <3>2
  <2>. QED
    BY <1>1, <1>2, <1>11, <2>1, <2>3 DEF TickReleases, Releases, AutomationRowTypes, ActiveRunTypes, Active
<1>12. ASSUME NEW r \in AutomationRuns, TickMisses(r) \/ TickSkips(r) \/ TickRecordsFailure(r)
       PROVE  AutomationRowTypes' /\ ActiveRunTypes' /\ TickTypes'
  BY <1>8, <1>12 DEF TickMisses, TickSkips, TickRecordsFailure
<1>. QED
  BY <1>5, <1>6, <1>7, <1>9, <1>10, <1>11, <1>12 DEF TickNext

\* The other steps.
LEMMA RequestTyped ==
  ASSUME AutomationTypes, NEW a \in AutomationIds, NEW p \in Periods,
         \/ EditReads(a, p) \/ ResumeReads(a) \/ ChangeWrites \/ PausePlan(a) \/ DeletePlan(a)
         \/ RunNowReads(a) \/ RunNowRefused \/ RunNowSaves
         \/ \E r \in AutomationRuns : RunNowTakes(r)
  PROVE  AutomationTypes'
<1>. USE DEF NowUnchanged, planVars, rowVars, activeVars, requestVars, ghostVars
<1>1. AutomationRowTypes /\ ActiveRunTypes /\ TickTypes /\ RequestTypes
  BY DEF AutomationTypes
<1>2. tick' = tick /\ UNCHANGED <<automationsClosing, automationRestarts, unsaved>>
  BY DEF EditReads, ResumeReads, ChangeWrites, PausePlan, DeletePlan, RunNowReads, RunNowRefused,
         RunNowSaves, RunNowTakes
<1>3. SUFFICES AutomationRowTypes' /\ ActiveRunTypes' /\ RequestTypes' /\ late' \subseteq AutomationIds
  BY <1>1, <1>2 DEF AutomationTypes, TickTypes
<1>4. late \subseteq AutomationIds
  BY DEF AutomationTypes
<1>5. CASE EditReads(a, p) \/ ResumeReads(a)
  <2>1. plan[a].every \in Periods /\ clock \in Nat
    BY <1>1 DEF AutomationRowTypes, Plan
  <2>2. PICK pc \in {"edit", "resume"}, e \in Periods, n \in Nat \cup {NoTime} :
           request' = [pc |-> pc, id |-> a, every |-> e, next |-> n]
    <3>1. NextRun(p, clock) \in Nat /\ NextRun(plan[a].every, clock) \in Nat
      BY <2>1, NextRunAhead, AutomationAssumption
    <3>. QED
      BY <1>5, <2>1, <3>1, Zenon DEF EditReads, ResumeReads
  <2>3. RequestTypes'
    BY <2>2, Zenon DEF RequestTypes
  <2>. QED
    BY <1>1, <1>4, <1>5, <2>3 DEF EditReads, ResumeReads, AutomationRowTypes, ActiveRunTypes
<1>6. CASE ChangeWrites
  <2>1. request.id \in AutomationIds /\ request.every \in Periods /\ request.next \in Nat \cup {NoTime}
    BY <1>6, RequestShape DEF ChangeWrites
  <2>2. PICK e \in Periods : plan' = [plan EXCEPT ![request.id] =
           IF request.id \notin planned THEN plan[request.id] ELSE [every |-> e, next |-> request.next]]
    <3>1. plan[request.id].every \in Periods
      BY <1>1, <2>1 DEF AutomationRowTypes, Plan
    <3>. QED
      BY <1>6, <2>1, <3>1 DEF ChangeWrites
  <2>3. plan' \in [AutomationIds -> Plan]
    BY <1>1, <2>1, <2>2 DEF AutomationRowTypes, Plan
  <2>. QED
    BY <1>1, <1>4, <1>6, <2>1, <2>3 DEF ChangeWrites, AutomationRowTypes, ActiveRunTypes, RequestTypes
<1>7. CASE PausePlan(a)
  BY <1>1, <1>4, <1>7 DEF PausePlan, AutomationRowTypes, ActiveRunTypes, RequestTypes, Plan
<1>8. CASE DeletePlan(a)
  BY <1>1, <1>4, <1>8 DEF DeletePlan, AutomationRowTypes, ActiveRunTypes, RequestTypes, RowStatuses
<1>9. CASE RunNowReads(a)
  <2>1. CopyOf(a) \in Copy
    BY <1>1 DEF CopyOf, Copy, AutomationRowTypes, Plan
  <2>2. RequestTypes'
    BY <1>9, <2>1, Zenon DEF RunNowReads, RequestTypes
  <2>. QED
    BY <1>1, <1>4, <1>9, <2>2 DEF RunNowReads, AutomationRowTypes, ActiveRunTypes
<1>10. CASE RunNowRefused
  BY <1>1, <1>4, <1>10 DEF RunNowRefused, AutomationRowTypes, ActiveRunTypes, RequestTypes
<1>11. CASE RunNowSaves
  <2>1. request.run \in AutomationRuns
    BY <1>11, RequestShape DEF RunNowSaves
  <2>. QED
    BY <1>1, <1>4, <1>11, <2>1 DEF RunNowSaves, Spawns, Releases, SaveRow, AutomationRowTypes,
       ActiveRunTypes, Active, RowStatuses, RequestTypes
<1>12. ASSUME NEW r \in AutomationRuns, RunNowTakes(r)
       PROVE  AutomationRowTypes' /\ ActiveRunTypes' /\ RequestTypes' /\ late' \subseteq AutomationIds
  <2>1. request.at.id \in AutomationIds
    BY <1>12, RequestShape DEF RunNowTakes, Copy
  <2>2. RequestTypes'
    BY <1>12, Zenon DEF RunNowTakes, RequestTypes
  <2>. QED
    BY <1>1, <1>4, <1>12, <2>1, <2>2 DEF RunNowTakes, Takes, AutomationRowTypes, ActiveRunTypes, Active
<1>. QED
  BY <1>5, <1>6, <1>7, <1>8, <1>9, <1>10, <1>11, <1>12

LEMMA RunnerTyped ==
  ASSUME AutomationTypes,
         \/ \E r \in AutomationRuns : RunnerNext(r)
         \/ \E a \in AutomationIds : StopRun(a)
         \/ Passes \/ AutomationsClose \/ CancelAllRuns \/ AutomationsRestart
  PROVE  AutomationTypes'
<1>. USE DEF RunnerUnchanged, RunnerMoves, planVars, rowVars, activeVars, requestVars, ghostVars
<1>1. AutomationRowTypes /\ ActiveRunTypes /\ TickTypes /\ RequestTypes
  BY DEF AutomationTypes
<1>2. ASSUME NEW r \in AutomationRuns, RunnerNext(r) PROVE AutomationTypes'
  BY <1>1, <1>2 DEF RunnerNext, RunnerFails, RunnerStarts, RunnerSees, RunnerRecords, RunnerEnds, SaveRow,
     AutomationTypes, AutomationRowTypes, ActiveRunTypes, TickTypes, RequestTypes, Active, RowStatuses
<1>3. ASSUME NEW a \in AutomationIds, StopRun(a) PROVE AutomationTypes'
  <2>1. registry[a] \in AutomationRuns
    BY <1>1, <1>3 DEF StopRun, Free, ActiveRunTypes
  <2>. QED
    BY <1>1, <1>3, <2>1 DEF StopRun, AutomationTypes, AutomationRowTypes, ActiveRunTypes, TickTypes,
       RequestTypes
<1>4. CASE Passes \/ AutomationsClose \/ CancelAllRuns
  <2>1. UNCHANGED <<rowVars, registry, ofRun, dueRun, runner, requestVars, automationRestarts, ghostVars>>
    BY <1>4 DEF Passes, AutomationsClose, CancelAllRuns
  <2>2. clock' \in Nat /\ automationsClosing' \in BOOLEAN
    <3>1. clock' \in Nat
      BY <1>1, <1>4 DEF Passes, AutomationsClose, CancelAllRuns, AutomationRowTypes
    <3>2. automationsClosing' = automationsClosing \/ automationsClosing' = TRUE
      BY <1>4, Zenon DEF Passes, AutomationsClose, CancelAllRuns
    <3>. QED
      BY <3>1, <3>2, Zenon DEF AutomationTypes
  <2>3. stopped' \subseteq AutomationRuns
    BY <1>1, <1>4 DEF Passes, AutomationsClose, CancelAllRuns, ActiveRunTypes
  <2>4. AutomationRowTypes' /\ ActiveRunTypes'
    BY <1>1, <2>1, <2>2, <2>3 DEF AutomationRowTypes, ActiveRunTypes
  <2>5. TickTypes' /\ RequestTypes'
    BY <1>1, <2>1 DEF TickTypes, RequestTypes
  <2>. QED
    BY <2>1, <2>2, <2>4, <2>5 DEF AutomationTypes
<1>5. CASE AutomationsRestart
  <2>1. history' \in [AutomationRuns -> RowStatuses]
    BY <1>1, <1>5 DEF AutomationsRestart, RecoverRuns, AutomationRowTypes, RowStatuses
  <2>2. AutomationRowTypes'
    BY <1>1, <1>5, <2>1 DEF AutomationsRestart, AutomationRowTypes
  <2>3. ActiveRunTypes'
    BY <1>1, <1>5 DEF AutomationsRestart, ActiveRunTypes
  <2>4. TickTypes' /\ RequestTypes'
    BY <1>5 DEF AutomationsRestart, TickTypes, RequestTypes
  <2>5. automationRestarts' \in Nat /\ automationsClosing' \in BOOLEAN
    <3>1. automationRestarts \in Nat /\ automationRestarts' = automationRestarts + 1
             /\ automationsClosing' = FALSE
      BY <1>5, Zenon DEF AutomationsRestart, AutomationTypes
    <3>2. automationRestarts' \in Nat
      BY <3>1
    <3>. QED
      BY <3>1, <3>2, Zenon
  <2>6. unsaved' \subseteq AutomationRuns /\ late' \subseteq AutomationIds
    BY <1>5 DEF AutomationsRestart, AutomationTypes
  <2>. QED
    BY <2>2, <2>3, <2>4, <2>5, <2>6 DEF AutomationTypes
<1>. QED
  BY <1>2, <1>3, <1>4, <1>5
-----------------------------------------------------------------------------
(* Registry, rows and launches                                             *)

\* What the lemmas of the steps prove of the new state, besides its types.
RunsKept == Registered /\ RowsKnown /\ RowsTellRuns /\ LaunchesHold

\* The two launches that can be on the way hold different runs.
LEMMA LaunchesDiffer ==
  ASSUME AutomationInv, tick.pc = "saving", request.pc = "saving"
  PROVE  tick.run # request.run
<1>1. tick.at \in tick.due /\ \A c \in tick.due : c.due \in Nat
  BY DEF AutomationInv, Times, CopiesAreAhead
<1>2. tick.at.due # NoTime
  BY <1>1, AutomationAssumption
<1>. QED
  BY <1>2 DEF AutomationInv, LaunchesHold

\* A run takes a place that is free.
LEMMA TakesKeeps ==
  ASSUME AutomationInv, NEW r \in AutomationRuns, NEW a \in AutomationIds, Free(a), Unused(r),
         registry' = [registry EXCEPT ![a] = r],
         ofRun' = [ofRun EXCEPT ![r] = a],
         runner' = [runner EXCEPT ![r] = "reserved"],
         UNCHANGED <<history, unsaved>>
  PROVE  Registered' /\ RowsKnown' /\ RowsTellRuns'
<1>1. ActiveRunTypes /\ Registered /\ RowsKnown /\ RowsTellRuns
  BY DEF AutomationInv, AutomationTypes
<1>2. /\ runner'[r] = "reserved" /\ ofRun'[r] = a /\ registry'[a] = r /\ history[r] = "none"
      /\ \A s \in AutomationRuns \ {r} : runner'[s] = runner[s] /\ ofRun'[s] = ofRun[s]
      /\ \A b \in AutomationIds \ {a} : registry'[b] = registry[b]
  BY <1>1 DEF ActiveRunTypes, Unused
<1>3. \A s \in AutomationRuns \ {r} : ActiveRun(s) => ofRun[s] # a
  BY <1>1 DEF Registered, Free, ActiveRun, Active
<1>4. Registered'
  BY <1>1, <1>2, <1>3 DEF Registered, ActiveRun, ActiveRunTypes
<1>5. RowsKnown' /\ RowsTellRuns'
  BY <1>1, <1>2 DEF RowsKnown, RowsTellRuns
<1>. QED
  BY <1>4, <1>5

\* A launch stores its row, or gives its place back.
LEMMA LaunchKeeps ==
  ASSUME AutomationInv, NEW r \in AutomationRuns, runner[r] = "reserved", Spawns(r) \/ Releases(r),
         UNCHANGED <<ofRun, unsaved>>
  PROVE  /\ Registered' /\ RowsKnown' /\ RowsTellRuns'
         /\ \A s \in AutomationRuns \ {r} : runner'[s] = runner[s] /\ history'[s] = history[s]
<1>1. ActiveRunTypes /\ AutomationRowTypes /\ Registered /\ RowsKnown /\ RowsTellRuns
  BY DEF AutomationInv, AutomationTypes
<1>2. \A s \in AutomationRuns \ {r} : runner'[s] = runner[s] /\ history'[s] = history[s]
  BY <1>1 DEF Spawns, Releases, SaveRow, ActiveRunTypes, AutomationRowTypes
<1>3. CASE Spawns(r)
  <2>1. runner'[r] = "driving" /\ history'[r] = "running" /\ registry' = registry
    BY <1>1, <1>3 DEF Spawns, SaveRow, ActiveRunTypes, AutomationRowTypes
  <2>. QED
    BY <1>1, <1>2, <2>1 DEF Registered, RowsKnown, RowsTellRuns, ActiveRun, Active
<1>4. CASE Releases(r)
  <2>1. runner'[r] = "none" /\ history'[r] = "none"
    BY <1>1, <1>4 DEF Releases, ActiveRunTypes, RowsKnown
  <2>2. \A b \in AutomationIds \ {ofRun[r]} : registry'[b] = registry[b]
    BY <1>1, <1>4 DEF Releases, ActiveRunTypes
  <2>3. \A s \in AutomationRuns \ {r} : ActiveRun(s) => ofRun[s] # ofRun[r]
    BY <1>1 DEF Registered, ActiveRun, Active
  <2>. QED
    BY <1>1, <1>2, <2>1, <2>2, <2>3 DEF Registered, RowsKnown, RowsTellRuns, ActiveRun, Active, ActiveRunTypes
<1>. QED
  BY <1>2, <1>3, <1>4

LEMMA TickKeepsRuns ==
  ASSUME AutomationInv, TickNext \/ TickSpawns \/ TickReleases
  PROVE  RunsKept'
<1>. USE DEF TickUnchanged, planVars, rowVars, ghostVars
<1>1. /\ AutomationTypes /\ ActiveRunTypes /\ AutomationRowTypes
      /\ Registered /\ RowsKnown /\ RowsTellRuns /\ LaunchesHold
  BY DEF AutomationInv, AutomationTypes
<1>2. request.pc = "saving" => request.run \in AutomationRuns
  BY <1>1, RequestShape
<1>3. CASE TickReads \/ TickAdvances \/ TickFails
  <2>1. UNCHANGED <<history, registry, ofRun, dueRun, runner, unsaved, request>> /\ tick'.pc # "saving"
    BY <1>3 DEF TickReads, TickAdvances, TickFails, Idle
  <2>. QED
    BY <1>1, <2>1 DEF RunsKept, Registered, RowsKnown, RowsTellRuns, LaunchesHold, ActiveRun
<1>4. ASSUME NEW r \in AutomationRuns, NEW status \in {"missed", "skipped", "ended"}, TickRecords(r, status)
      PROVE  RunsKept'
  <2>1. UNCHANGED <<registry, runner, unsaved, request>> /\ tick'.pc # "saving"
    BY <1>4 DEF TickRecords, TickGoesOn, Idle
  <2>2. /\ runner[r] = "none" /\ history'[r] = status
        /\ \A s \in AutomationRuns \ {r} : /\ history'[s] = history[s] /\ ofRun'[s] = ofRun[s]
                                           /\ dueRun'[s] = dueRun[s]
    BY <1>1, <1>4 DEF TickRecords, SaveRow, Unused, ActiveRunTypes, AutomationRowTypes
  <2>3. Registered' /\ RowsKnown' /\ RowsTellRuns'
    BY <1>1, <2>1, <2>2 DEF Registered, RowsKnown, RowsTellRuns, ActiveRun, Active
  <2>4. LaunchesHold'
    BY <1>1, <1>2, <2>1, <2>2 DEF LaunchesHold
  <2>. QED
    BY <2>3, <2>4 DEF RunsKept
<1>5. ASSUME NEW r \in AutomationRuns, TickTakes(r) PROVE RunsKept'
  <2>1. tick.at.id \in AutomationIds
    BY <1>1, <1>5, TickShape DEF TickTakes, Copy
  <2>2. Registered' /\ RowsKnown' /\ RowsTellRuns'
    BY <1>5, <2>1, TakesKeeps DEF TickTakes, Takes, Admits
  <2>3. /\ runner'[r] = "reserved" /\ ofRun'[r] = tick.at.id /\ dueRun'[r] = tick.at.due
        /\ runner[r] = "none"
        /\ \A s \in AutomationRuns \ {r} : runner'[s] = runner[s] /\ dueRun'[s] = dueRun[s]
    BY <1>1, <1>5, <2>1 DEF TickTakes, Takes, Unused, ActiveRunTypes
  <2>4. tick'.run = r /\ tick'.at = tick.at /\ request' = request
    BY <1>5 DEF TickTakes
  <2>5. LaunchesHold'
    BY <1>1, <1>2, <2>3, <2>4 DEF LaunchesHold
  <2>. QED
    BY <2>2, <2>5 DEF RunsKept
<1>6. CASE TickSpawns \/ TickReleases
  <2>1. /\ tick.pc = "saving" /\ tick.run \in AutomationRuns /\ runner[tick.run] = "reserved"
        /\ UNCHANGED <<ofRun, dueRun, unsaved, request>>
    BY <1>1, <1>6, TickShape DEF TickSpawns, TickReleases, LaunchesHold
  <2>2. tick'.pc # "saving"
    BY <1>6 DEF TickSpawns, TickReleases, TickGoesOn, Idle
  <2>3. /\ Registered' /\ RowsKnown' /\ RowsTellRuns'
        /\ \A s \in AutomationRuns \ {tick.run} : runner'[s] = runner[s]
    BY <1>6, <2>1, LaunchKeeps DEF TickSpawns, TickReleases
  <2>4. LaunchesHold'
    BY <1>1, <1>2, <2>1, <2>2, <2>3, LaunchesDiffer DEF LaunchesHold
  <2>. QED
    BY <2>3, <2>4 DEF RunsKept
<1>7. ASSUME NEW r \in AutomationRuns, TickMisses(r) \/ TickSkips(r) \/ TickRecordsFailure(r)
      PROVE  RunsKept'
  BY <1>4, <1>7 DEF TickMisses, TickSkips, TickRecordsFailure
<1>. QED
  BY <1>3, <1>5, <1>6, <1>7 DEF TickNext

LEMMA RequestKeepsRuns ==
  ASSUME AutomationInv, NEW a \in AutomationIds, NEW p \in Periods,
         \/ EditReads(a, p) \/ ResumeReads(a) \/ ChangeWrites \/ PausePlan(a) \/ DeletePlan(a)
         \/ RunNowReads(a) \/ RunNowRefused \/ RunNowSaves
         \/ \E r \in AutomationRuns : RunNowTakes(r)
  PROVE  RunsKept'
<1>. USE DEF NowUnchanged, planVars, rowVars, activeVars, requestVars, ghostVars
<1>1. /\ AutomationTypes /\ ActiveRunTypes /\ AutomationRowTypes
      /\ Registered /\ RowsKnown /\ RowsTellRuns /\ LaunchesHold
  BY DEF AutomationInv, AutomationTypes
<1>2. tick.pc = "saving" => tick.run \in AutomationRuns
  BY <1>1, TickShape
<1>3. CASE EditReads(a, p) \/ ResumeReads(a) \/ ChangeWrites \/ PausePlan(a) \/ RunNowReads(a) \/ RunNowRefused
  <2>1. UNCHANGED <<history, registry, ofRun, dueRun, runner, unsaved, tick>>
    BY <1>3 DEF EditReads, ResumeReads, ChangeWrites, PausePlan, RunNowReads, RunNowRefused
  <2>2. request' = request \/ request'.pc # "saving"
    BY <1>3 DEF EditReads, ResumeReads, ChangeWrites, PausePlan, RunNowReads, RunNowRefused, Idle
  <2>. QED
    BY <1>1, <2>1, <2>2 DEF RunsKept, Registered, RowsKnown, RowsTellRuns, LaunchesHold, ActiveRun
<1>4. CASE DeletePlan(a)
  <2>1. UNCHANGED <<registry, ofRun, dueRun, runner, unsaved, tick, request>>
    BY <1>4 DEF DeletePlan
  <2>2. \A r \in AutomationRuns : /\ history'[r] = "none" \/ history'[r] = history[r]
                                  /\ ofRun[r] # a => history'[r] = history[r]
    BY <1>4 DEF DeletePlan
  <2>3. \A r \in AutomationRuns : ActiveRun(r) => ofRun[r] # a
    BY <1>1, <1>4 DEF DeletePlan, Free, Registered, ActiveRun, Active
  <2>4. RowsKnown' /\ RowsTellRuns'
    BY <1>1, <2>1, <2>2, <2>3 DEF RowsKnown, RowsTellRuns, ActiveRun, Active
  <2>. QED
    BY <1>1, <2>1, <2>4 DEF RunsKept, Registered, LaunchesHold, ActiveRun
<1>5. ASSUME NEW r \in AutomationRuns, RunNowTakes(r) PROVE RunsKept'
  <2>1. request.at.id \in AutomationIds
    BY <1>1, <1>5, RequestShape DEF RunNowTakes, Copy
  <2>2. Registered' /\ RowsKnown' /\ RowsTellRuns'
    BY <1>5, <2>1, TakesKeeps DEF RunNowTakes, Takes, Admits
  <2>3. /\ runner'[r] = "reserved" /\ dueRun'[r] = NoTime /\ runner[r] = "none"
        /\ \A s \in AutomationRuns \ {r} : /\ runner'[s] = runner[s] /\ dueRun'[s] = dueRun[s]
                                           /\ ofRun'[s] = ofRun[s]
    BY <1>1, <1>5, <2>1 DEF RunNowTakes, Takes, Unused, ActiveRunTypes
  <2>4. request'.run = r /\ tick' = tick
    BY <1>5 DEF RunNowTakes
  <2>5. LaunchesHold'
    BY <1>1, <1>2, <2>3, <2>4 DEF LaunchesHold
  <2>. QED
    BY <2>2, <2>5 DEF RunsKept
<1>6. CASE RunNowSaves
  <2>1. /\ request.pc = "saving" /\ request.run \in AutomationRuns /\ runner[request.run] = "reserved"
        /\ UNCHANGED <<ofRun, dueRun, unsaved, tick>> /\ request'.pc # "saving"
    BY <1>1, <1>6, RequestShape DEF RunNowSaves, LaunchesHold, Idle
  <2>2. /\ Registered' /\ RowsKnown' /\ RowsTellRuns'
        /\ \A s \in AutomationRuns \ {request.run} : runner'[s] = runner[s]
    BY <1>6, <2>1, LaunchKeeps DEF RunNowSaves
  <2>3. LaunchesHold'
    BY <1>1, <1>2, <2>1, <2>2, LaunchesDiffer DEF LaunchesHold
  <2>. QED
    BY <2>2, <2>3 DEF RunsKept
<1>. QED
  BY <1>3, <1>4, <1>5, <1>6

LEMMA RunnerKeepsRuns ==
  ASSUME AutomationInv,
         \/ \E r \in AutomationRuns : RunnerNext(r)
         \/ \E a \in AutomationIds : StopRun(a)
         \/ Passes \/ AutomationsClose \/ CancelAllRuns \/ AutomationsRestart
  PROVE  RunsKept'
<1>. USE DEF RunnerUnchanged, RunnerMoves, planVars, rowVars, activeVars, requestVars, ghostVars
<1>1. /\ AutomationTypes /\ ActiveRunTypes /\ AutomationRowTypes
      /\ Registered /\ RowsKnown /\ RowsTellRuns /\ LaunchesHold
  BY DEF AutomationInv, AutomationTypes
<1>2. /\ tick.pc = "saving" => tick.run \in AutomationRuns
      /\ request.pc = "saving" => request.run \in AutomationRuns
  BY <1>1, TickShape, RequestShape
<1>3. ASSUME NEW r \in AutomationRuns, RunnerNext(r) PROVE RunsKept'
  <2>1. /\ UNCHANGED <<registry, ofRun, dueRun, tick, request>>
        /\ runner[r] \in Active \ {"reserved"} /\ runner'[r] \in (Active \ {"reserved"}) \cup {"over"}
        /\ \A s \in AutomationRuns \ {r} : runner'[s] = runner[s]
    BY <1>1, <1>3 DEF RunnerNext, RunnerFails, RunnerStarts, RunnerSees, RunnerRecords, RunnerEnds, Active,
                      ActiveRunTypes
  <2>2. /\ unsaved \subseteq unsaved'
        /\ \A s \in AutomationRuns \ {r} : history'[s] = history[s]
        /\ history'[r] \in {history[r], "ended"}
    <3>1. CASE RunnerRecords(r)
      BY <1>1, <3>1 DEF RunnerRecords, SaveRow, AutomationRowTypes
    <3>2. CASE RunnerFails(r) \/ RunnerStarts(r) \/ RunnerSees(r) \/ RunnerEnds(r)
      BY <3>2 DEF RunnerFails, RunnerStarts, RunnerSees, RunnerEnds
    <3>. QED
      BY <1>3, <3>1, <3>2 DEF RunnerNext
  <2>3. history'[r] = "running" => runner'[r] \in {"driving", "watching", "ending"} \/ r \in unsaved'
    BY <1>1, <1>3 DEF RunnerNext, RunnerFails, RunnerStarts, RunnerSees, RunnerRecords, RunnerEnds, SaveRow,
                      AutomationRowTypes, ActiveRunTypes, RowsTellRuns
  <2>4. Registered' /\ RowsKnown'
    BY <1>1, <2>1, <2>2 DEF Registered, RowsKnown, ActiveRun, Active
  <2>5. RowsTellRuns'
    BY <1>1, <2>1, <2>2, <2>3 DEF RowsTellRuns
  <2>6. LaunchesHold'
    BY <1>1, <1>2, <2>1 DEF LaunchesHold, Active
  <2>. QED
    BY <2>4, <2>5, <2>6 DEF RunsKept
<1>4. CASE (\E a \in AutomationIds : StopRun(a)) \/ Passes \/ AutomationsClose \/ CancelAllRuns
  <2>1. UNCHANGED <<history, registry, ofRun, dueRun, runner, unsaved, tick, request>>
    BY <1>4 DEF StopRun, Passes, AutomationsClose, CancelAllRuns
  <2>. QED
    BY <1>1, <2>1 DEF RunsKept, Registered, RowsKnown, RowsTellRuns, LaunchesHold, ActiveRun
<1>5. CASE AutomationsRestart
  <2>1. \A r \in AutomationRuns : runner'[r] = "none"
    BY <1>5 DEF AutomationsRestart
  <2>2. \A r \in AutomationRuns : history'[r] # "running"
    BY <1>5 DEF AutomationsRestart, RecoverRuns
  <2>3. tick'.pc = "idle" /\ request'.pc = "idle"
    BY <1>5 DEF AutomationsRestart, Idle
  <2>. QED
    BY <2>1, <2>2, <2>3 DEF RunsKept, Registered, RowsKnown, RowsTellRuns, LaunchesHold, ActiveRun, Active
<1>. QED
  BY <1>3, <1>4, <1>5
-----------------------------------------------------------------------------
(* The times                                                               *)

\* A step that dates no run and moves no next time into the past.
LEMMA QuietTimes ==
  ASSUME AutomationTypes, AutomationTypes', Times,
         \A r \in AutomationRuns : Dated(r)' => Dated(r) /\ ofRun'[r] = ofRun[r] /\ dueRun'[r] = dueRun[r],
         clock <= clock', late \subseteq late', planned' \subseteq planned,
         \A a \in planned' \ late' : \/ plan'[a].next = plan[a].next
                                    \/ plan'[a].next = NoTime
                                    \/ clock < plan'[a].next,
         tick' = tick \/ tick'.pc = "idle"
  PROVE  Times'
<1>1. /\ DatesPast /\ DatesOnce /\ NextIsAhead /\ CopiesAreAhead
      /\ AutomationRowTypes /\ AutomationRowTypes' /\ ActiveRunTypes
  BY DEF Times, AutomationTypes
<1>2. \A r \in AutomationRuns : Dated(r) => dueRun[r] \in Nat /\ ofRun[r] \in AutomationIds
  BY <1>1 DEF Dated, ActiveRunTypes
<1>3. clock \in Nat /\ clock' \in Nat /\ \A a \in AutomationIds : plan'[a].next # NoTime => plan'[a].next \in Nat
  BY <1>1 DEF AutomationRowTypes, Plan
<1>4. DatesPast'
  BY <1>1, <1>2, <1>3 DEF DatesPast
<1>5. DatesOnce'
  BY <1>1 DEF DatesOnce
<1>6. NextIsAhead'
  BY <1>1, <1>2, <1>3 DEF NextIsAhead, DatesPast
<1>7. CopiesAreAhead'
  <2>1. CASE tick'.pc = "idle"
    BY <2>1 DEF CopiesAreAhead
  <2>2. CASE tick' = tick /\ tick.pc # "idle"
    <3>1. tick.now \in Nat /\ tick.now <= clock'
      BY <1>1, <1>3, <2>2, TickShape DEF CopiesAreAhead
    <3>2. \A c \in tick.due, r \in AutomationRuns : (Dated(r)' /\ ofRun'[r] = c.id /\ c.id \notin late') =>
             dueRun'[r] < c.due \/ (tick.pc = "saving" /\ r = tick.run)
      BY <1>1, <2>2 DEF CopiesAreAhead
    <3>3. tick.pc # "advance" =>
             /\ tick.at \in tick.due
             /\ (tick.at.id \in planned' \ late' /\ plan'[tick.at.id].next # NoTime) =>
                   tick.at.due < plan'[tick.at.id].next
      <4>1. ASSUME tick.pc # "advance", tick.at.id \in planned' \ late', plan'[tick.at.id].next # NoTime
            PROVE  tick.at.due < plan'[tick.at.id].next
        <5>1. tick.at \in tick.due /\ tick.at.due \in Nat /\ tick.at.due <= tick.now /\ tick.now <= clock
          BY <1>1, <2>2, <4>1 DEF CopiesAreAhead
        <5>2. plan'[tick.at.id].next \in Nat
          BY <1>1, <1>3, <4>1 DEF AutomationRowTypes
        <5>3. CASE plan'[tick.at.id].next = plan[tick.at.id].next
          BY <1>1, <2>2, <4>1, <5>3 DEF CopiesAreAhead
        <5>4. CASE clock < plan'[tick.at.id].next
          BY <1>3, <3>1, <5>1, <5>2, <5>4
        <5>. QED
          BY <4>1, <5>3, <5>4
      <4>. QED
        BY <1>1, <2>2, <4>1 DEF CopiesAreAhead
    <3>. QED
      BY <1>1, <2>2, <3>1, <3>2, <3>3 DEF CopiesAreAhead
  <2>. QED
    BY <1>1, <2>1, <2>2
<1>. QED
  BY <1>4, <1>5, <1>6, <1>7 DEF Times

\* A run gets the time of the automation the tick is at.
LEMMA DatedTimes ==
  ASSUME AutomationTypes, AutomationTypes', Times, tick.pc \in {"decide", "failed"},
         NEW r \in AutomationRuns, ofRun'[r] = tick.at.id, dueRun'[r] = tick.at.due,
         \A s \in AutomationRuns \ {r} :
            Dated(s)' => Dated(s) /\ ofRun'[s] = ofRun[s] /\ dueRun'[s] = dueRun[s],
         UNCHANGED <<clock, late, planned, plan>>,
         tick'.pc # "idle" => tick'.now = tick.now
  PROVE  DatesPast' /\ DatesOnce' /\ NextIsAhead'
<1>1. /\ DatesPast /\ DatesOnce /\ NextIsAhead /\ CopiesAreAhead
      /\ AutomationRowTypes /\ ActiveRunTypes
  BY DEF Times, AutomationTypes
<1>2. \A s \in AutomationRuns : Dated(s) => dueRun[s] \in Nat
  BY <1>1 DEF Dated, ActiveRunTypes
<1>3. /\ tick.at \in tick.due /\ tick.at.due \in Nat /\ tick.now \in Nat /\ clock \in Nat
      /\ tick.at.due <= tick.now /\ tick.now <= clock
  BY <1>1, TickShape DEF CopiesAreAhead, AutomationRowTypes
<1>4. \A s \in AutomationRuns : Dated(s) /\ ofRun[s] = tick.at.id /\ tick.at.id \notin late =>
         dueRun[s] < tick.at.due
  BY <1>1, <1>3 DEF CopiesAreAhead
<1>5. DatesPast'
  BY <1>1, <1>3 DEF DatesPast
<1>6. DatesOnce'
  <2>1. ASSUME NEW s \in AutomationRuns, NEW t \in AutomationRuns, Dated(s)', Dated(t)',
               ofRun'[s] = ofRun'[t], dueRun'[s] = dueRun'[t], ofRun'[s] \notin late
        PROVE  s = t
    <3>1. CASE s # r /\ t # r
      BY <1>1, <2>1, <3>1 DEF DatesOnce
    <3>2. CASE s = r /\ t # r
      BY <1>2, <1>3, <1>4, <2>1, <3>2
    <3>3. CASE s # r /\ t = r
      BY <1>2, <1>3, <1>4, <2>1, <3>3
    <3>. QED
      BY <3>1, <3>2, <3>3
  <2>. QED
    BY <2>1 DEF DatesOnce
<1>7. NextIsAhead'
  BY <1>1, <1>3 DEF NextIsAhead, CopiesAreAhead
<1>. QED
  BY <1>5, <1>6, <1>7

\* The copies that are left after the one the tick was at.
LEMMA GoesOnAhead ==
  ASSUME AutomationTypes, Times, TickGoesOn, tick.pc \in {"decide", "failed", "saving"},
         NEW r \in AutomationRuns, ofRun'[r] = tick.at.id, tick.pc = "saving" => r = tick.run,
         \A s \in AutomationRuns \ {r} :
            Dated(s)' => Dated(s) /\ ofRun'[s] = ofRun[s] /\ dueRun'[s] = dueRun[s],
         UNCHANGED <<clock, late, planned, plan>>
  PROVE  CopiesAreAhead'
<1>1. CopiesAreAhead
  BY DEF Times
<1>2. CASE tick' = Idle
  BY <1>2 DEF CopiesAreAhead, Idle
<1>3. CASE tick' = [pc |-> "advance", due |-> tick.due \ {tick.at}, now |-> tick.now]
  <2>1. tick'.pc = "advance" /\ tick'.due = tick.due \ {tick.at} /\ tick'.now = tick.now
    BY <1>3
  <2>2. tick.at \in tick.due
    BY <1>1 DEF CopiesAreAhead
  <2>3. ASSUME NEW c \in tick.due \ {tick.at}, NEW s \in AutomationRuns, Dated(s)', ofRun'[s] = c.id,
               c.id \notin late
        PROVE  dueRun'[s] < c.due
    <3>1. c.id # tick.at.id
      BY <1>1, <2>2 DEF CopiesAreAhead
    <3>2. s # r
      BY <2>3, <3>1
    <3>. QED
      BY <1>1, <2>3, <3>2 DEF CopiesAreAhead
  <2>4. /\ tick.now <= clock
        /\ \A c \in tick.due \ {tick.at} : c.due \in Nat /\ c.due <= tick.now
        /\ \A c, d \in tick.due \ {tick.at} : c.id = d.id => c = d
    BY <1>1 DEF CopiesAreAhead
  <2>. QED
    BY <2>1, <2>3, <2>4 DEF CopiesAreAhead
<1>. QED
  BY <1>2, <1>3, Zenon DEF TickGoesOn

LEMMA TickKeepsTimes ==
  ASSUME AutomationInv, AutomationTypes', TickNext \/ TickSpawns \/ TickReleases
  PROVE  Times'
<1>. USE DEF TickUnchanged, planVars, rowVars, ghostVars
<1>1. /\ AutomationTypes /\ ActiveRunTypes /\ AutomationRowTypes
      /\ RowsKnown /\ LaunchesHold /\ Times
      /\ DatesPast /\ DatesOnce /\ NextIsAhead /\ CopiesAreAhead
  BY DEF AutomationInv, AutomationTypes, Times
<1>2. UNCHANGED <<clock, late>>
  BY DEF TickNext, TickReads, TickAdvances, TickFails, TickMisses, TickTakes, TickSkips,
         TickRecordsFailure, TickRecords, TickSpawns, TickReleases
<1>3. \A r \in AutomationRuns : Dated(r) => dueRun[r] \in Nat /\ ofRun[r] \in AutomationIds
  BY <1>1 DEF Dated, ActiveRunTypes
<1>4. clock \in Nat /\ \A a \in AutomationIds : plan[a].next \in Nat \cup {NoTime}
  BY <1>1 DEF AutomationRowTypes, Plan
<1>5. CASE TickReads
  <2>1. /\ UNCHANGED <<history, ofRun, dueRun, runner, plan, planned>>
        /\ tick'.pc = "advance" /\ tick'.now = clock
        /\ tick'.due = {CopyOf(a) : a \in {b \in AutomationIds : IsDue(b)}}
    BY <1>5 DEF TickReads
  <2>2. DatesPast' /\ DatesOnce' /\ NextIsAhead'
    BY <1>1, <1>2, <2>1 DEF DatesPast, DatesOnce, NextIsAhead, Dated
  <2>3. ASSUME NEW c \in tick'.due
        PROVE  /\ c.id \in planned /\ c.due = plan[c.id].next /\ c = CopyOf(c.id)
               /\ c.due \in Nat /\ c.due <= clock
    <3>1. PICK a \in AutomationIds : IsDue(a) /\ c = CopyOf(a)
      BY <2>1
    <3>2. c.id = a /\ c.due = plan[a].next
      BY <3>1 DEF CopyOf
    <3>. QED
      BY <1>4, <3>1, <3>2 DEF IsDue
  <2>4. \A c, d \in tick'.due : c.id = d.id => c = d
    BY <2>3, Zenon
  <2>5. \A c \in tick'.due, r \in AutomationRuns :
           (Dated(r)' /\ ofRun'[r] = c.id /\ c.id \notin late') => dueRun'[r] < c.due
    <3>1. AutomationAssumption
      BY AutomationAssumption
    <3>. QED
      BY <1>1, <1>2, <2>1, <2>3, <3>1 DEF NextIsAhead, Dated, AutomationAssumption
  <2>6. CopiesAreAhead'
    BY <1>2, <1>4, <2>1, <2>3, <2>4, <2>5 DEF CopiesAreAhead
  <2>. QED
    BY <2>2, <2>6 DEF Times
<1>6. CASE TickAdvances
  <2>1. PICK c \in tick.due :
           Advance(c) /\ tick' = [pc |-> "decide", due |-> tick.due, now |-> tick.now, at |-> c]
    BY <1>6 DEF TickAdvances
  <2>2. /\ tick.pc = "advance" /\ tick.now \in Nat /\ tick.now <= clock
        /\ c.id \in AutomationIds /\ c.every \in Nat \ {0} /\ c.due \in Nat /\ c.due <= tick.now
    <3>1. tick.pc = "advance" /\ c \in Copy /\ tick.now \in Nat
      BY <1>1, <1>6, TickShape DEF TickAdvances
    <3>. QED
      BY <1>1, <3>1, AutomationAssumption DEF CopiesAreAhead, Copy
  <2>3. PICK n \in Nat : /\ tick.now < n /\ NextRun(c.every, tick.now) = n
    BY <2>2, NextRunAhead
  <2>4. /\ UNCHANGED <<planned, history, ofRun, dueRun, runner>>
        /\ tick'.pc = "decide" /\ tick'.due = tick.due /\ tick'.now = tick.now /\ tick'.at = c
    BY <1>6, <2>1 DEF TickAdvances
  <2>5. /\ c.id \in planned => plan'[c.id].next = n
        /\ \A a \in AutomationIds \ {c.id} : plan'[a] = plan[a]
    BY <1>1, <2>1, <2>2, <2>3 DEF Advance, AutomationRowTypes, Plan
  <2>6. DatesPast' /\ DatesOnce'
    BY <1>1, <1>2, <2>2, <2>4 DEF DatesPast, DatesOnce, Dated
  <2>7. NextIsAhead'
    <3>1. ASSUME NEW r \in AutomationRuns, Dated(r), ofRun[r] \in planned \ late,
                 plan'[ofRun[r]].next # NoTime
          PROVE  dueRun[r] < plan'[ofRun[r]].next
      <4>1. CASE ofRun[r] = c.id
        <5>1. dueRun[r] <= tick.now /\ dueRun[r] \in Nat
          BY <1>1, <1>3, <2>2, <3>1 DEF DatesPast
        <5>. QED
          BY <2>2, <2>3, <2>5, <3>1, <4>1, <5>1
      <4>2. CASE ofRun[r] # c.id
        BY <1>1, <1>3, <2>5, <3>1, <4>2 DEF NextIsAhead
      <4>. QED
        BY <4>1, <4>2
    <3>. QED
      BY <1>2, <2>4, <3>1 DEF NextIsAhead, Dated
  <2>8. CopiesAreAhead'
    <3>1. (c.id \in planned /\ plan'[c.id].next # NoTime) => c.due < plan'[c.id].next
      BY <2>2, <2>3, <2>5
    <3>2. \A d \in tick.due, r \in AutomationRuns :
             (Dated(r)' /\ ofRun'[r] = d.id /\ d.id \notin late') => dueRun'[r] < d.due
      BY <1>1, <1>2, <2>2, <2>4 DEF CopiesAreAhead, Dated
    <3>3. /\ \A d \in tick.due : d.due \in Nat /\ d.due <= tick.now
          /\ \A d, e \in tick.due : d.id = e.id => d = e
      BY <1>1, <2>2 DEF CopiesAreAhead
    <3>. QED
      BY <1>2, <2>1, <2>2, <2>4, <3>1, <3>2, <3>3 DEF CopiesAreAhead
  <2>. QED
    BY <2>6, <2>7, <2>8 DEF Times
<1>7. CASE TickFails
  <2>1. UNCHANGED <<history, ofRun, dueRun, runner, plan, planned>> /\ tick'.pc = "idle"
    BY <1>7 DEF TickFails, Idle
  <2>. QED
    BY <1>1, <1>2, <1>4, <2>1, QuietTimes DEF Dated
<1>8. ASSUME NEW r \in AutomationRuns, NEW status, TickRecords(r, status), tick.pc \in {"decide", "failed"}
      PROVE  Times'
  <2>1. tick.at.id \in AutomationIds
    BY <1>1, <1>8, TickShape DEF Copy
  <2>2. /\ UNCHANGED <<clock, late, planned, plan, runner>> /\ TickGoesOn
        /\ ofRun'[r] = tick.at.id /\ dueRun'[r] = tick.at.due
        /\ \A s \in AutomationRuns \ {r} : /\ ofRun'[s] = ofRun[s] /\ dueRun'[s] = dueRun[s]
                                           /\ history'[s] = history[s]
    BY <1>1, <1>8, <2>1 DEF TickRecords, SaveRow, ActiveRunTypes, AutomationRowTypes
  <2>3. \A s \in AutomationRuns \ {r} : Dated(s)' => Dated(s) /\ ofRun'[s] = ofRun[s] /\ dueRun'[s] = dueRun[s]
    BY <2>2 DEF Dated
  <2>4. tick'.pc # "idle" => tick'.now = tick.now
    BY <2>2 DEF TickGoesOn, Idle
  <2>5. DatesPast' /\ DatesOnce' /\ NextIsAhead'
    BY <1>1, <1>8, <2>2, <2>3, <2>4, DatedTimes
  <2>6. CopiesAreAhead'
    BY <1>1, <1>8, <2>2, <2>3, GoesOnAhead
  <2>. QED
    BY <2>5, <2>6 DEF Times
<1>9. ASSUME NEW r \in AutomationRuns, TickTakes(r) PROVE Times'
  <2>1. tick.pc = "decide" /\ tick.at.id \in AutomationIds
    BY <1>1, <1>9, TickShape DEF Copy, TickTakes
  <2>2. /\ UNCHANGED <<clock, late, planned, plan, history>>
        /\ ofRun'[r] = tick.at.id /\ dueRun'[r] = tick.at.due
        /\ \A s \in AutomationRuns \ {r} : /\ ofRun'[s] = ofRun[s] /\ dueRun'[s] = dueRun[s]
                                           /\ runner'[s] = runner[s]
    BY <1>1, <1>9, <2>1 DEF TickTakes, Takes, ActiveRunTypes
  <2>3. \A s \in AutomationRuns \ {r} : Dated(s)' => Dated(s) /\ ofRun'[s] = ofRun[s] /\ dueRun'[s] = dueRun[s]
    BY <2>2 DEF Dated
  <2>4. /\ tick'.pc = "saving" /\ tick'.now = tick.now /\ tick'.due = tick.due
        /\ tick'.at = tick.at /\ tick'.run = r
    BY <1>9 DEF TickTakes
  <2>5. DatesPast' /\ DatesOnce' /\ NextIsAhead'
    BY <1>1, <2>1, <2>2, <2>3, <2>4, DatedTimes
  <2>6. \A c \in tick.due, s \in AutomationRuns :
           (Dated(s)' /\ ofRun'[s] = c.id /\ c.id \notin late') => dueRun'[s] < c.due \/ s = r
    BY <1>1, <2>1, <2>2, <2>3 DEF CopiesAreAhead
  <2>7. CopiesAreAhead'
    <3>1. /\ tick.now <= clock
          /\ \A d \in tick.due : d.due \in Nat /\ d.due <= tick.now
          /\ \A d, e \in tick.due : d.id = e.id => d = e
          /\ tick.at \in tick.due
          /\ (tick.at.id \in planned \ late /\ plan[tick.at.id].next # NoTime) =>
                tick.at.due < plan[tick.at.id].next
      BY <1>1, <2>1 DEF CopiesAreAhead
    <3>. QED
      BY <2>2, <2>4, <2>6, <3>1 DEF CopiesAreAhead
  <2>. QED
    BY <2>5, <2>7 DEF Times
<1>10. CASE TickSpawns
  <2>1. /\ tick.pc = "saving" /\ tick.run \in AutomationRuns /\ runner[tick.run] = "reserved"
        /\ ofRun[tick.run] = tick.at.id
    BY <1>1, <1>10, TickShape DEF TickSpawns, LaunchesHold
  <2>2. /\ UNCHANGED <<clock, late, planned, plan, ofRun, dueRun>> /\ TickGoesOn
        /\ \A s \in AutomationRuns \ {tick.run} : runner'[s] = runner[s] /\ history'[s] = history[s]
    BY <1>1, <1>10, <2>1 DEF TickSpawns, Spawns, SaveRow, ActiveRunTypes, AutomationRowTypes
  <2>3. \A s \in AutomationRuns : Dated(s)' => Dated(s)
    BY <2>1, <2>2 DEF Dated
  <2>4. tick'.pc # "idle" => tick'.now = tick.now
    BY <2>2 DEF TickGoesOn, Idle
  <2>5. DatesPast' /\ DatesOnce' /\ NextIsAhead'
    BY <1>1, <2>1, <2>2, <2>3, <2>4 DEF DatesPast, DatesOnce, NextIsAhead
  <2>6. CopiesAreAhead'
    BY <1>1, <2>1, <2>2, <2>3, GoesOnAhead
  <2>. QED
    BY <2>5, <2>6 DEF Times
<1>11. CASE TickReleases
  <2>1. /\ tick.pc = "saving" /\ tick.run \in AutomationRuns /\ runner[tick.run] = "reserved"
        /\ history[tick.run] = "none"
    BY <1>1, <1>11, TickShape DEF TickReleases, LaunchesHold, RowsKnown
  <2>2. /\ UNCHANGED <<clock, late, planned, plan, ofRun, dueRun, history>>
        /\ runner'[tick.run] = "none"
        /\ \A s \in AutomationRuns \ {tick.run} : runner'[s] = runner[s]
    BY <1>1, <1>11, <2>1 DEF TickReleases, Releases, ActiveRunTypes
  <2>3. \A s \in AutomationRuns : Dated(s)' => Dated(s) /\ s # tick.run
    BY <2>1, <2>2 DEF Dated
  <2>4. CASE tick' = Idle
    <3>1. tick'.pc = "idle"
      BY <2>4 DEF Idle
    <3>. QED
      BY <1>1, <1>2, <1>4, <2>2, <2>3, <3>1, QuietTimes
  <2>5. CASE tick' = [pc |-> "failed", due |-> tick.due, now |-> tick.now, at |-> tick.at]
    <3>1. tick'.pc = "failed" /\ tick'.due = tick.due /\ tick'.now = tick.now /\ tick'.at = tick.at
      BY <2>5
    <3>2. DatesPast' /\ DatesOnce' /\ NextIsAhead'
      BY <1>1, <2>1, <2>2, <2>3, <3>1 DEF DatesPast, DatesOnce, NextIsAhead
    <3>3. CopiesAreAhead'
      BY <1>1, <2>1, <2>2, <2>3, <3>1 DEF CopiesAreAhead
    <3>. QED
      BY <3>2, <3>3 DEF Times
  <2>. QED
    BY <1>11, <2>4, <2>5, Zenon DEF TickReleases
<1>12. ASSUME NEW r \in AutomationRuns, TickMisses(r) \/ TickSkips(r) \/ TickRecordsFailure(r)
       PROVE  Times'
  BY <1>8, <1>12 DEF TickMisses, TickSkips, TickRecordsFailure
<1>. QED
  BY <1>5, <1>6, <1>7, <1>9, <1>10, <1>11, <1>12 DEF TickNext

LEMMA RequestKeepsTimes ==
  ASSUME AutomationInv, AutomationTypes', NEW a \in AutomationIds, NEW p \in Periods,
         \/ EditReads(a, p) \/ ResumeReads(a) \/ ChangeWrites \/ PausePlan(a) \/ DeletePlan(a)
         \/ RunNowReads(a) \/ RunNowRefused \/ RunNowSaves
         \/ \E r \in AutomationRuns : RunNowTakes(r)
  PROVE  Times'
<1>. USE DEF NowUnchanged, planVars, rowVars, activeVars, requestVars, ghostVars
<1>1. /\ AutomationTypes /\ ActiveRunTypes /\ AutomationRowTypes /\ LaunchesHold /\ Times
  BY DEF AutomationInv, AutomationTypes
<1>2. tick' = tick /\ clock' = clock /\ clock \in Nat
  BY <1>1 DEF EditReads, ResumeReads, ChangeWrites, PausePlan, DeletePlan, RunNowReads, RunNowRefused,
         RunNowSaves, RunNowTakes, AutomationRowTypes
<1>3. CASE EditReads(a, p) \/ ResumeReads(a) \/ RunNowReads(a) \/ RunNowRefused
  <2>1. UNCHANGED <<history, ofRun, dueRun, runner, plan, planned, late>>
    BY <1>3 DEF EditReads, ResumeReads, RunNowReads, RunNowRefused
  <2>. QED
    BY <1>1, <1>2, <2>1, QuietTimes DEF Dated
<1>4. CASE ChangeWrites
  <2>1. /\ request.id \in AutomationIds /\ request.next \in Nat \cup {NoTime}
        /\ UNCHANGED <<history, ofRun, dueRun, runner, planned>> /\ late \subseteq late'
    BY <1>1, <1>4, RequestShape DEF ChangeWrites
  <2>2. \A b \in AutomationIds : b # request.id => plan'[b] = plan[b]
    BY <1>1, <1>4, <2>1 DEF ChangeWrites, AutomationRowTypes
  <2>3. request.id \in planned => plan'[request.id].next = request.next
    BY <1>1, <1>4, <2>1 DEF ChangeWrites, AutomationRowTypes
  <2>4. request.id \notin late' => request.next = NoTime \/ clock < request.next
    BY <1>2, <1>4, <2>1 DEF ChangeWrites
  <2>5. planned \subseteq AutomationIds
    BY <1>1 DEF AutomationRowTypes
  <2>6. \A b \in planned' \ late' : \/ plan'[b].next = plan[b].next
                                    \/ plan'[b].next = NoTime
                                    \/ clock < plan'[b].next
    BY <2>1, <2>2, <2>3, <2>4, <2>5
  <2>. QED
    BY <1>1, <1>2, <2>1, <2>6, QuietTimes DEF Dated
<1>5. CASE PausePlan(a)
  <2>1. /\ UNCHANGED <<history, ofRun, dueRun, runner, planned, late>>
        /\ \A b \in AutomationIds : plan'[b].next \in {plan[b].next, NoTime}
    BY <1>1, <1>5 DEF PausePlan, AutomationRowTypes, Plan
  <2>2. planned \subseteq AutomationIds
    BY <1>1 DEF AutomationRowTypes
  <2>. QED
    BY <1>1, <1>2, <2>1, <2>2, QuietTimes DEF Dated
<1>6. CASE DeletePlan(a)
  <2>1. /\ UNCHANGED <<ofRun, dueRun, runner, plan, late>> /\ planned' \subseteq planned
        /\ \A r \in AutomationRuns : history'[r] # "none" => history[r] # "none"
    BY <1>6 DEF DeletePlan
  <2>. QED
    BY <1>1, <1>2, <2>1, QuietTimes DEF Dated
<1>7. ASSUME NEW r \in AutomationRuns, RunNowTakes(r) PROVE Times'
  <2>1. request.at.id \in AutomationIds
    BY <1>1, <1>7, RequestShape DEF RunNowTakes, Copy
  <2>2. /\ UNCHANGED <<history, plan, planned, late>> /\ dueRun'[r] = NoTime
        /\ \A s \in AutomationRuns \ {r} : /\ ofRun'[s] = ofRun[s] /\ dueRun'[s] = dueRun[s]
                                           /\ runner'[s] = runner[s]
    BY <1>1, <1>7, <2>1 DEF RunNowTakes, Takes, ActiveRunTypes
  <2>3. \A s \in AutomationRuns : Dated(s)' => Dated(s) /\ ofRun'[s] = ofRun[s] /\ dueRun'[s] = dueRun[s]
    BY <2>2 DEF Dated
  <2>. QED
    BY <1>1, <1>2, <2>2, <2>3, QuietTimes
<1>8. CASE RunNowSaves
  <2>1. request.run \in AutomationRuns /\ dueRun[request.run] = NoTime
    BY <1>1, <1>8, RequestShape DEF RunNowSaves, LaunchesHold
  <2>2. /\ UNCHANGED <<ofRun, dueRun, plan, planned, late>>
        /\ \A s \in AutomationRuns \ {request.run} : history'[s] = history[s] /\ runner'[s] = runner[s]
    BY <1>1, <1>8, <2>1 DEF RunNowSaves, Spawns, Releases, SaveRow, ActiveRunTypes, AutomationRowTypes
  <2>3. \A s \in AutomationRuns : Dated(s)' => Dated(s)
    BY <2>1, <2>2 DEF Dated
  <2>. QED
    BY <1>1, <1>2, <2>2, <2>3, QuietTimes
<1>. QED
  BY <1>3, <1>4, <1>5, <1>6, <1>7, <1>8

LEMMA RunnerKeepsTimes ==
  ASSUME AutomationInv, AutomationTypes',
         \/ \E r \in AutomationRuns : RunnerNext(r)
         \/ \E a \in AutomationIds : StopRun(a)
         \/ Passes \/ AutomationsClose \/ CancelAllRuns \/ AutomationsRestart
  PROVE  Times'
<1>. USE DEF RunnerUnchanged, RunnerMoves, planVars, rowVars, activeVars, requestVars, ghostVars
<1>1. /\ AutomationTypes /\ ActiveRunTypes /\ AutomationRowTypes /\ RowsKnown /\ Times
  BY DEF AutomationInv, AutomationTypes
<1>2. UNCHANGED <<plan, planned, late, ofRun, dueRun>>
  BY DEF RunnerNext, RunnerFails, RunnerStarts, RunnerSees, RunnerRecords, RunnerEnds, StopRun, Passes,
         AutomationsClose, CancelAllRuns, AutomationsRestart
<1>3. clock <= clock' /\ (tick' = tick \/ tick'.pc = "idle")
  <2>1. clock \in Nat
    BY <1>1 DEF AutomationRowTypes
  <2>. QED
    BY <2>1 DEF RunnerNext, RunnerFails, RunnerStarts, RunnerSees, RunnerRecords, RunnerEnds, StopRun, Passes,
         AutomationsClose, CancelAllRuns, AutomationsRestart, Idle
<1>4. SUFFICES ASSUME NEW r \in AutomationRuns PROVE Dated(r)' => Dated(r)
  BY <1>1, <1>2, <1>3, QuietTimes
<1>5. ASSUME NEW s \in AutomationRuns, RunnerNext(s) PROVE Dated(r)' => Dated(r)
  <2>1. /\ runner[s] \in {"driving", "watching", "ending", "recorded"} /\ runner'[s] # "reserved"
        /\ r # s => runner'[r] = runner[r] /\ history'[r] = history[r]
    BY <1>1, <1>5 DEF RunnerNext, RunnerFails, RunnerStarts, RunnerSees, RunnerRecords, RunnerEnds, SaveRow,
                      ActiveRunTypes, AutomationRowTypes
  <2>. QED
    BY <1>1, <1>2, <2>1 DEF Dated, RowsKnown
<1>6. CASE (\E a \in AutomationIds : StopRun(a)) \/ Passes \/ AutomationsClose \/ CancelAllRuns
  BY <1>2, <1>6 DEF Dated, StopRun, Passes, AutomationsClose, CancelAllRuns
<1>7. CASE AutomationsRestart
  <2>1. /\ runner'[r] # "reserved"
        /\ history'[r] # "none" => history[r] # "none"
    BY <1>1, <1>7 DEF AutomationsRestart, RecoverRuns, AutomationRowTypes
  <2>. QED
    BY <1>2, <2>1 DEF Dated
<1>. QED
  BY <1>5, <1>6, <1>7

-----------------------------------------------------------------------------
(* The invariant and what it gives                                         *)

LEMMA AutomationNextInv == AutomationInv /\ [AutomationsNext]_automationVars => AutomationInv'
<1>. SUFFICES ASSUME AutomationInv, [AutomationsNext]_automationVars PROVE AutomationInv'
  OBVIOUS
<1>1. AutomationTypes
  BY DEF AutomationInv
<1>2. CASE UNCHANGED automationVars
  <2>. USE <1>2 DEF automationVars, rowVars, planVars, activeVars, requestVars, ghostVars
  <2>1. AutomationTypes'
    BY <1>1 DEF AutomationTypes, AutomationRowTypes, ActiveRunTypes, TickTypes, RequestTypes
  <2>2. Registered' /\ RowsKnown' /\ RowsTellRuns' /\ LaunchesHold'
    BY DEF AutomationInv, Registered, RowsKnown, RowsTellRuns, LaunchesHold, ActiveRun
  <2>3. Times'
    BY DEF AutomationInv, Times, DatesPast, DatesOnce, NextIsAhead, CopiesAreAhead, Dated
  <2>. QED
    BY <2>1, <2>2, <2>3 DEF AutomationInv
<1>3. CASE TickNext \/ TickSpawns \/ TickReleases
  BY <1>1, <1>3, TickTyped, TickKeepsRuns, TickKeepsTimes DEF AutomationInv, RunsKept
<1>4. ASSUME NEW a \in AutomationIds, NEW p \in Periods,
             \/ EditReads(a, p) \/ ResumeReads(a) \/ ChangeWrites \/ PausePlan(a) \/ DeletePlan(a)
             \/ RunNowReads(a) \/ RunNowRefused \/ RunNowSaves
             \/ \E r \in AutomationRuns : RunNowTakes(r)
      PROVE  AutomationInv'
  BY <1>1, <1>4, RequestTyped, RequestKeepsRuns, RequestKeepsTimes DEF AutomationInv, RunsKept
<1>5. CASE \/ \E r \in AutomationRuns : RunnerNext(r)
           \/ \E a \in AutomationIds : StopRun(a)
           \/ Passes \/ AutomationsClose \/ CancelAllRuns \/ AutomationsRestart
  BY <1>1, <1>5, RunnerTyped, RunnerKeepsRuns, RunnerKeepsTimes DEF AutomationInv, RunsKept
<1>6. \E a \in AutomationIds : \E p \in Periods : TRUE
  <2>1. PICK a \in AutomationIds : TRUE
    BY AutomationAssumption
  <2>2. plan[a].every \in Periods
    BY <1>1, <2>1 DEF AutomationTypes, AutomationRowTypes, Plan
  <2>. QED
    BY <2>1, <2>2
<1>. QED
  BY <1>2, <1>3, <1>4, <1>5, <1>6 DEF AutomationsNext, LaunchNext

\* The registry, the history, the workers and the times of every automation
\* keep the inductive invariant, from the first start to any restart.
THEOREM AutomationInvariant == AutomationsSpec => []AutomationInv
<1>. QED
  BY AutomationInitInv, AutomationNextInv, PTL DEF AutomationsSpec

\* One run of an automation goes at a time, however the tick, Run now, edits,
\* failed stores and restarts follow each other, and a row that says running
\* has a worker or a failed store behind it (launch_automation, save_run).
THEOREM RunsHold == AutomationsSpec => []RunsAgree
<1>1. AutomationInv => RunsAgree
  BY DEF AutomationInv, RunsAgree, OneRunEach, Registered
<1>. QED
  BY <1>1, AutomationInvariant, PTL

\* A scheduled time is recorded at most once, whatever the schedule, the
\* catch-up and the number of automations (automation_tick).
THEOREM TimesHold == AutomationsSpec => []TimesFireOnce
<1>1. AutomationInv => TimesFireOnce
  BY DEF AutomationInv, Times, DatesOnce, Dated, TimesFireOnce
<1>. QED
  BY <1>1, AutomationInvariant, PTL
=============================================================================
