-------------------------- MODULE Orchestrator_proofs --------------------------
(***************************************************************************)
(* Proved for every plan and every bound.                                  *)
(*                                                                         *)
(* With all the faults Orchestrator allows: its types; that a task is      *)
(* dispatched only when its dependencies are met in MAP.md at that very    *)
(* write; and that the session closes only on a plan that is DONE, but for *)
(* tasks whose file may not parse.                                         *)
(*                                                                         *)
(* For cycles that are not cut off and a session that answers each intent  *)
(* once (Orderly; README, section 4, says what happens else), with workers *)
(* given up at any startup: a task is DONE only on two APPROVEs, is        *)
(* BLOCKED only after all its repairs, and stays so; it has one live       *)
(* dispatch, and one more for each worker given up.  When guidance has no  *)
(* FAILING TASKS: line, nothing is left in EXECUTING, the loop, which      *)
(* writes one file at a time, implements ReviewPipeline, which moves a     *)
(* whole wave in a step, and in a wave under review no worker runs but     *)
(* those given up.  RInv is the invariant of all of it; SInv, WaveRests,   *)
(* OneWorker and Account are added for the last four.                      *)
(*                                                                         *)
(* And with cycles cut off wherever it may be, when no answer is repeated  *)
(* and guidance is free text: a task loses one repair at most for each of  *)
(* them.  There RInv is lost; Booked and Costs, an account of what every   *)
(* dispatch and every crash pays for, take its place.                      *)
(***************************************************************************)
EXTENDS Orchestrator, FiniteSetTheorems, WellFoundedInduction, TLAPS

-----------------------------------------------------------------------------
(* Types.                                                                  *)

LEMMA NoWorkType == NoWork \in Work
BY DEF NoWork, Work, TaskState

LEMMA FlipsType ==
  ASSUME NEW s \in TaskState, NEW T \in SUBSET Tasks
  PROVE  Flips(s, T) \in Work
BY DEF Flips, NoWork, Work

LEMMA TypeInit == Init => TypeOK
<1> SUFFICES ASSUME Init PROVE TypeOK
  OBVIOUS
<1>1. status \in [Tasks -> TaskState]
  BY DEF Init, TaskState
<1>2. regs \in [Tasks -> 0 .. MaxReviseRounds]
  BY BoundAssumption DEF Init, BoundAssumption
<1>3. \E S \in SUBSET Tasks : snap \in [S -> TaskState]
  <2>1. snap \in [{} -> TaskState]
    BY DEF Init, NoTasks
  <2>2. QED
    BY <2>1
<1>4. work \in Work
  BY NoWorkType DEF Init
<1>5. QED
  BY <1>1, <1>2, <1>3, <1>4 DEF Init, TypeOK

(* The disk writes.                                                        *)

LEMMA TypeFlip ==
  ASSUME TypeOK, NEW t \in Tasks, WriteFlip(t) PROVE TypeOK'
BY DEF TypeOK, WriteFlip, Work, world

LEMMA TypeFlag ==
  ASSUME TypeOK, NEW t \in Tasks, WriteFlag(t) PROVE TypeOK'
<1>1. work \in Work /\ regs \in [Tasks -> 0 .. MaxReviseRounds]
  BY DEF TypeOK
<1>2. CASE OverLimit(t)
  <2>1. work' = [work EXCEPT !.flag = @ \ {t}]
    BY <1>2 DEF WriteFlag
  <2>2. work' \in Work
    BY <1>1, <2>1 DEF Work
  <2>3. QED
    BY <1>2, <2>2 DEF WriteFlag, TypeOK, TaskState, world
<1>3. CASE ~ OverLimit(t)
  <2>1. regs[t] + 1 \in 0 .. MaxReviseRounds
    <3>1. regs[t] \in 0 .. MaxReviseRounds /\ MaxReviseRounds \in Nat
      BY <1>1, BoundAssumption DEF BoundAssumption
    <3>2. QED
      BY <1>3, <3>1 DEF OverLimit
  <2>2. regs' \in [Tasks -> 0 .. MaxReviseRounds]
    BY <1>1, <1>3, <2>1 DEF WriteFlag
  <2>3. work' = [work EXCEPT !.flag = @ \ {t}, !.to = "PENDING", !.flip = {t}]
    BY <1>3 DEF WriteFlag
  <2>4. work' \in Work
    BY <1>1, <2>3 DEF Work, TaskState
  <2>5. QED
    BY <1>3, <2>2, <2>4 DEF WriteFlag, TypeOK, world
<1>4. QED
  BY <1>2, <1>3

LEMMA TypeIntent ==
  ASSUME TypeOK, NEW d \in work.enq, WriteIntent(d) PROVE TypeOK'
<1> USE DEF TypeOK, world
<1>1. d \in Draft
  BY DEF Work
<1>2. intents' \subseteq Intent
  BY <1>1 DEF WriteIntent, Draft, Intent
<1>3. work' \in Work
  BY DEF WriteIntent, Work
<1>4. QED
  BY <1>2, <1>3 DEF WriteIntent

LEMMA TypeMark ==
  ASSUME TypeOK, NEW r \in work.mark, MarkApplied(r) PROVE TypeOK'
<1> USE DEF TypeOK, world
<1>1. r \in Result
  BY DEF Work
<1>2. work' \in Work
  BY DEF MarkApplied, Work
<1>3. QED
  BY <1>1, <1>2 DEF MarkApplied

(* The stages.                                                             *)

LEMMA TypeExit ==
  ASSUME TypeOK, Exit, UNCHANGED <<files, broken, hold, heals>>,
         closed' \in BOOLEAN, crashes' \in Nat
  PROVE  TypeOK'
<1>1. snap' \in [{} -> TaskState]
  BY DEF Exit, NoTasks
<1>2. \E S \in SUBSET Tasks : snap' \in [S -> TaskState]
  BY <1>1
<1>3. work' \in Work
  BY NoWorkType DEF Exit
<1>4. pc' \in {"idle"} /\ pend' = {} /\ dirty' = FALSE
  BY DEF Exit
<1>5. QED
  BY <1>2, <1>3, <1>4 DEF TypeOK, files

LEMMA TypeHeal == ASSUME TypeOK, HealStale PROVE TypeOK'
<1>1. PICK stale \in SUBSET {t \in Tasks : MayBeStale(t)} :
        /\ heals' = [t \in Tasks |-> IF t \in stale THEN heals[t] + 1 ELSE heals[t]]
        /\ work' = Flips("PENDING", stale)
  BY DEF HealStale
<1>2. work' \in Work
  BY <1>1, FlipsType DEF TaskState
<1>3. heals' \in [Tasks -> Nat]
  BY <1>1 DEF TypeOK
<1>4. QED
  BY <1>2, <1>3 DEF HealStale, TypeOK, files

LEMMA ReadType == ASSUME TypeOK PROVE Read \in [Tasks \ broken -> TaskState]
BY DEF TypeOK, Read

LEMMA TypeRead == ASSUME TypeOK, ReadState PROVE TypeOK'
<1>1. \E S \in SUBSET Tasks : snap' \in [S -> TaskState]
  BY ReadType DEF ReadState
<1>2. work' \in Work
  BY NoWorkType DEF ReadState
<1>3. QED
  BY <1>1, <1>2 DEF ReadState, TypeOK, files, world

LEMMA TypeWorker ==
  ASSUME TypeOK, NEW r \in pend, ApplyWorkerResult(r) PROVE TypeOK'
<1>1. r \in Result /\ r.of.paths \subseteq Tasks
  BY DEF TypeOK, Result, Intent
<1>2. work' \in Work
  <2>1. PICK t \in r.of.paths :
          \/ work' = [Flips(IF r.ans.verdict = "ok" THEN "REVIEW" ELSE "FAILED", {t})
                        EXCEPT !.mark = {r}]
          \/ UNCHANGED work
    BY DEF ApplyWorkerResult
  <2>2. Flips(IF r.ans.verdict = "ok" THEN "REVIEW" ELSE "FAILED", {t}) \in Work
    BY <1>1, FlipsType DEF TaskState
  <2>3. work \in Work
    BY DEF TypeOK
  <2>4. CASE UNCHANGED work
    BY <2>3, <2>4
  <2>5. CASE work' = [Flips(IF r.ans.verdict = "ok" THEN "REVIEW" ELSE "FAILED", {t})
                        EXCEPT !.mark = {r}]
    BY <1>1, <2>2, <2>5 DEF Work
  <2>6. QED
    BY <2>1, <2>4, <2>5
<1>3. QED
  BY <1>2 DEF ApplyWorkerResult, TypeOK, files, world

LEMMA BatchType ==
  ASSUME TypeOK, NEW r \in pend, NEW q \in pend
  PROVE  Batch(r, q) \subseteq Tasks /\ r \in Result /\ q \in Result
BY DEF TypeOK, Result, Intent, Batch

LEMMA TypePair ==
  ASSUME TypeOK, NEW r \in pend, NEW q \in pend,
         \/ ApplyPairUnknown(r, q) \/ ApplyPairError(r, q)
         \/ ApplyPairApprove(r, q) \/ ApplyPairRevise(r, q)
  PROVE  TypeOK'
<1>1. Pair(r, q)
  BY DEF ApplyPairUnknown, ApplyPairError, ApplyPairApprove, ApplyPairRevise
<1>2. work' \in Work
  <2>1. CASE ApplyPairUnknown(r, q)
    BY <2>1 DEF ApplyPairUnknown, TypeOK
  <2>2. CASE ApplyPairError(r, q)
    <3>1. Flips("REVIEW", Batch(r, q)) \in Work
      BY BatchType, FlipsType DEF TaskState
    <3>2. QED
      BY <2>2, <3>1, BatchType DEF ApplyPairError, Work
  <2>3. CASE ApplyPairApprove(r, q)
    <3>1. Flips("DONE", Batch(r, q)) \in Work
      BY BatchType, FlipsType DEF TaskState
    <3>2. QED
      BY <2>3, <3>1, BatchType DEF ApplyPairApprove, Work
  <2>4. CASE ApplyPairRevise(r, q)
    <3>1. Restored(r, q) \subseteq Tasks
      BY BatchType DEF Restored
    <3>2. OrAll(FlaggedCombined(r, q), Batch(r, q)) \subseteq Tasks
      BY BatchType DEF OrAll, FlaggedCombined
    <3>3. Flips("REVIEW", Restored(r, q)) \in Work
      BY <3>1, FlipsType DEF TaskState
    <3>4. QED
      BY <2>4, <3>2, <3>3, BatchType DEF ApplyPairRevise, Work
  <2>5. QED
    BY <2>1, <2>2, <2>3, <2>4
<1>3. QED
  BY <1>1, <1>2 DEF Pair, TypeOK, files, world

LEMMA TypeReRead == ASSUME TypeOK, PairsApplied PROVE TypeOK'
<1>1. \E S \in SUBSET Tasks : snap' \in [S -> TaskState]
  BY ReadType DEF PairsApplied, ReRead, TypeOK
<1>2. work' \in Work
  BY NoWorkType DEF PairsApplied
<1>3. QED
  BY <1>1, <1>2 DEF PairsApplied, TypeOK, files, world

(* What the cascade names is a set of tasks of the list it was given.      *)
LEMMA DecidedTasks == Decision.tasks \subseteq DOMAIN snap
BY DEF Decision, Decide, Action, With, EarliestReview, Ready, Checkpoint, Confirmable

LEMMA TypeDispatch ==
  ASSUME TypeOK, DispatchWave \/ DispatchAdvisor PROVE TypeOK'
<1>1. Decision.tasks \subseteq Tasks
  BY DecidedTasks DEF TypeOK
<1>2. work' \in Work /\ pc' = "act"
  <2>1. CASE DispatchWave
    <3>1. {WorkerDraft(t) : t \in Decision.tasks} \subseteq Draft
      BY <1>1 DEF WorkerDraft, Draft
    <3>2. Flips("IN_PROGRESS", Decision.tasks) \in Work
      BY <1>1, FlipsType DEF TaskState
    <3>3. QED
      BY <2>1, <3>1, <3>2 DEF DispatchWave, StartWrites, Work
  <2>2. CASE DispatchAdvisor
    <3>1. ScannerPair(Decision.tasks) \subseteq Draft
      BY <1>1 DEF ScannerPair, Shard, Draft
    <3>2. Flips("EXECUTING", Decision.tasks) \in Work
      BY <1>1, FlipsType DEF TaskState
    <3>3. QED
      BY <2>2, <3>1, <3>2 DEF DispatchAdvisor, StartWrites, Work
  <2>3. QED
    BY <2>1, <2>2
<1>3. QED
  BY <1>2 DEF DispatchWave, DispatchAdvisor, TypeOK, files, world

LEMMA TypeSession ==
  ASSUME TypeOK, NEW i \in intents, SessionAnswers(i) PROVE TypeOK'
<1>1. PICK a \in AnswersTo(i) : results' = results \cup {[of |-> i, ans |-> a]}
  BY DEF SessionAnswers
<1>2. i \in Intent
  BY DEF TypeOK
<1>3. a \in Answer
  <2>1. {Plain("ok"), Plain("error")} \subseteq Answer
    BY DEF Plain, Answer
  <2>2. i.key \subseteq Tasks /\ ExplicitLines \subseteq BOOLEAN
    BY <1>2, BoundAssumption DEF Intent, BoundAssumption
  <2>3. [verdict : {"revise"}, flagged : SUBSET i.key, explicit : ExplicitLines]
          \subseteq Answer
    BY <2>2 DEF Answer
  <2>4. QED
    BY <2>1, <2>3 DEF AnswersTo
<1>4. results' \subseteq Result
  BY <1>1, <1>2, <1>3 DEF TypeOK, Result
<1>5. QED
  BY <1>4 DEF SessionAnswers, TypeOK, locals, world

LEMMA TypeStep == TypeOK /\ [Next]_vars => TypeOK'
<1> SUFFICES ASSUME TypeOK, [Next]_vars PROVE TypeOK'
  OBVIOUS
<1>1. CASE Write
  BY <1>1, TypeFlip, TypeFlag, TypeIntent, TypeMark DEF Write
<1>2. CASE HealStale \/ ReadState \/ PairsApplied \/ DispatchWave \/ DispatchAdvisor
  BY <1>2, TypeHeal, TypeRead, TypeReRead, TypeDispatch
<1>3. CASE StartupFails \/ SkipHeld \/ NothingToDo \/ ActionTaken \/ CloseSession \/ Crash
  <2>1. /\ Exit /\ UNCHANGED <<files, broken, hold, heals>>
        /\ closed' \in BOOLEAN /\ crashes' \in Nat
    BY <1>3 DEF StartupFails, SkipHeld, NothingToDo, ActionTaken, CloseSession, Crash,
                TypeOK, world
  <2>2. QED
    BY <2>1, TypeExit
<1>4. CASE \E r \in pend : ApplyWorkerResult(r)
  BY <1>4, TypeWorker
<1>5. CASE StatesCompared \/ WorkersApplied
  BY <1>5, NoWorkType DEF StatesCompared, WorkersApplied, TypeOK, files, world
<1>6. CASE ApplyPair
  BY <1>6, TypePair DEF ApplyPair
<1>7. CASE AllDone
  BY <1>7, NoWorkType DEF AllDone, TypeOK, files, world
<1>8. CASE Session
  BY <1>8, TypeSession DEF Session
<1>9. CASE UserHolds
  BY <1>9 DEF UserHolds, TypeOK, files, locals
<1>10. CASE \E t \in Tasks : TaskFileEdited(t)
  BY <1>10, BoundAssumption DEF TaskFileEdited, TypeOK, files, locals, BoundAssumption
<1>11. CASE UNCHANGED vars
  BY <1>11 DEF TypeOK, vars, files, locals, world
<1>12. QED
  BY <1>1, <1>2, <1>3, <1>4, <1>5, <1>6, <1>7, <1>8, <1>9, <1>10, <1>11
     DEF Next, Cycle, Closed

(* Every variable keeps its type, in particular no task ever has more      *)
(* REVISE entries than MAX_REVISE_ROUNDS (_revise_wave_batch), whatever    *)
(* crashes, late answers and stale heartbeats do.                          *)
THEOREM TypesHold == Spec => []TypeOK
BY TypeInit, TypeStep, PTL DEF Spec

-----------------------------------------------------------------------------
(* Dispatch.  The decision is taken on the cycle's task list, and the      *)
(* flips to IN_PROGRESS come later; what links them is that MAP.md is then *)
(* written by nobody else.                                                 *)

Agrees == \A t \in DOMAIN snap : snap[t] = status[t]

Idle == work.flip = {} /\ work.flag = {} /\ work.mark = {}

(* While results are applied, the list is MAP.md unless something was      *)
(* written since; then results are still to be marked, or dirty is set.    *)
ListInSync ==
  pc \in {"workers", "pairs"} /\ ~ dirty /\ work.mark = {} => Idle /\ Agrees

DecidesInSync == pc = "decide" => Idle /\ Agrees

(* Only the writes of a dispatch start tasks.                              *)
StartsOnlyInAct ==
  /\ work.to = "IN_PROGRESS" => pc = "act"
  /\ pc = "act" => work.flag = {} /\ work.mark = {}

Startable(t) ==
  /\ status[t] = "PENDING"
  /\ \A d \in Deps[t] :
       status[d] = "DONE" \/ (status[d] = "REVIEW" /\ Wave[d] = Wave[t])

StartsStartable == work.to = "IN_PROGRESS" => \A t \in work.flip : Startable(t)

DInv == ListInSync /\ DecidesInSync /\ StartsOnlyInAct /\ StartsStartable

LEMMA DispatchInit == Init => DInv
BY DEF Init, DInv, ListInSync, DecidesInSync, StartsOnlyInAct, StartsStartable,
       NoWork

LEMMA DispatchFlip ==
  ASSUME TypeOK, DInv, NEW t \in Tasks, WriteFlip(t) PROVE DInv'
<1> USE DEF DInv, WriteFlip
<1>1. /\ work' = [work EXCEPT !.flip = @ \ {t}] /\ work \in Work
      /\ status' = [status EXCEPT ![t] = work.to] /\ status \in [Tasks -> TaskState]
  BY DEF TypeOK
<1>2. /\ work'.to = work.to /\ work'.flag = work.flag /\ work'.mark = work.mark
      /\ work'.flip = work.flip \ {t}
  BY <1>1 DEF Work
<1>3. ListInSync'
  BY <1>2 DEF ListInSync, Idle
<1>4. DecidesInSync'
  BY <1>2 DEF DecidesInSync, Idle
<1>5. StartsOnlyInAct'
  BY <1>2 DEF StartsOnlyInAct
<1>6. StartsStartable'
  <2> SUFFICES ASSUME work.to = "IN_PROGRESS", NEW u \in work.flip \ {t}
               PROVE  Startable(u)'
    BY <1>2 DEF StartsStartable
  <2>1. Startable(t) /\ Startable(u)
    BY DEF StartsStartable
  <2>2. \A v \in Tasks : v # t => status'[v] = status[v]
    BY <1>1
  <2>3. u \in Tasks /\ Deps[u] \subseteq Tasks
    BY <1>1, PlanAssumption DEF Work, PlanAssumption
  <2>4. QED
    BY <2>1, <2>2, <2>3 DEF Startable
<1>7. QED
  BY <1>3, <1>4, <1>5, <1>6

LEMMA DispatchFlag ==
  ASSUME TypeOK, DInv, NEW t \in Tasks, WriteFlag(t) PROVE DInv'
<1>1. pc' = pc /\ dirty' = dirty /\ work.flag # {} /\ work.flip = {}
  BY DEF WriteFlag
<1>2. /\ pc # "act" /\ pc # "decide"
      /\ pc \in {"workers", "pairs"} /\ ~ dirty => work.mark # {}
  BY <1>1 DEF DInv, ListInSync, DecidesInSync, StartsOnlyInAct, Idle
<1>3. work' = [work EXCEPT !.flag = @ \ {t}]
        \/ work' = [work EXCEPT !.flag = @ \ {t}, !.to = "PENDING", !.flip = {t}]
  BY DEF WriteFlag
<1>4. work \in Work
  BY DEF TypeOK
<1>5. work'.mark = work.mark /\ work'.to \in {work.to, "PENDING"}
  BY <1>3, <1>4 DEF Work
<1>6. work.to # "IN_PROGRESS" /\ work'.to # "IN_PROGRESS"
  BY <1>2, <1>5 DEF DInv, StartsOnlyInAct
<1>7. QED
  BY <1>1, <1>2, <1>5, <1>6
     DEF DInv, ListInSync, DecidesInSync, StartsOnlyInAct, StartsStartable

LEMMA DispatchIntent ==
  ASSUME TypeOK, DInv, NEW d \in work.enq, WriteIntent(d) PROVE DInv'
<1>1. work' = [work EXCEPT !.enq = @ \ {d}] /\ work \in Work
  BY DEF WriteIntent, TypeOK
<1>2. /\ work'.to = work.to /\ work'.flag = work.flag /\ work'.mark = work.mark
      /\ work'.flip = work.flip
  BY <1>1 DEF Work
<1>3. QED
  BY <1>2 DEF WriteIntent, DInv, ListInSync, DecidesInSync, StartsOnlyInAct,
              StartsStartable, Startable, Idle, Agrees

LEMMA DispatchMark ==
  ASSUME TypeOK, DInv, NEW r \in work.mark, MarkApplied(r) PROVE DInv'
<1>1. work' = [work EXCEPT !.mark = @ \ {r}] /\ work \in Work /\ dirty' = TRUE
  BY DEF MarkApplied, TypeOK
<1>2. work'.to = work.to /\ pc' = pc
  BY <1>1 DEF MarkApplied, Work
<1>3. pc # "act" /\ pc # "decide"
  BY DEF DInv, StartsOnlyInAct, DecidesInSync, Idle
<1>4. QED
  BY <1>1, <1>2, <1>3 DEF DInv, ListInSync, DecidesInSync, StartsOnlyInAct, StartsStartable

(* A stage that ends the cycle, or leaves only harmless work behind it.    *)
LEMMA DispatchHarmless ==
  ASSUME work'.to # "IN_PROGRESS", pc' \notin {"workers", "pairs", "decide", "act"}
  PROVE  DInv'
BY DEF DInv, ListInSync, DecidesInSync, StartsOnlyInAct, StartsStartable

(* What the cascade dispatches is PENDING with its dependencies met.       *)
LEMMA ReadyIsStartable ==
  ASSUME TypeOK, Agrees, Decision.kind = "dispatch_wave", NEW t \in Decision.tasks
  PROVE  Startable(t)
<1>1. Decision.tasks = Ready(snap)
  BY DEF Decision, Decide, Action
<1>2. t \in DOMAIN snap /\ snap[t] = "PENDING" /\ DepsSatisfied(snap, t)
  BY <1>1 DEF Ready, With
<1>3. QED
  BY <1>2 DEF Startable, DepsSatisfied, Agrees

LEMMA DispatchStep == TypeOK /\ DInv /\ [Next]_vars => DInv'
<1> SUFFICES ASSUME TypeOK, DInv, [Next]_vars PROVE DInv'
  OBVIOUS
<1>1. CASE Write
  BY <1>1, DispatchFlip, DispatchFlag, DispatchIntent, DispatchMark DEF Write
<1>2. CASE HealStale
  BY <1>2, DispatchHarmless DEF HealStale, Flips, NoWork
<1>3. CASE StartupFails \/ SkipHeld \/ NothingToDo \/ ActionTaken \/ CloseSession \/ Crash
  <2>1. Exit
    BY <1>3 DEF StartupFails, SkipHeld, NothingToDo, ActionTaken, CloseSession, Crash
  <2>2. QED
    BY <2>1, DispatchHarmless DEF Exit, NoWork
<1>4. CASE ReadState
  <2>1. Agrees'
    BY <1>4 DEF ReadState, Read, files, Agrees
  <2>2. work' = NoWork /\ pc' = "workers"
    BY <1>4 DEF ReadState
  <2>3. QED
    BY <2>1, <2>2 DEF NoWork, Idle, DInv, ListInSync, DecidesInSync,
                      StartsOnlyInAct, StartsStartable
<1>5. CASE \E r \in pend : ApplyWorkerResult(r)
  <2>1. PICK r \in pend : ApplyWorkerResult(r)
    BY <1>5
  <2>2. pc = "workers" /\ UNCHANGED <<files, pc, snap, dirty>>
    BY <2>1 DEF ApplyWorkerResult
  <2>3. CASE UNCHANGED work
    BY <2>2, <2>3 DEF files, DInv, ListInSync, DecidesInSync, StartsOnlyInAct,
                      StartsStartable, Startable, Idle, Agrees
  <2>4. CASE work'.mark = {r} /\ work'.to \in {"REVIEW", "FAILED"}
    BY <2>2, <2>4 DEF DInv, ListInSync, DecidesInSync, StartsOnlyInAct, StartsStartable
  <2>5. QED
    BY <2>1, <2>3, <2>4 DEF ApplyWorkerResult, Flips, NoWork
<1>6. CASE WorkersApplied
  <2>1. /\ pc = "workers" /\ pc' = "pairs" /\ work' = NoWork /\ AtRest
        /\ UNCHANGED <<files, snap, dirty>>
    BY <1>6 DEF WorkersApplied
  <2>2. QED
    BY <2>1 DEF AtRest, NoWork, files, DInv, ListInSync, DecidesInSync,
                StartsOnlyInAct, StartsStartable, Idle, Agrees
<1>7. CASE ApplyPair
  <2>1. PICK r \in pend, q \in pend :
          \/ ApplyPairUnknown(r, q) \/ ApplyPairError(r, q)
          \/ ApplyPairApprove(r, q) \/ ApplyPairRevise(r, q)
    BY <1>7 DEF ApplyPair
  <2>2. pc = "pairs" /\ UNCHANGED <<files, pc, snap, dirty>>
    BY <2>1 DEF ApplyPairUnknown, ApplyPairError, ApplyPairApprove, ApplyPairRevise, Pair
  <2>3. CASE UNCHANGED work
    BY <2>2, <2>3 DEF files, DInv, ListInSync, DecidesInSync, StartsOnlyInAct,
                      StartsStartable, Startable, Idle, Agrees
  <2>4. CASE work'.mark = {r, q} /\ work'.to \in {"REVIEW", "DONE"}
    BY <2>2, <2>4 DEF DInv, ListInSync, DecidesInSync, StartsOnlyInAct, StartsStartable
  <2>5. QED
    BY <2>1, <2>3, <2>4
       DEF ApplyPairUnknown, ApplyPairError, ApplyPairApprove, ApplyPairRevise,
           Flips, NoWork
<1>8. CASE PairsApplied
  <2>1. /\ pc = "pairs" /\ AtRest /\ snap' = ReRead /\ UNCHANGED files
        /\ work' = NoWork /\ pc' = "decide"
    BY <1>8 DEF PairsApplied
  <2>2. Agrees'
    BY <2>1 DEF ReRead, Read, files, AtRest, DInv, ListInSync, Agrees
  <2>3. QED
    BY <2>1, <2>2 DEF NoWork, Idle, DInv, ListInSync, DecidesInSync,
                      StartsOnlyInAct, StartsStartable
<1>9. CASE DispatchWave
  <2>1. /\ pc = "decide" /\ Decision.kind = "dispatch_wave" /\ UNCHANGED files
        /\ pc' = "act"
        /\ work' = [Flips("IN_PROGRESS", Decision.tasks) EXCEPT
                      !.enq = {WorkerDraft(t) : t \in Decision.tasks}]
    BY <1>9 DEF DispatchWave, StartWrites
  <2>2. /\ work'.to = "IN_PROGRESS" /\ work'.flip = Decision.tasks
        /\ work'.flag = {} /\ work'.mark = {}
    BY <2>1 DEF Flips, NoWork
  <2>3. \A t \in Decision.tasks : Startable(t)
    BY <2>1, ReadyIsStartable DEF DInv, DecidesInSync
  <2>4. QED
    BY <2>1, <2>2, <2>3 DEF files, DInv, ListInSync, DecidesInSync,
                            StartsOnlyInAct, StartsStartable, Startable
<1>10. CASE DispatchAdvisor
  <2>1. /\ pc' = "act"
        /\ work' = [Flips("EXECUTING", Decision.tasks) EXCEPT
                      !.enq = ScannerPair(Decision.tasks)]
    BY <1>10 DEF DispatchAdvisor, StartWrites
  <2>2. work'.to = "EXECUTING" /\ work'.flag = {} /\ work'.mark = {}
    BY <2>1 DEF Flips, NoWork
  <2>3. QED
    BY <2>1, <2>2 DEF DInv, ListInSync, DecidesInSync, StartsOnlyInAct, StartsStartable
<1>11. CASE StatesCompared \/ AllDone
  BY <1>11, DispatchHarmless DEF StatesCompared, AllDone, NoWork
<1>12. CASE Session \/ UserHolds \/ (\E t \in Tasks : TaskFileEdited(t))
            \/ UNCHANGED vars
  <2>1. UNCHANGED <<status, locals>>
    BY <1>12 DEF Session, SessionAnswers, UserHolds, TaskFileEdited, vars, files
  <2>2. QED
    BY <2>1 DEF locals, DInv, ListInSync, DecidesInSync, StartsOnlyInAct,
                StartsStartable, Startable, Idle, Agrees
<1>13. QED
  BY <1>1, <1>2, <1>3, <1>4, <1>5, <1>6, <1>7, <1>8, <1>9, <1>10, <1>11, <1>12
     DEF Next, Cycle, Closed

(* Only a status write changes MAP.md, and what it starts is startable.    *)
LEMMA DispatchAction ==
  ASSUME TypeOK, DInv, [Next]_vars,
         NEW t \in Tasks, status[t] # "IN_PROGRESS", status'[t] = "IN_PROGRESS"
  PROVE  Startable(t)
<1>1. CASE \E u \in Tasks : WriteFlip(u)
  <2>1. PICK u \in Tasks : WriteFlip(u)
    BY <1>1
  <2>2. u = t /\ work.to = "IN_PROGRESS" /\ t \in work.flip
    BY <2>1 DEF WriteFlip, TypeOK
  <2>3. QED
    BY <2>2 DEF DInv, StartsStartable
<1>2. CASE \E u \in Tasks : WriteFlag(u)
  BY <1>2 DEF WriteFlag, TypeOK
<1>3. CASE UNCHANGED status
  BY <1>3
<1>4. QED
  BY <1>1, <1>2, <1>3
     DEF Next, Write, WriteIntent, MarkApplied, Cycle, HealStale, StartupFails,
         StatesCompared, SkipHeld, ReadState, ApplyWorkerResult, WorkersApplied, ApplyPair, ApplyPairUnknown,
         ApplyPairError, ApplyPairApprove, ApplyPairRevise, Pair, PairsApplied,
         DispatchWave, DispatchAdvisor, AllDone, NothingToDo, ActionTaken,
         CloseSession, Crash, Session, SessionAnswers, UserHolds, TaskFileEdited,
         Closed, vars, files

(* Whatever crashes, edits, late answers and pauses do, a task goes to     *)
(* IN_PROGRESS only from PENDING and only while its dependencies are met   *)
(* in MAP.md (_find_ready_tasks, _handle_dispatch_wave).                   *)
THEOREM DispatchIsSafe == Spec => DispatchRespectsDeps
<1>1. TypeOK /\ DInv /\ [Next]_vars =>
        [\A t \in Tasks :
           status[t] # "IN_PROGRESS" /\ status'[t] = "IN_PROGRESS" =>
             /\ status[t] = "PENDING"
             /\ \A d \in Deps[t] :
                  status[d] = "DONE" \/ (status[d] = "REVIEW" /\ Wave[d] = Wave[t])]_vars
  BY DispatchAction DEF Startable
<1>2. QED
  BY TypeInit, TypeStep, DispatchInit, DispatchStep, <1>1, PTL
     DEF Spec, DispatchRespectsDeps

-----------------------------------------------------------------------------
(* Closing, for the tasks whose files always parse.                        *)

AllTasksDone == \A t \in Tasks \ Breakable : status[t] = "DONE"

Whole ==
  /\ broken \subseteq Breakable
  /\ pc \in {"workers", "pairs", "decide"} => Tasks \ Breakable \subseteq DOMAIN snap

RestsIdle == pc \in {"idle", "close"} => Idle

ClosesDone == pc = "close" \/ closed => AllTasksDone

ClosedRests == closed => pc = "idle"

CInv == Whole /\ RestsIdle /\ ClosesDone /\ ClosedRests

LEMMA CloseInit == Init => CInv
BY DEF Init, CInv, Whole, RestsIdle, ClosesDone, ClosedRests, Idle, NoWork

(* The cascade answers all_done only when every task it was given is DONE. *)
LEMMA AllDoneMeansDone ==
  ASSUME Decision.kind = "all_done" PROVE \A t \in DOMAIN snap : snap[t] = "DONE"
<1>1. With(snap, "DONE") = DOMAIN snap
  BY DEF Decision, Decide, EveryDone, Action
<1>2. QED
  BY <1>1 DEF With

LEMMA CloseWrite == ASSUME TypeOK, CInv, Write PROVE CInv'
<1>1. pc \notin {"idle", "close"} \/ (work.flip = {} /\ work.flag = {} /\ work.mark = {})
  BY DEF CInv, RestsIdle, Idle
<1>2. CASE pc \in {"idle", "close"}
  <2>1. PICK d \in work.enq : WriteIntent(d)
    BY <1>1, <1>2 DEF Write, WriteFlip, WriteFlag
  <2>2. work' = [work EXCEPT !.enq = @ \ {d}] /\ work \in Work
    BY <2>1 DEF WriteIntent, TypeOK
  <2>3. work'.flip = work.flip /\ work'.flag = work.flag /\ work'.mark = work.mark
    BY <2>2 DEF Work
  <2>4. QED
    BY <1>2, <2>1, <2>3 DEF WriteIntent, CInv, Whole, RestsIdle, ClosesDone,
                            ClosedRests, AllTasksDone, Idle, world
<1>3. CASE pc \notin {"idle", "close"}
  <2>1. UNCHANGED <<pc, snap, world>>
    BY DEF Write, WriteFlip, WriteFlag, WriteIntent, MarkApplied
  <2>2. QED
    BY <1>3, <2>1 DEF CInv, Whole, RestsIdle, ClosesDone, ClosedRests, world
<1>4. QED
  BY <1>2, <1>3

LEMMA CloseStep ==
  ASSUME TypeOK, DInv, CInv, [Next]_vars PROVE CInv'
<1>1. CASE Write
  BY <1>1, CloseWrite
<1>2. CASE HealStale
  BY <1>2 DEF HealStale, files, CInv, Whole, RestsIdle, ClosesDone, ClosedRests
<1>3. CASE StartupFails \/ SkipHeld \/ NothingToDo \/ ActionTaken \/ Crash
  <2>1. /\ pc # "idle" /\ pc' = "idle" /\ work' = NoWork
        /\ UNCHANGED <<status, broken, closed>>
    BY <1>3 DEF StartupFails, SkipHeld, NothingToDo, ActionTaken, Crash, Exit, files, world
  <2>2. QED
    BY <2>1 DEF NoWork, Idle, CInv, Whole, RestsIdle, ClosesDone, ClosedRests,
                AllTasksDone
<1>4. CASE CloseSession
  <2>1. pc = "close" /\ pc' = "idle" /\ work' = NoWork /\ UNCHANGED <<status, broken>>
    BY <1>4 DEF CloseSession, Exit, files
  <2>2. QED
    BY <2>1 DEF NoWork, Idle, CInv, Whole, RestsIdle, ClosesDone, ClosedRests,
                AllTasksDone
<1>5. CASE StatesCompared \/ ReadState \/ WorkersApplied \/ PairsApplied
           \/ DispatchWave \/ DispatchAdvisor
  <2>1. /\ pc \notin {"idle", "close"} /\ pc' \notin {"idle", "close"}
        /\ UNCHANGED <<broken, closed>>
    BY <1>5 DEF StatesCompared, ReadState, WorkersApplied, PairsApplied,
                DispatchWave, DispatchAdvisor, StartWrites, world
  <2>2. pc' \in {"workers", "pairs", "decide"} => Tasks \ Breakable \subseteq DOMAIN snap'
    BY <1>5 DEF StatesCompared, ReadState, WorkersApplied, PairsApplied,
                DispatchWave, DispatchAdvisor, StartWrites, ReRead, Read, CInv, Whole
  <2>3. QED
    BY <2>1, <2>2 DEF CInv, Whole, RestsIdle, ClosesDone, ClosedRests
<1>6. CASE (\E r \in pend : ApplyWorkerResult(r)) \/ ApplyPair
  <2>1. pc \in {"workers", "pairs"} /\ UNCHANGED <<files, pc, snap, world>>
    BY <1>6 DEF ApplyWorkerResult, ApplyPair, ApplyPairUnknown, ApplyPairError,
                ApplyPairApprove, ApplyPairRevise, Pair
  <2>2. QED
    BY <2>1 DEF files, world, CInv, Whole, RestsIdle, ClosesDone, ClosedRests
<1>7. CASE AllDone
  <2>1. /\ pc = "decide" /\ pc' = "close" /\ work' = NoWork
        /\ Decision.kind = "all_done" /\ UNCHANGED <<files, world>>
    BY <1>7 DEF AllDone
  <2>2. AllTasksDone
    BY <2>1, AllDoneMeansDone DEF DInv, DecidesInSync, Agrees, CInv, Whole, AllTasksDone
  <2>3. QED
    BY <2>1, <2>2 DEF NoWork, Idle, files, world, CInv, Whole, RestsIdle, ClosesDone,
                      ClosedRests, AllTasksDone
<1>8. CASE Session \/ UserHolds \/ (\E t \in Tasks : TaskFileEdited(t))
           \/ UNCHANGED vars
  <2>1. UNCHANGED <<status, locals, closed>> /\ broken' \subseteq broken \cup Breakable
    BY <1>8 DEF Session, SessionAnswers, UserHolds, TaskFileEdited, vars, files, world
  <2>2. QED
    BY <2>1 DEF locals, Idle, CInv, Whole, RestsIdle, ClosesDone, ClosedRests,
                AllTasksDone
<1>9. QED
  BY <1>1, <1>2, <1>3, <1>4, <1>5, <1>6, <1>7, <1>8 DEF Next, Cycle, Closed

(* orchestrate.py closes the session only on a MAP.md in which every task  *)
(* is DONE, but for those whose file may not parse (_check_all_done,       *)
(* _handle_all_done), whatever crashes, late answers and pauses do.        *)
THEOREM ClosesOnlyWhenDone == Spec => []ClosedMeansDone
<1>1. CInv => ClosedMeansDone
  BY DEF CInv, ClosesDone, ClosedMeansDone, AllTasksDone
<1>2. TypeOK /\ DInv /\ CInv /\ [Next]_vars => CInv'
  BY CloseStep
<1>3. QED
  BY TypeInit, TypeStep, DispatchInit, DispatchStep, CloseInit, <1>1, <1>2, PTL
     DEF Spec

-----------------------------------------------------------------------------
(* Cycles that are not cut off, and answers that come once.                *)

(* No cycle stops half way, and no intent is answered after its answer was *)
(* applied.                                                                *)
Orderly == MaxCrashes = 0 /\ ReAnswer = FALSE

-----------------------------------------------------------------------------
(* Envelopes.                                                              *)

(* The number of a new envelope is fresh.                                  *)
Numbered ==
  /\ IsFiniteSet(intents)
  /\ \A i \in intents : i.id <= Cardinality(intents)
  /\ \A i, j \in intents : i.id = j.id => i = j

Envelope(d) ==
  \/ d.kind = "worker" /\ d.idx = 0 /\ d.key = {} /\ \E t \in Tasks : d.paths = {t}
  \/ d.kind = "advisor" /\ d.key # {} /\ d.paths = Shard(d.key, d.idx)

WellFormed == \A d \in intents \cup work.enq : Envelope(d)

(* An intent is answered once, and its answer applied once: what a cycle   *)
(* still has to look at, or has just looked at, lies in .fsm-results.      *)
AnsweredOnce ==
  /\ \A r \in Answered : r.of \in intents
  /\ \A r \in results : ~ WasApplied(r.of)
  /\ \A r, q \in results : r.of = q.of => r = q
  /\ pend \cup work.mark \subseteq results
  /\ pend \cap work.mark = {}

(* Gates: the scanner intents not applied, and those being applied now.    *)
Live == {i \in intents : i.kind = "advisor" /\ ~ WasApplied(i)}

InHand == {r.of : r \in work.mark}

(* A task is in one gate at most, and a gate is two intents at most.       *)
OneGate ==
  \A i, j \in Live : i.key \cap j.key # {} => i.key = j.key /\ (i.idx = j.idx => i = j)

(* What a gate covers is EXECUTING, and no write is about to change that.  *)
UnderReview ==
  \A i \in Live \ InHand : \A t \in i.key :
    status[t] = "EXECUTING" /\ t \notin work.flip \cup work.flag

(* Intents about to be written: of a gate over the tasks on their way to   *)
(* EXECUTING, and of workers of those on their way to IN_PROGRESS.         *)
GateDrafts ==
  \A d \in work.enq : d.kind = "advisor" =>
    /\ work.to = "EXECUTING" /\ work.flip \subseteq d.key
    /\ \A t \in d.key \ work.flip : status[t] = "EXECUTING"
    /\ \A e \in work.enq : e.key = d.key /\ (e.idx = d.idx => e = d)
    /\ \A i \in Live : i.key \cap d.key # {} => i.key = d.key /\ i.idx # d.idx

WorkerDrafts ==
  \A d \in work.enq : d.kind = "worker" =>
    /\ work.to = "IN_PROGRESS"
    /\ \A t \in d.paths \ work.flip : status[t] = "IN_PROGRESS"

(* Every status write still to be made is a legal move of its task.        *)
LegalMoves ==
  /\ \A t \in work.flip :
       \/ pc = "heal" /\ work.to = "PENDING" /\ status[t] = "IN_PROGRESS"
       \/ /\ pc = "workers" /\ work.to \in {"REVIEW", "FAILED"}
          /\ status[t] \in {"IN_PROGRESS", "REVIEW", "FAILED"}
       \/ /\ pc = "pairs" /\ work.to \in {"REVIEW", "DONE", "PENDING"}
          /\ status[t] \in {"EXECUTING", "REVIEW"}
       \/ pc = "act" /\ work.to = "IN_PROGRESS" /\ status[t] = "PENDING"
       \/ pc = "act" /\ work.to = "EXECUTING" /\ status[t] = "REVIEW"
  /\ \A t \in work.flag :
       /\ pc = "pairs" /\ work.to \in {"REVIEW", "PENDING"}
       /\ status[t] \in {"EXECUTING", "REVIEW"}
  /\ work.to = "PENDING" => work.flip \cap work.flag = {}

(* Which stage leaves which work.                                          *)
StageWork ==
  /\ pc \in {"idle", "check", "decide", "close"} => AtRest
  /\ pc # "pairs" => work.flag = {}
  /\ pc # "act" => work.enq = {}
  /\ pc \in {"heal", "act"} => work.mark = {}
  /\ pc = "pairs" => \A r \in pend : r.of.kind = "advisor"

(* The writes of a pair stay in its gate, and DONE has two APPROVEs.       *)
PairWork ==
  pc = "pairs" /\ work.flip \cup work.flag # {} =>
    \E r, q \in work.mark :
      /\ r.of.kind = "advisor" /\ q.of.kind = "advisor"
      /\ {r.of.idx, q.of.idx} = {0, 1} /\ r.of.key = q.of.key
      /\ work.flip \cup work.flag \subseteq r.of.key
      /\ work.to = "DONE" => r.ans.verdict = "ok" /\ q.ans.verdict = "ok"

(* The task list may be old, but only in what this cycle has changed.      *)
ListAged ==
  \A t \in DOMAIN snap :
    /\ pc = "workers" /\ snap[t] = "IN_PROGRESS" =>
         status[t] \in {"IN_PROGRESS", "REVIEW", "FAILED"}
    /\ pc \in {"workers", "pairs"} /\ status[t] = "EXECUTING" => snap[t] = "EXECUTING"

(* A gate is opened after the last dispatch of its tasks.                  *)
GatesAreLater ==
  \A i \in Live : \A t \in i.key : \A w \in Workers(t) : w.id < i.id

(* A dispatch more than REVISE entries, but when one is due.               *)
Due(t) ==
  \/ status[t] = "PENDING"
  \/ pc = "pairs" /\ t \in work.flip /\ work.to = "PENDING"
  \/ \E d \in work.enq : d.kind = "worker" /\ t \in d.paths

Counted ==
  /\ work.to = "IN_PROGRESS" =>
       \A t \in work.flip : \E d \in work.enq : d.kind = "worker" /\ t \in d.paths
  /\ \A t \in Tasks :
       /\ Cardinality(Workers(t)) >= regs[t]
       /\ Due(t) \/ Cardinality(Workers(t)) >= regs[t] + 1

(* A task that is given up was dispatched a first time and as often as it  *)
(* may be repaired.                                                        *)
Repaired ==
  \A t \in Tasks :
    status[t] = "BLOCKED" => Cardinality(Workers(t)) >= MaxReviseRounds + 1

RInv ==
  /\ Numbered /\ WellFormed /\ AnsweredOnce /\ OneGate /\ UnderReview
  /\ GateDrafts /\ WorkerDrafts /\ LegalMoves /\ StageWork /\ PairWork /\ ListAged
  /\ GatesAreLater /\ Counted /\ DoneIsReviewed /\ Repaired

-----------------------------------------------------------------------------
(* Lemmas about sets of numbers and about envelopes.                       *)

LEMMA LeastNatural ==
  ASSUME NEW S \in SUBSET Nat, S # {}
  PROVE  \E n \in S : \A m \in S : n <= m
<1> DEFINE Below(n) == {m \in S : m < n}
           family == {Below(n) : n \in S}
<1>1. family \subseteq FiniteSubsetsOf(Nat) /\ family # {}
  <2>1. \A n \in S : IsFiniteSet(Below(n))
    BY FS_BoundedSetOfNaturals
  <2>2. QED
    BY <2>1 DEF FiniteSubsetsOf
<1>2. PICK B \in family : \A C \in family : ~ (<<C, B>> \in StrictSubsetOrdering(Nat))
  <2> HIDE DEF family
  <2>1. QED
    BY <1>1, FS_StrictSubsetOrderingWellFounded, WFMin
<1>3. PICK n \in S : B = Below(n)
  OBVIOUS
<1>4. \A m \in S : ~ (m < n)
  <2> SUFFICES ASSUME NEW m \in S, m < n PROVE FALSE
    OBVIOUS
  <2>1. Below(m) \subseteq Below(n)
    <3>1. \A k \in S : k < m => k < n
      OBVIOUS
    <3>2. QED
      BY <3>1
  <2>2. m \in Below(n) /\ m \notin Below(m)
    OBVIOUS
  <2>3. <<Below(m), B>> \in StrictSubsetOrdering(Nat)
    BY <1>3, <2>1, <2>2 DEF StrictSubsetOrdering
  <2>4. QED
    BY <1>2, <2>3
<1>5. QED
  BY <1>4

(* The two shards make up the batch.                                       *)
LEMMA ShardsCover ==
  ASSUME NEW T \in SUBSET Tasks PROVE Shard(T, 0) \cup Shard(T, 1) = T
<1>1. CASE Cardinality(T) < 2
  BY <1>1 DEF Shard
<1>2. CASE ~ (Cardinality(T) < 2)
  <2>1. \A t \in T : Rank(T, t) % 2 \in {0, 1}
    <3> TAKE t \in T
    <3>1. IsFiniteSet({u \in T : u < t})
      BY BoundAssumption, FS_Subset DEF BoundAssumption
    <3>2. Rank(T, t) \in Nat
      BY <3>1, FS_CardinalityType DEF Rank
    <3>3. QED
      BY <3>2
  <2>2. QED
    BY <1>2, <2>1 DEF Shard
<1>3. QED
  BY <1>1, <1>2

(* What a wave gate reviews is not empty.                                  *)
LEMMA GateHasTasks ==
  ASSUME TypeOK, GateReached(snap) PROVE EarliestReview(snap) # {}
<1> DEFINE S == {Wave[t] : t \in With(snap, "REVIEW")}
<1>1. With(snap, "REVIEW") \subseteq Tasks /\ With(snap, "REVIEW") # {}
  BY DEF TypeOK, With, GateReached
<1>2. S \subseteq Nat /\ S # {}
  BY <1>1, PlanAssumption DEF PlanAssumption
<1>3. PICK n \in S : \A m \in S : n <= m
  <2> HIDE DEF S
  <2>1. QED
    BY <1>2, LeastNatural
<1>4. QED
  BY <1>3 DEF EarliestReview

(* A task was dispatched a finite number of times.                         *)
LEMMA WorkersType ==
  ASSUME TypeOK, Numbered, NEW t
  PROVE  IsFiniteSet(Workers(t)) /\ Cardinality(Workers(t)) \in Nat
BY FS_Subset, FS_CardinalityType DEF Numbered, Workers

-----------------------------------------------------------------------------
(* The disk writes.                                                        *)

LEMMA ReviewInit == Init => RInv
<1> SUFFICES ASSUME Init PROVE RInv
  OBVIOUS
<1> USE DEF Init
<1>1. \A t : Workers(t) = {}
  BY DEF Workers
<1>2. Numbered /\ Live = {}
  BY FS_EmptySet DEF Numbered, Live
<1>3. Counted
  BY <1>1, FS_EmptySet DEF Counted, Due, NoWork
<1>4. QED
  BY <1>2, <1>3
     DEF RInv, WellFormed, AnsweredOnce, Answered, OneGate, UnderReview, GateDrafts,
         WorkerDrafts, LegalMoves, StageWork, AtRest, PairWork, ListAged, GatesAreLater,
         DoneIsReviewed, Repaired, NoWork, NoTasks

LEMMA ReviewFlip ==
  ASSUME TypeOK, RInv, NEW t \in Tasks, WriteFlip(t) PROVE RInv'
<1>1. /\ t \in work.flip
      /\ work'.to = work.to /\ work'.flag = work.flag /\ work'.mark = work.mark
      /\ work'.enq = work.enq /\ work'.flip = work.flip \ {t}
  BY DEF WriteFlip, TypeOK, Work
<1>2. /\ status'[t] = work.to
      /\ \A u \in Tasks : u # t => status'[u] = status[u]
  BY DEF WriteFlip, TypeOK
<1>3. UNCHANGED <<regs, intents, results, applied, pc, snap, pend>>
  BY DEF WriteFlip
<1>4. /\ Live' = Live /\ InHand' = InHand /\ Live \subseteq intents
      /\ \A u : Workers(u)' = Workers(u)
      /\ \A i \in intents : i.key \subseteq Tasks
      /\ \A d \in work.enq : d.key \subseteq Tasks /\ d.paths \subseteq Tasks
  BY <1>1, <1>3 DEF Live, InHand, WasApplied, Workers, TypeOK, Intent, Work, Draft
<1>5. Numbered' /\ WellFormed' /\ AnsweredOnce' /\ OneGate' /\ GatesAreLater'
  BY <1>1, <1>3, <1>4
     DEF RInv, Numbered, WellFormed, Envelope, AnsweredOnce, Answered, WasApplied, OneGate,
         GatesAreLater
<1>6. UnderReview'
  BY <1>1, <1>2, <1>4 DEF RInv, UnderReview
<1>7. GateDrafts' /\ WorkerDrafts'
  BY <1>1, <1>2, <1>4 DEF RInv, GateDrafts, WorkerDrafts
<1>8. LegalMoves' /\ StageWork'
  <2>1. LegalMoves'
    BY <1>1, <1>2, <1>3 DEF RInv, LegalMoves, TypeOK, Work
  <2>2. StageWork'
    BY <1>1, <1>3 DEF RInv, StageWork, AtRest
  <2>3. QED
    BY <2>1, <2>2
<1>9. PairWork' /\ ListAged'
  <2>1. PairWork'
    BY <1>1, <1>3 DEF RInv, PairWork
  <2>2. ListAged'
    BY <1>1, <1>2, <1>3 DEF RInv, ListAged, LegalMoves, TypeOK
  <2>3. QED
    BY <2>1, <2>2
<1>10. Counted'
  <2>1. ASSUME NEW u \in Tasks, Due(u) PROVE Due(u)'
    BY <2>1, <1>1, <1>2, <1>3 DEF Due, RInv, LegalMoves, Counted
  <2>2. QED
    BY <2>1, <1>1, <1>3, <1>4 DEF RInv, Counted
<1>11. DoneIsReviewed'
  <2> SUFFICES ASSUME NEW u \in Tasks, status'[u] = "DONE"
               PROVE  \E r, q \in Answered :
                        /\ {r.of.idx, q.of.idx} = {0, 1} /\ r.of.key = q.of.key
                        /\ u \in r.of.key
                        /\ r.ans.verdict = "ok" /\ q.ans.verdict = "ok"
                        /\ \A i \in Workers(u) : i.id < r.of.id /\ i.id < q.of.id
    BY <1>3, <1>4 DEF DoneIsReviewed, Answered
  <2>1. CASE u # t
    BY <2>1, <1>2 DEF RInv, DoneIsReviewed
  <2>2. CASE u = t
    <3>1. pc = "pairs" /\ work.to = "DONE"
      BY <2>2, <1>1, <1>2 DEF RInv, LegalMoves
    <3>2. PICK r, q \in work.mark :
            /\ r.of.kind = "advisor" /\ q.of.kind = "advisor"
            /\ {r.of.idx, q.of.idx} = {0, 1} /\ r.of.key = q.of.key
            /\ t \in r.of.key
            /\ r.ans.verdict = "ok" /\ q.ans.verdict = "ok"
      BY <3>1, <1>1 DEF RInv, PairWork
    <3>3. r \in results /\ q \in results /\ r.of \in Live /\ q.of \in Live
      BY <3>2 DEF RInv, AnsweredOnce, Answered, Live
    <3>4. \A i \in Workers(t) : i.id < r.of.id /\ i.id < q.of.id
      BY <3>2, <3>3 DEF RInv, GatesAreLater
    <3>5. QED
      BY <2>2, <3>2, <3>3, <3>4 DEF Answered
  <2>3. QED
    BY <2>1, <2>2
<1>12. Repaired'
  BY <1>1, <1>2, <1>4 DEF RInv, Repaired, LegalMoves
<1>13. QED
  BY <1>5, <1>6, <1>7, <1>8, <1>9, <1>10, <1>11, <1>12 DEF RInv

LEMMA ReviewFlag ==
  ASSUME TypeOK, RInv, NEW t \in Tasks, WriteFlag(t) PROVE RInv'
<1>1. /\ work.flip = {} /\ t \in work.flag /\ pc = "pairs" /\ work.enq = {}
      /\ status[t] \in {"EXECUTING", "REVIEW"} /\ work.to \in {"REVIEW", "PENDING"}
  BY DEF WriteFlag, RInv, LegalMoves, StageWork
<1>2. UNCHANGED <<intents, results, applied, pc, snap, pend>>
  BY DEF WriteFlag
<1>3. /\ work'.flag = work.flag \ {t} /\ work'.mark = work.mark /\ work'.enq = {}
      /\ \/ /\ OverLimit(t) /\ work'.flip = {} /\ work'.to = work.to
            /\ status'[t] = "BLOCKED" /\ regs' = regs
         \/ /\ ~ OverLimit(t) /\ work'.flip = {t} /\ work'.to = "PENDING"
            /\ status' = status /\ regs'[t] = regs[t] + 1
  BY <1>1 DEF WriteFlag, TypeOK, Work
<1>4. \A u \in Tasks : u # t => status'[u] = status[u] /\ regs'[u] = regs[u]
  BY DEF WriteFlag, TypeOK
<1>5. /\ Live' = Live /\ InHand' = InHand /\ Live \subseteq intents
      /\ \A u : Workers(u)' = Workers(u)
      /\ \A i \in intents : i.key \subseteq Tasks
  BY <1>2, <1>3 DEF Live, InHand, WasApplied, Workers, TypeOK, Intent
<1>6. Numbered' /\ WellFormed' /\ AnsweredOnce' /\ OneGate' /\ GatesAreLater'
  BY <1>1, <1>2, <1>3, <1>5
     DEF RInv, Numbered, WellFormed, Envelope, AnsweredOnce, Answered, WasApplied, OneGate,
         GatesAreLater
<1>7. UnderReview'
  BY <1>1, <1>3, <1>4, <1>5 DEF RInv, UnderReview
<1>8. GateDrafts' /\ WorkerDrafts'
  BY <1>3 DEF GateDrafts, WorkerDrafts
<1>9. LegalMoves'
  BY <1>1, <1>2, <1>3, <1>4 DEF RInv, LegalMoves, TypeOK, Work
<1>10. StageWork' /\ PairWork'
  BY <1>1, <1>2, <1>3 DEF RInv, StageWork, PairWork
<1>11. ListAged'
  BY <1>1, <1>2, <1>3, <1>4 DEF RInv, ListAged, TypeOK
<1>12. Cardinality(Workers(t)) >= regs[t] + 1 /\ Cardinality(Workers(t)) \in Nat
       /\ regs[t] \in 0 .. MaxReviseRounds
  BY <1>1, WorkersType DEF RInv, Counted, Due, TypeOK
<1>13. Counted'
  <2>1. ASSUME NEW u \in Tasks, u # t, Due(u) PROVE Due(u)'
    BY <2>1, <1>1, <1>4 DEF Due
  <2>2. CASE OverLimit(t)
    BY <2>1, <2>2, <1>3, <1>4, <1>5, <1>12 DEF RInv, Counted
  <2>3. CASE ~ OverLimit(t)
    <3>1. Due(t)'
      BY <2>3, <1>1, <1>2, <1>3 DEF Due
    <3>2. QED
      BY <2>1, <2>3, <3>1, <1>3, <1>4, <1>5, <1>12 DEF RInv, Counted
  <2>4. QED
    BY <2>2, <2>3
<1>14. DoneIsReviewed'
  BY <1>1, <1>2, <1>3, <1>4, <1>5 DEF RInv, DoneIsReviewed, Answered
<1>15. Repaired'
  <2>1. ASSUME OverLimit(t) PROVE Cardinality(Workers(t)) >= MaxReviseRounds + 1
    BY <2>1, <1>12, BoundAssumption DEF OverLimit, BoundAssumption
  <2>2. QED
    BY <2>1, <1>1, <1>3, <1>4, <1>5 DEF RInv, Repaired
<1>16. QED
  BY <1>6, <1>7, <1>8, <1>9, <1>10, <1>11, <1>13, <1>14, <1>15 DEF RInv

(* A new envelope is pending, has the next number and belongs to a worker  *)
(* of a task that is IN_PROGRESS or to a gate of tasks that are EXECUTING. *)
LEMMA ReviewIntent ==
  ASSUME TypeOK, RInv, NEW d \in work.enq, WriteIntent(d) PROVE RInv'
<1>1. /\ work.flip = {} /\ work.flag = {} /\ work.mark = {} /\ pc = "act"
      /\ work'.to = work.to /\ work'.flag = {} /\ work'.mark = {}
      /\ work'.flip = {} /\ work'.enq = work.enq \ {d}
  BY DEF WriteIntent, TypeOK, Work, RInv, StageWork
<1>2. UNCHANGED <<status, regs, results, applied, pc, snap, pend>>
  BY DEF WriteIntent
<1>3. PICK i : /\ i.id = Cardinality(intents) + 1
               /\ i.kind = d.kind /\ i.paths = d.paths /\ i.key = d.key /\ i.idx = d.idx
               /\ intents' = intents \cup {i}
  BY DEF WriteIntent
<1>4. /\ IsFiniteSet(intents) /\ Cardinality(intents) \in Nat
      /\ \A j \in intents : j.id \in Nat /\ j.id <= Cardinality(intents) /\ j.key \subseteq Tasks
      /\ d.kind \in {"worker", "advisor"} /\ d.key \subseteq Tasks /\ d.paths \subseteq Tasks
  BY FS_CardinalityType DEF RInv, Numbered, TypeOK, Intent, Work, Draft
<1>5. i \notin intents /\ Cardinality(intents') = Cardinality(intents) + 1
      /\ IsFiniteSet(intents') /\ \A j \in intents : j.id < i.id
  BY <1>3, <1>4, FS_AddElement
<1>6. ~ WasApplied(i)
  BY <1>5 DEF WasApplied, RInv, AnsweredOnce, Answered
<1>7. /\ Live' = IF d.kind = "advisor" THEN Live \cup {i} ELSE Live
      /\ InHand = {} /\ InHand' = {} /\ Live \subseteq intents
  BY <1>1, <1>2, <1>3, <1>6 DEF Live, InHand, WasApplied
<1>8. Numbered'
  <2>1. \A j \in intents' : j.id <= Cardinality(intents')
    BY <1>3, <1>4, <1>5
  <2>2. \A j \in intents : j.id # i.id
    BY <1>3, <1>4, <1>5
  <2>3. \A j, k \in intents' : j.id = k.id => j = k
    BY <2>2, <1>3 DEF RInv, Numbered
  <2>4. QED
    BY <2>1, <2>3, <1>5 DEF Numbered
<1>9. WellFormed' /\ AnsweredOnce'
  BY <1>1, <1>2, <1>3 DEF RInv, WellFormed, Envelope, AnsweredOnce, Answered, WasApplied
<1>10. OneGate'
  BY <1>3, <1>7 DEF RInv, OneGate, GateDrafts
<1>11. UnderReview'
  BY <1>1, <1>2, <1>3, <1>7 DEF RInv, UnderReview, GateDrafts
<1>12. GateDrafts' /\ WorkerDrafts'
  <2>1. GateDrafts'
    BY <1>1, <1>2, <1>3, <1>7 DEF RInv, GateDrafts
  <2>2. WorkerDrafts'
    BY <1>1, <1>2 DEF RInv, WorkerDrafts
  <2>3. QED
    BY <2>1, <2>2
<1>13. LegalMoves' /\ StageWork' /\ PairWork' /\ ListAged'
  BY <1>1, <1>2 DEF RInv, LegalMoves, StageWork, AtRest, PairWork, ListAged
<1>14. \A u \in Tasks :
         /\ Workers(u) \subseteq Workers(u)'
         /\ Workers(u)' # Workers(u) =>
              /\ d.kind = "worker" /\ u \in d.paths /\ status[u] = "IN_PROGRESS"
         /\ Workers(u)' \subseteq Workers(u) \cup {i}
  BY <1>1, <1>3 DEF Workers, RInv, WorkerDrafts
<1>15. \A u \in Tasks : /\ Cardinality(Workers(u)') >= Cardinality(Workers(u))
                        /\ d.kind = "worker" /\ u \in d.paths =>
                             Cardinality(Workers(u)') = Cardinality(Workers(u)) + 1
  <2> TAKE u \in Tasks
  <2>1. IsFiniteSet(Workers(u)) /\ Cardinality(Workers(u)) \in Nat /\ i \notin Workers(u)
    BY <1>5, WorkersType DEF RInv, Workers
  <2>2. CASE d.kind = "worker" /\ u \in d.paths
    <3>1. Workers(u)' = Workers(u) \cup {i}
      BY <2>2, <1>3 DEF Workers
    <3>2. QED
      BY <2>1, <3>1, FS_AddElement
  <2>3. CASE ~ (d.kind = "worker" /\ u \in d.paths)
    <3>1. Workers(u)' = Workers(u)
      BY <2>3, <1>14
    <3>2. QED
      BY <2>1, <2>3, <3>1
  <2>4. QED
    BY <2>2, <2>3
<1>16. GatesAreLater'
  <2> SUFFICES ASSUME NEW j \in Live', NEW t \in j.key, NEW w \in Workers(t)'
               PROVE  w.id < j.id
    BY DEF GatesAreLater
  <2>1. t \in Tasks
    BY <1>3, <1>4, <1>7
  <2>2. CASE j \in Live
    <3>1. status[t] = "EXECUTING"
      BY <2>2, <1>7 DEF RInv, UnderReview
    <3>2. w \in Workers(t)
      BY <2>1, <3>1, <1>14
    <3>3. QED
      BY <2>2, <3>2 DEF RInv, GatesAreLater
  <2>3. CASE j = i /\ d.kind = "advisor"
    BY <2>1, <2>3, <1>5, <1>14 DEF Workers
  <2>4. QED
    BY <2>2, <2>3, <1>7
<1>17. Counted'
  <2>1. \A u \in Tasks : Cardinality(Workers(u)) \in Nat /\ regs[u] \in Nat
    BY WorkersType, BoundAssumption DEF RInv, TypeOK, BoundAssumption
  <2>2. \A u \in Tasks : Cardinality(Workers(u)') \in Nat
    <3> TAKE u \in Tasks
    <3>1. IsFiniteSet(Workers(u)')
      BY <1>5, FS_Subset DEF Workers
    <3>2. QED
      BY <3>1, FS_CardinalityType
  <2>3. ASSUME NEW u \in Tasks, Due(u), ~ Due(u)' PROVE d.kind = "worker" /\ u \in d.paths
    BY <2>3, <1>1, <1>2 DEF Due
  <2>4. QED
    BY <2>1, <2>2, <2>3, <1>1, <1>2, <1>15 DEF RInv, Counted
<1>18. DoneIsReviewed'
  <2>1. DoneIsReviewed /\ UNCHANGED <<status, results, applied>>
    BY <1>2 DEF RInv
  <2>2. \A u \in Tasks : status[u] = "DONE" => Workers(u)' = Workers(u)
    BY <1>14
  <2>3. QED
    BY <2>1, <2>2 DEF DoneIsReviewed, Answered
<1>19. Repaired'
  <2>1. \A u \in Tasks : status[u] = "BLOCKED" => Workers(u)' = Workers(u)
    BY <1>14
  <2>2. QED
    BY <2>1, <1>2 DEF RInv, Repaired
<1>20. QED
  BY <1>8, <1>9, <1>10, <1>11, <1>12, <1>13, <1>16, <1>17, <1>18, <1>19 DEF RInv

(* Moving an answer to applied/ takes its intent out of its gate, and is   *)
(* forgotten by nothing else.                                              *)
LEMMA ReviewMark ==
  ASSUME TypeOK, RInv, NEW r \in work.mark, MarkApplied(r) PROVE RInv'
<1>1. /\ work.flip = {} /\ work.flag = {} /\ work.enq = {}
      /\ work'.to = work.to /\ work'.flag = {} /\ work'.mark = work.mark \ {r}
      /\ work'.flip = {} /\ work'.enq = {}
  BY DEF MarkApplied, TypeOK, Work, RInv, StageWork
<1>2. /\ UNCHANGED <<status, regs, intents, pc, snap, pend>>
      /\ results' = results \ {r}
      /\ applied' = {q \in applied : q.of # r.of} \cup {r}
  BY DEF MarkApplied
<1>3. /\ r \in results /\ r \notin pend /\ ~ WasApplied(r.of)
      /\ pc \notin {"idle", "check", "decide", "close", "heal", "act"}
  BY DEF RInv, AnsweredOnce, StageWork, AtRest
<1>4. applied' = applied \cup {r} /\ Answered' = Answered
  BY <1>2, <1>3 DEF WasApplied, Answered
<1>5. \A i : WasApplied(i)' <=> WasApplied(i) \/ i = r.of
  BY <1>4 DEF WasApplied
<1>6. /\ Live' = Live \ {r.of} /\ Live' \ InHand' \subseteq Live \ InHand
      /\ \A u : Workers(u)' = Workers(u)
  BY <1>1, <1>2, <1>5 DEF Live, InHand, Workers
<1>7. Numbered' /\ WellFormed' /\ OneGate' /\ GatesAreLater'
  BY <1>1, <1>2, <1>6
     DEF RInv, Numbered, WellFormed, Envelope, OneGate, GatesAreLater
<1>8. AnsweredOnce'
  BY <1>1, <1>2, <1>3, <1>4, <1>5 DEF RInv, AnsweredOnce
<1>9. UnderReview'
  BY <1>1, <1>2, <1>6 DEF RInv, UnderReview
<1>10. GateDrafts' /\ WorkerDrafts' /\ LegalMoves' /\ StageWork' /\ PairWork' /\ ListAged'
  BY <1>1, <1>2, <1>3
     DEF RInv, GateDrafts, WorkerDrafts, LegalMoves, StageWork, PairWork, ListAged
<1>11. Counted'
  BY <1>1, <1>2, <1>6 DEF RInv, Counted, Due
<1>12. DoneIsReviewed' /\ Repaired'
  BY <1>2, <1>4, <1>6 DEF RInv, DoneIsReviewed, Repaired
<1>13. QED
  BY <1>7, <1>8, <1>9, <1>10, <1>11, <1>12 DEF RInv

-----------------------------------------------------------------------------
(* The stages.                                                             *)

(* A stage that starts from rest and enqueues nothing keeps what is said   *)
(* of the files alone; left to show is what it says of its own writes.     *)
LEMMA ReviewPlan ==
  ASSUME TypeOK, RInv, AtRest, work'.enq = {}, work'.to # "IN_PROGRESS" \/ work'.flip = {},
         UNCHANGED <<status, regs, intents, results, applied>>,
         pend' \cup work'.mark \subseteq results, pend' \cap work'.mark = {},
         UnderReview', LegalMoves', StageWork', PairWork', ListAged'
  PROVE  RInv'
<1>1. work.flip = {} /\ work.flag = {} /\ work.enq = {} /\ work.mark = {}
  BY DEF AtRest
<1>2. /\ Live' = Live /\ Answered' = Answered
      /\ \A u : Workers(u)' = Workers(u) /\ (Due(u) => Due(u)')
      /\ \A i : WasApplied(i)' <=> WasApplied(i)
  BY <1>1 DEF Live, Answered, WasApplied, Workers, Due
<1>3. Numbered' /\ WellFormed' /\ OneGate' /\ GatesAreLater'
  BY <1>1, <1>2
     DEF RInv, Numbered, WellFormed, OneGate, GatesAreLater
<1>4. AnsweredOnce'
  BY <1>1, <1>2 DEF RInv, AnsweredOnce
<1>5. GateDrafts' /\ WorkerDrafts'
  BY DEF GateDrafts, WorkerDrafts
<1>6. Counted'
  BY <1>1, <1>2 DEF RInv, Counted
<1>7. DoneIsReviewed' /\ Repaired'
  BY <1>2 DEF RInv, DoneIsReviewed, Repaired
<1>8. QED
  BY <1>3, <1>4, <1>5, <1>6, <1>7 DEF RInv

(* A stage that sets up no writes keeps everything, if what it reads is    *)
(* what lies in .fsm-results and the task list has not aged too far.       *)
LEMMA ReviewRest ==
  ASSUME TypeOK, RInv, AtRest, AtRest',
         UNCHANGED <<status, regs, intents, results, applied>>,
         pend' \subseteq results, ListAged',
         pc' = "pairs" => \A r \in pend' : r.of.kind = "advisor"
  PROVE  RInv'
<1>1. /\ work.flip = {} /\ work.flag = {} /\ work.enq = {} /\ work.mark = {}
      /\ work'.flip = {} /\ work'.flag = {} /\ work'.enq = {} /\ work'.mark = {}
  BY DEF AtRest
<1>2. Live' = Live /\ InHand' = {} /\ InHand = {}
  BY <1>1 DEF Live, InHand, WasApplied
<1>3. UnderReview'
  BY <1>1, <1>2 DEF RInv, UnderReview
<1>4. LegalMoves' /\ StageWork' /\ PairWork'
  BY <1>1 DEF LegalMoves, StageWork, PairWork, AtRest
<1>5. QED
  BY <1>1, <1>3, <1>4, ReviewPlan

LEMMA ReviewExit ==
  ASSUME TypeOK, RInv,
         StartupFails \/ SkipHeld \/ NothingToDo \/ ActionTaken \/ CloseSession
  PROVE  RInv'
<1>1. AtRest
  BY DEF StartupFails, SkipHeld, NothingToDo, ActionTaken, CloseSession, RInv, StageWork
<1>2. Exit /\ UNCHANGED files
  BY DEF StartupFails, SkipHeld, NothingToDo, ActionTaken, CloseSession
<1>3. AtRest' /\ pend' = {} /\ pc' = "idle" /\ DOMAIN snap' = {}
  BY <1>2 DEF Exit, NoWork, NoTasks, AtRest
<1>4. ListAged'
  BY <1>3 DEF ListAged
<1>5. QED
  BY <1>1, <1>2, <1>3, <1>4, ReviewRest DEF files

LEMMA ReviewRead ==
  ASSUME TypeOK, DInv, RInv,
         StatesCompared \/ ReadState \/ WorkersApplied \/ PairsApplied \/ AllDone
  PROVE  RInv'
<1>1. AtRest /\ UNCHANGED files /\ work' = NoWork
  BY DEF StatesCompared, ReadState, WorkersApplied, PairsApplied, AllDone
<1>2. AtRest'
  BY <1>1 DEF NoWork, AtRest
<1>3. /\ pend' \subseteq results
      /\ pc' = "pairs" => \A r \in pend' : r.of.kind = "advisor"
  BY DEF StatesCompared, ReadState, WorkersApplied, PairsApplied, AllDone, RInv,
         AnsweredOnce
<1>4. ListAged'
  <2>1. CASE StatesCompared \/ AllDone
    BY <2>1 DEF StatesCompared, AllDone, ListAged
  <2>2. CASE ReadState
    <3>1. /\ snap' = Read /\ status' = status
      BY <2>2 DEF ReadState, files
    <3>2. QED
      BY <3>1 DEF Read, ListAged
  <2>3. CASE WorkersApplied
    BY <2>3 DEF WorkersApplied, files, RInv, ListAged
  <2>4. CASE PairsApplied
    BY <2>4 DEF PairsApplied, ListAged
  <2>5. QED
    BY <2>1, <2>2, <2>3, <2>4
<1>5. QED
  BY <1>1, <1>2, <1>3, <1>4, ReviewRest DEF files

(* Healing takes no task out of a review: what it resets is IN_PROGRESS.   *)
LEMMA ReviewHeal == ASSUME TypeOK, RInv, HealStale PROVE RInv'
<1>1. PICK stale \in SUBSET {t \in Tasks : MayBeStale(t)} :
        work' = Flips("PENDING", stale)
  BY DEF HealStale
<1>2. /\ work'.to = "PENDING" /\ work'.flip = stale /\ work'.flag = {}
      /\ work'.enq = {} /\ work'.mark = {}
  BY <1>1 DEF Flips, NoWork
<1>3. pc = "idle" /\ pc' = "heal" /\ UNCHANGED <<files, snap, pend>>
  BY DEF HealStale
<1>4. AtRest /\ pend' \subseteq results
  BY <1>3 DEF RInv, StageWork, AnsweredOnce
<1>5. Live' = Live /\ InHand' = {} /\ InHand = {}
  BY <1>2, <1>3, <1>4 DEF Live, InHand, WasApplied, files, AtRest
<1>6. UnderReview'
  BY <1>1, <1>2, <1>3, <1>5 DEF MayBeStale, RInv, UnderReview, files
<1>7. LegalMoves' /\ StageWork' /\ PairWork' /\ ListAged'
  BY <1>1, <1>2, <1>3 DEF MayBeStale, LegalMoves, StageWork, AtRest, PairWork, ListAged, files
<1>8. QED
  BY <1>2, <1>3, <1>4, <1>6, <1>7, ReviewPlan DEF files

(* A worker's answer moves a task that left IN_PROGRESS, if at all, only   *)
(* because of another answer of its workers in the same cycle.             *)
LEMMA ReviewWorker ==
  ASSUME TypeOK, RInv, NEW r \in pend, ApplyWorkerResult(r) PROVE RInv'
<1>1. /\ pc = "workers" /\ AtRest /\ r.of.kind = "worker" /\ pend' = pend \ {r}
      /\ UNCHANGED <<files, pc, snap>>
  BY DEF ApplyWorkerResult
<1>2. r \in results /\ pend' \subseteq results
  BY <1>1 DEF RInv, AnsweredOnce
<1>3. ListAged'
  BY <1>1 DEF RInv, ListAged, files
<1>4. CASE UNCHANGED work
  <2>1. AtRest'
    BY <1>1, <1>4 DEF AtRest
  <2>2. QED
    BY <2>1, <1>1, <1>2, <1>3, ReviewRest DEF files
<1>5. CASE ~ UNCHANGED work
  <2>1. PICK t \in r.of.paths :
          /\ AppliesTo(t)
          /\ work' = [Flips(IF r.ans.verdict = "ok" THEN "REVIEW" ELSE "FAILED", {t})
                        EXCEPT !.mark = {r}]
    BY <1>5 DEF ApplyWorkerResult
  <2>2. /\ work'.to \in {"REVIEW", "FAILED"} /\ work'.flip = {t} /\ work'.flag = {}
        /\ work'.enq = {} /\ work'.mark = {r}
    BY <2>1 DEF Flips, NoWork
  <2>3. t \in Tasks /\ status[t] \in {"IN_PROGRESS", "REVIEW", "FAILED"}
    BY <2>1, <1>1 DEF AppliesTo, RInv, ListAged, TypeOK
  <2>4. /\ Live' = Live /\ InHand' = {r.of} /\ InHand = {}
        /\ r.of \notin Live
    BY <2>2, <1>1 DEF Live, InHand, WasApplied, files, AtRest
  <2>5. UnderReview'
    BY <2>2, <2>3, <2>4, <1>1 DEF RInv, UnderReview, files
  <2>6. LegalMoves' /\ StageWork' /\ PairWork'
    BY <2>2, <2>3, <1>1 DEF LegalMoves, StageWork, AtRest, PairWork, files
  <2>7. QED
    BY <2>2, <2>5, <2>6, <1>1, <1>2, <1>3, ReviewPlan DEF files
<1>6. QED
  BY <1>4, <1>5

(* Two answers selected together are of the two scanners of one gate.      *)
LEMMA PairFacts ==
  ASSUME TypeOK, RInv, NEW r \in pend, NEW q \in pend, Pair(r, q)
  PROVE  /\ r \in results /\ q \in results /\ r # q
         /\ r.of.kind = "advisor" /\ q.of.kind = "advisor"
         /\ r.of \in Live /\ q.of \in Live /\ r.of # q.of
         /\ r.of.key = q.of.key /\ r.of.key \subseteq Tasks
         /\ {r.of.idx, q.of.idx} = {0, 1}
         /\ Batch(r, q) = r.of.key
<1>1. pc = "pairs" /\ r # q /\ r.of.key = q.of.key
  BY DEF Pair, Selected
<1>2. /\ r \in results /\ q \in results /\ r.of # q.of
      /\ r.of.kind = "advisor" /\ q.of.kind = "advisor"
      /\ r.of \in Live /\ q.of \in Live
  BY <1>1 DEF RInv, AnsweredOnce, Answered, StageWork, Live
<1>3. /\ r.of.key # {} /\ r.of.key \subseteq Tasks
      /\ r.of.paths = Shard(r.of.key, r.of.idx) /\ q.of.paths = Shard(q.of.key, q.of.idx)
      /\ r.of.idx \in {0, 1} /\ q.of.idx \in {0, 1}
  BY <1>2 DEF RInv, WellFormed, Envelope, Live, TypeOK, Intent
<1>4. r.of.idx # q.of.idx
  BY <1>1, <1>2, <1>3 DEF RInv, OneGate
<1>5. {r.of.idx, q.of.idx} = {0, 1}
  BY <1>3, <1>4
<1>6. Batch(r, q) = Shard(r.of.key, 0) \cup Shard(r.of.key, 1)
  BY <1>1, <1>3, <1>4 DEF Batch
<1>7. QED
  BY <1>1, <1>2, <1>3, <1>5, <1>6, ShardsCover

(* What a pair writes stays in its gate, which no other gate overlaps.     *)
LEMMA ReviewPair ==
  ASSUME TypeOK, RInv, NEW r \in pend, NEW q \in pend,
         \/ ApplyPairUnknown(r, q) \/ ApplyPairError(r, q)
         \/ ApplyPairApprove(r, q) \/ ApplyPairRevise(r, q)
  PROVE  RInv'
<1>1. Pair(r, q)
  BY DEF ApplyPairUnknown, ApplyPairError, ApplyPairApprove, ApplyPairRevise
<1>2. /\ pc = "pairs" /\ AtRest /\ pend' = pend \ Group(r)
      /\ UNCHANGED <<files, pc, snap>>
  BY <1>1 DEF Pair
<1>3. /\ r \in results /\ q \in results /\ r # q
      /\ r.of.kind = "advisor" /\ q.of.kind = "advisor"
      /\ r.of \in Live /\ q.of \in Live /\ r.of # q.of
      /\ r.of.key = q.of.key /\ r.of.key \subseteq Tasks
      /\ {r.of.idx, q.of.idx} = {0, 1}
      /\ Batch(r, q) = r.of.key
  BY <1>1, PairFacts
<1>4. {r, q} \subseteq Group(r) /\ pend' \subseteq pend
  BY <1>2, <1>3 DEF Group
<1>5. pend' \subseteq results /\ \A x \in pend' : x.of.kind = "advisor"
  BY <1>2, <1>4 DEF RInv, AnsweredOnce, StageWork
<1>6. ListAged'
  BY <1>2 DEF RInv, ListAged, files
<1>7. CASE ApplyPairUnknown(r, q)
  <2>1. AtRest'
    BY <1>2, <1>7 DEF ApplyPairUnknown, AtRest
  <2>2. QED
    BY <2>1, <1>2, <1>5, <1>6, ReviewRest DEF files
<1>8. CASE ~ ApplyPairUnknown(r, q)
  <2>1. /\ work'.enq = {} /\ work'.mark = {r, q}
        /\ work'.flip \cup work'.flag \subseteq r.of.key
        /\ work'.to \in {"REVIEW", "DONE"}
        /\ work'.flag # {} => work'.to = "REVIEW"
        /\ work'.to = "DONE" => r.ans.verdict = "ok" /\ q.ans.verdict = "ok"
    <3>1. CASE ApplyPairError(r, q)
      BY <3>1, <1>3 DEF ApplyPairError, Flips, NoWork
    <3>2. CASE ApplyPairApprove(r, q)
      BY <3>2, <1>3 DEF ApplyPairApprove, Flips, NoWork, BothApprove
    <3>3. CASE ApplyPairRevise(r, q)
      <4>1. Restored(r, q) \subseteq r.of.key
        BY <1>3 DEF Restored
      <4>2. OrAll(FlaggedCombined(r, q), Batch(r, q)) \subseteq r.of.key
        BY <1>3 DEF OrAll, FlaggedCombined
      <4>3. QED
        BY <3>3, <4>1, <4>2 DEF ApplyPairRevise, Flips, NoWork
    <3>4. QED
      BY <1>8, <3>1, <3>2, <3>3
  <2>2. Live' = Live /\ InHand' = {r.of, q.of} /\ InHand = {}
    BY <2>1, <1>2 DEF Live, InHand, WasApplied, files, AtRest
  <2>3. \A t \in r.of.key : status[t] = "EXECUTING"
    BY <2>2, <1>3 DEF RInv, UnderReview
  <2>4. ASSUME NEW j \in Live, j \notin {r.of, q.of} PROVE j.key \cap r.of.key = {}
    <3>1. j.idx \in {0, 1}
      BY DEF Live, TypeOK, Intent
    <3>2. QED
      BY <2>4, <3>1, <1>3 DEF RInv, OneGate
  <2>5. UnderReview'
    BY <2>1, <2>2, <2>4, <1>2 DEF RInv, UnderReview, files
  <2>6. LegalMoves' /\ StageWork' /\ PairWork'
    BY <2>1, <2>3, <1>2, <1>3, <1>5 DEF LegalMoves, StageWork, AtRest, PairWork, files
  <2>7. pend' \cup work'.mark \subseteq results /\ pend' \cap work'.mark = {}
    BY <2>1, <1>2, <1>3, <1>4, <1>5
  <2>8. QED
    BY <2>1, <2>5, <2>6, <2>7, <1>2, <1>6, ReviewPlan DEF files
<1>9. QED
  BY <1>7, <1>8

(* A dispatch of workers: of tasks that are PENDING, each with one intent. *)
LEMMA ReviewWave == ASSUME TypeOK, DInv, RInv, DispatchWave PROVE RInv'
<1> DEFINE T == Decision.tasks
<1>1. /\ pc = "decide" /\ AtRest /\ pc' = "act"
      /\ UNCHANGED <<files, snap, pend>>
      /\ work'.to = "IN_PROGRESS" /\ work'.flip = T /\ work'.flag = {} /\ work'.mark = {}
      /\ work'.enq = {WorkerDraft(t) : t \in T}
  BY DEF DispatchWave, StartWrites, Flips, NoWork
<1>2. T \subseteq Tasks /\ \A t \in T : status[t] = "PENDING"
  BY DecidedTasks, ReadyIsStartable
     DEF TypeOK, DispatchWave, DInv, DecidesInSync, Startable
<1>3. \A t \in T : WorkerDraft(t) \in work'.enq
  BY <1>1
<1>4. \A d \in work'.enq : /\ d.kind = "worker" /\ d.idx = 0 /\ d.key = {}
                           /\ \E t \in T : d.paths = {t}
  BY <1>1 DEF WorkerDraft
<1>5. \A t \in T : \E d \in work'.enq : d.kind = "worker" /\ t \in d.paths
  BY <1>3 DEF WorkerDraft
<1> HIDE DEF T
<1>6. /\ Live' = Live /\ InHand' = {} /\ InHand = {} /\ Answered' = Answered
      /\ \A u : Workers(u)' = Workers(u)
      /\ \A i : WasApplied(i)' <=> WasApplied(i)
  BY <1>1 DEF Live, InHand, WasApplied, files, AtRest, Answered, Workers
<1>7. Numbered' /\ WellFormed' /\ OneGate' /\ GatesAreLater'
  BY <1>1, <1>2, <1>4, <1>6
     DEF RInv, Numbered, WellFormed, Envelope, OneGate, GatesAreLater, files
<1>8. AnsweredOnce'
  BY <1>1, <1>6 DEF RInv, AnsweredOnce, files
<1>9. UnderReview'
  BY <1>1, <1>2, <1>6 DEF RInv, UnderReview, files
<1>10. GateDrafts' /\ WorkerDrafts'
  BY <1>1, <1>4 DEF GateDrafts, WorkerDrafts
<1>11. LegalMoves' /\ StageWork' /\ PairWork' /\ ListAged'
  BY <1>1, <1>2 DEF LegalMoves, StageWork, AtRest, PairWork, ListAged, files
<1>12. Counted'
  <2>1. \A u \in Tasks : Due(u) => Due(u)'
    BY <1>1 DEF Due, files, AtRest
  <2>2. QED
    BY <2>1, <1>1, <1>5, <1>6 DEF RInv, Counted, files
<1>13. DoneIsReviewed' /\ Repaired'
  BY <1>1, <1>6 DEF RInv, DoneIsReviewed, Repaired, files
<1>14. QED
  BY <1>7, <1>8, <1>9, <1>10, <1>11, <1>12, <1>13 DEF RInv

(* A dispatch of scanners: two intents over the REVIEW tasks of one wave,  *)
(* which no gate covers, since what a gate covers is EXECUTING.            *)
LEMMA ReviewGate == ASSUME TypeOK, DInv, RInv, DispatchAdvisor PROVE RInv'
<1> DEFINE T == Decision.tasks
<1>1. /\ pc = "decide" /\ AtRest /\ pc' = "act"
      /\ UNCHANGED <<files, snap, pend>>
      /\ work'.to = "EXECUTING" /\ work'.flip = T /\ work'.flag = {} /\ work'.mark = {}
      /\ work'.enq = ScannerPair(T)
  BY DEF DispatchAdvisor, StartWrites, Flips, NoWork
<1>2. T = EarliestReview(snap) /\ GateReached(snap)
  BY DEF DispatchAdvisor, Decision, Decide, Action
<1>3. T \subseteq Tasks /\ T # {} /\ \A t \in T : status[t] = "REVIEW"
  BY <1>1, <1>2, DecidedTasks, GateHasTasks
     DEF TypeOK, DInv, DecidesInSync, Agrees, EarliestReview, With
<1> HIDE DEF T
<1>4. \A d \in work'.enq : /\ d.kind = "advisor" /\ d.key = T /\ d.idx \in {0, 1}
                           /\ d = [kind |-> "advisor", paths |-> Shard(T, d.idx),
                                   key |-> T, idx |-> d.idx]
                           /\ d.paths = Shard(T, d.idx)
  BY <1>1 DEF ScannerPair
<1>5. /\ Live' = Live /\ InHand' = {} /\ InHand = {} /\ Answered' = Answered
      /\ \A u : Workers(u)' = Workers(u)
      /\ \A i : WasApplied(i)' <=> WasApplied(i)
  BY <1>1 DEF Live, InHand, WasApplied, files, AtRest, Answered, Workers
<1>6. \A i \in Live : i.key \cap T = {} /\ i.key \subseteq Tasks
  BY <1>3, <1>5 DEF RInv, UnderReview, Live, TypeOK, Intent
<1>7. Numbered' /\ OneGate' /\ GatesAreLater'
  BY <1>1, <1>5
     DEF RInv, Numbered, OneGate, GatesAreLater, files
<1>8. WellFormed'
  BY <1>1, <1>3, <1>4 DEF RInv, WellFormed, Envelope, files
<1>9. AnsweredOnce'
  BY <1>1, <1>5 DEF RInv, AnsweredOnce, files
<1>10. UnderReview'
  BY <1>1, <1>5, <1>6 DEF RInv, UnderReview, files
<1>11. GateDrafts'
  <2>1. \A d, e \in work'.enq : e.idx = d.idx => e = d
    BY <1>4
  <2>2. QED
    BY <2>1, <1>1, <1>4, <1>5, <1>6 DEF GateDrafts
<1>12. WorkerDrafts'
  BY <1>4 DEF WorkerDrafts
<1>13. LegalMoves' /\ StageWork' /\ PairWork' /\ ListAged'
  BY <1>1, <1>3 DEF LegalMoves, StageWork, AtRest, PairWork, ListAged, files
<1>14. Counted'
  <2>1. \A u \in Tasks : Due(u) => Due(u)'
    BY <1>1 DEF Due, files, AtRest
  <2>2. QED
    BY <2>1, <1>1, <1>5 DEF RInv, Counted, files
<1>15. DoneIsReviewed' /\ Repaired'
  BY <1>1, <1>5 DEF RInv, DoneIsReviewed, Repaired, files
<1>16. QED
  BY <1>7, <1>8, <1>9, <1>10, <1>11, <1>12, <1>13, <1>14, <1>15 DEF RInv

(* An answer arrives: the first of its intent.                             *)
LEMMA ReviewAnswer ==
  ASSUME ReAnswer = FALSE, TypeOK, RInv, NEW i \in intents, SessionAnswers(i) PROVE RInv'
<1>1. PICK a \in AnswersTo(i) : results' = results \cup {[of |-> i, ans |-> a]}
  BY DEF SessionAnswers
<1>2. Listed(i) /\ ~ WasApplied(i) /\ UNCHANGED <<status, regs, intents, applied, locals>>
  BY DEF SessionAnswers
<1>3. /\ Live' = Live /\ InHand' = InHand /\ Answered \subseteq Answered'
      /\ \A u : Workers(u)' = Workers(u) /\ (Due(u)' <=> Due(u))
      /\ \A j : WasApplied(j)' <=> WasApplied(j)
  BY <1>1, <1>2 DEF Live, InHand, Answered, WasApplied, Workers, locals, Due
<1>4. AnsweredOnce'
  BY <1>1, <1>2, <1>3 DEF RInv, AnsweredOnce, Answered, Listed, locals
<1>5. Numbered' /\ WellFormed' /\ OneGate' /\ UnderReview' /\ GatesAreLater'
  BY <1>2, <1>3 DEF RInv, Numbered, WellFormed, OneGate, UnderReview, GatesAreLater, locals
<1>6. GateDrafts' /\ WorkerDrafts'
  BY <1>2, <1>3 DEF RInv, GateDrafts, WorkerDrafts, locals
<1>7. LegalMoves' /\ StageWork' /\ PairWork' /\ ListAged'
  BY <1>2 DEF RInv, LegalMoves, StageWork, AtRest, PairWork, ListAged, locals
<1>8. Counted' /\ Repaired'
  BY <1>2, <1>3 DEF RInv, Counted, Repaired, locals
<1>9. DoneIsReviewed'
  BY <1>2, <1>3 DEF RInv, DoneIsReviewed
<1>10. QED
  BY <1>4, <1>5, <1>6, <1>7, <1>8, <1>9 DEF RInv

(* Pauses and edits of task files touch nothing the invariant is about.    *)
LEMMA ReviewElse == ASSUME RInv, UNCHANGED <<files, locals>> PROVE RInv'
<1>1. /\ Live' = Live /\ InHand' = InHand /\ Answered' = Answered
      /\ \A u : Workers(u)' = Workers(u) /\ (Due(u)' <=> Due(u))
      /\ \A j : WasApplied(j)' <=> WasApplied(j)
  BY DEF Live, InHand, Answered, WasApplied, Workers, locals, files, Due
<1>2. Numbered' /\ WellFormed' /\ OneGate' /\ UnderReview' /\ GatesAreLater' /\ AnsweredOnce'
  BY <1>1 DEF RInv, Numbered, WellFormed, OneGate, UnderReview, GatesAreLater,
              AnsweredOnce, files, locals
<1>3. GateDrafts' /\ WorkerDrafts'
  BY <1>1 DEF RInv, GateDrafts, WorkerDrafts, files, locals
<1>4. LegalMoves' /\ StageWork' /\ PairWork' /\ ListAged'
  BY DEF RInv, LegalMoves, StageWork, AtRest, PairWork, ListAged, files, locals
<1>5. Counted' /\ DoneIsReviewed' /\ Repaired'
  BY <1>1 DEF RInv, Counted, DoneIsReviewed, Repaired, files, locals
<1>6. QED
  BY <1>2, <1>3, <1>4, <1>5 DEF RInv

(* No cycle is cut off.                                                    *)
LEMMA NeverCrashes ==
  ASSUME MaxCrashes = 0, TypeOK PROVE ~ Crash
BY DEF Crash, TypeOK

LEMMA ReviewStep ==
  ASSUME Orderly, TypeOK, DInv, RInv, [Next]_vars PROVE RInv'
<1>1. CASE Write
  BY <1>1, ReviewFlip, ReviewFlag, ReviewIntent, ReviewMark DEF Write
<1>2. CASE HealStale
  BY <1>2, ReviewHeal
<1>3. CASE StartupFails \/ SkipHeld \/ NothingToDo \/ ActionTaken \/ CloseSession
  BY <1>3, ReviewExit
<1>4. CASE StatesCompared \/ ReadState \/ WorkersApplied \/ PairsApplied \/ AllDone
  BY <1>4, ReviewRead
<1>5. CASE \E r \in pend : ApplyWorkerResult(r)
  BY <1>5, ReviewWorker
<1>6. CASE ApplyPair
  BY <1>6, ReviewPair DEF ApplyPair
<1>7. CASE DispatchWave \/ DispatchAdvisor
  BY <1>7, ReviewWave, ReviewGate
<1>8. CASE Session
  BY <1>8, ReviewAnswer DEF Session, Orderly
<1>9. CASE UserHolds \/ (\E t \in Tasks : TaskFileEdited(t)) \/ UNCHANGED vars
  BY <1>9, ReviewElse DEF UserHolds, TaskFileEdited, vars
<1>10. ~ Crash
  BY NeverCrashes DEF Orderly
<1>11. QED
  BY <1>1, <1>2, <1>3, <1>4, <1>5, <1>6, <1>7, <1>8, <1>9, <1>10 DEF Next, Cycle, Closed

(* MAP.md is written by nothing but the two status writes.                 *)
LEMMA StatusWrites ==
  ASSUME TypeOK, [Next]_vars, NEW t \in Tasks, status'[t] # status[t]
  PROVE  WriteFlip(t) \/ WriteFlag(t)
<1>1. CASE \E u \in Tasks : WriteFlip(u) \/ WriteFlag(u)
  BY <1>1 DEF WriteFlip, WriteFlag, TypeOK
<1>2. CASE UNCHANGED status
  BY <1>2
<1>3. QED
  BY <1>1, <1>2
     DEF Next, Write, WriteIntent, MarkApplied, Cycle, HealStale, StartupFails,
         StatesCompared, SkipHeld, ReadState, ApplyWorkerResult, WorkersApplied, ApplyPair,
         ApplyPairUnknown, ApplyPairError, ApplyPairApprove, ApplyPairRevise, Pair,
         PairsApplied, DispatchWave, DispatchAdvisor, AllDone, NothingToDo, ActionTaken,
         CloseSession, Crash, Session, SessionAnswers, UserHolds, TaskFileEdited,
         Closed, vars, files

(* A move the loop makes is never one out of DONE or BLOCKED.              *)
LEMMA FinalAction ==
  ASSUME TypeOK, RInv, [Next]_vars, NEW t \in Tasks, status[t] \in {"DONE", "BLOCKED"}
  PROVE  status'[t] = status[t]
BY StatusWrites DEF WriteFlip, WriteFlag, RInv, LegalMoves

-----------------------------------------------------------------------------
(* The theorems.                                                           *)

LEMMA ReviewInvariant == ASSUME Orderly PROVE Spec => []RInv
<1>1. TypeOK /\ DInv /\ RInv /\ [Next]_vars => RInv'
  BY ReviewStep
<1>2. QED
  BY TypeInit, TypeStep, DispatchInit, DispatchStep, ReviewInit, <1>1, PTL DEF Spec

(* A task goes to DONE only on an APPROVE of each of the two scanners of a *)
(* gate opened after its last dispatch (_apply_pending_advisor_results):   *)
(* with healing, failing exit codes, unreadable task files and any         *)
(* guidance, when no cycle is cut off and no answer is repeated.           *)
THEOREM DoneOnlyReviewed == ASSUME Orderly PROVE Spec => []DoneIsReviewed
<1>1. RInv => DoneIsReviewed
  BY DEF RInv
<1>2. QED
  BY ReviewInvariant, <1>1, PTL

(* And it is BLOCKED only after MAX_REVISE_ROUNDS repairs were dispatched  *)
(* after its first attempt (_revise_wave_batch), under the same conditions.*)
THEOREM BlockedOnlyAfterRounds ==
  ASSUME Orderly PROVE Spec => [](Repaired /\ BlockedAfterRounds)
<1>1. TypeOK /\ RInv => Repaired /\ BlockedAfterRounds
  <2> SUFFICES ASSUME TypeOK, RInv, NEW t \in Tasks, status[t] = "BLOCKED"
               PROVE  Cardinality(Workers(t)) + crashes >= MaxReviseRounds + 1
    BY DEF BlockedAfterRounds, RInv
  <2>1. Cardinality(Workers(t)) \in Nat /\ crashes \in Nat /\ MaxReviseRounds \in Nat
    BY WorkersType, BoundAssumption DEF RInv, TypeOK, BoundAssumption
  <2>2. QED
    BY <2>1 DEF RInv, Repaired
<1>2. QED
  BY TypeInit, TypeStep, ReviewInvariant, <1>1, PTL DEF Spec

(* No later write of the loop (_flip_task) takes a task out of DONE or     *)
(* BLOCKED, under the same conditions.                                     *)
THEOREM FinalStaysFinal == ASSUME Orderly PROVE Spec => FinalIsFinal
<1>1. TypeOK /\ RInv /\ [Next]_vars =>
        [\A t \in Tasks : status[t] \in {"DONE", "BLOCKED"} => status'[t] = status[t]]_vars
  BY FinalAction
<1>2. QED
  BY TypeInit, TypeStep, ReviewInvariant, <1>1, PTL DEF Spec, FinalIsFinal

-----------------------------------------------------------------------------
(* Nothing is left in EXECUTING.                                           *)

GatePair(t) ==
  \E i, j \in Live \ InHand : {i.idx, j.idx} = {0, 1} /\ i.key = j.key /\ t \in i.key

(* Guidance without FAILING TASKS: lines, so far.                          *)
FreeText == \A r \in results : ~ r.ans.explicit

(* A scanner intent about to be written has a fellow, written or about to. *)
HasFellow(d) ==
  \E e \in work.enq \cup Live :
    e.kind = "advisor" /\ e.key = d.key /\ {d.idx, e.idx} = {0, 1}

DraftsPaired == \A d \in work.enq : d.kind = "advisor" => HasFellow(d)

(* What is EXECUTING has its gate, gets it or is about to leave.           *)
NoneLeft ==
  \A t \in Tasks :
    /\ status[t] = "EXECUTING" =>
         \/ GatePair(t)
         \/ t \in work.flip \cup work.flag
         \/ \E d \in work.enq : t \in d.key
    /\ work.to = "EXECUTING" /\ t \in work.flip => \E d \in work.enq : t \in d.key

SInv == FreeText /\ DraftsPaired /\ NoneLeft

LEMMA StrandInit == Init => SInv
BY DEF Init, SInv, FreeText, DraftsPaired, NoneLeft, NoWork

(* The writes keep pairs together: scanner intents come in twos.           *)
LEMMA StrandFlip ==
  ASSUME TypeOK, RInv, SInv, NEW t \in Tasks, WriteFlip(t) PROVE SInv'
<1>1. /\ t \in work.flip
      /\ work'.to = work.to /\ work'.flag = work.flag /\ work'.mark = work.mark
      /\ work'.enq = work.enq /\ work'.flip = work.flip \ {t}
  BY DEF WriteFlip, TypeOK, Work
<1>2. /\ status'[t] = work.to
      /\ \A u \in Tasks : u # t => status'[u] = status[u]
      /\ results' = results
  BY DEF WriteFlip, TypeOK
<1>3. Live' = Live /\ InHand' = InHand /\ \A u : GatePair(u)' <=> GatePair(u)
  BY <1>1 DEF WriteFlip, Live, InHand, WasApplied, GatePair
<1>4. FreeText' /\ DraftsPaired'
  BY <1>1, <1>2, <1>3 DEF SInv, FreeText, DraftsPaired, HasFellow
<1>5. NoneLeft'
  BY <1>1, <1>2, <1>3 DEF SInv, NoneLeft
<1>6. QED
  BY <1>4, <1>5 DEF SInv

LEMMA StrandFlag ==
  ASSUME TypeOK, RInv, SInv, NEW t \in Tasks, WriteFlag(t) PROVE SInv'
<1>1. /\ work.flip = {} /\ t \in work.flag /\ work.enq = {} /\ work.to # "EXECUTING"
  BY DEF WriteFlag, RInv, LegalMoves, StageWork
<1>2. /\ work'.flag = work.flag \ {t} /\ work'.mark = work.mark /\ work'.enq = {}
      /\ \/ work'.flip = {} /\ work'.to = work.to /\ status'[t] = "BLOCKED"
         \/ work'.flip = {t} /\ work'.to = "PENDING"
  BY <1>1 DEF WriteFlag, TypeOK, Work
<1>3. /\ \A u \in Tasks : u # t => status'[u] = status[u]
      /\ results' = results
  BY DEF WriteFlag, TypeOK
<1>4. Live' = Live /\ InHand' = InHand /\ \A u : GatePair(u)' <=> GatePair(u)
  BY <1>2 DEF WriteFlag, Live, InHand, WasApplied, GatePair
<1>5. NoneLeft'
  BY <1>1, <1>2, <1>3, <1>4 DEF SInv, NoneLeft
<1>6. QED
  BY <1>2, <1>3, <1>5 DEF SInv, FreeText, DraftsPaired

LEMMA StrandIntent ==
  ASSUME TypeOK, RInv, SInv, NEW d \in work.enq, WriteIntent(d) PROVE SInv'
<1>1. /\ work.flip = {} /\ work.flag = {} /\ work.mark = {}
      /\ work'.flag = {} /\ work'.mark = {} /\ work'.flip = {}
      /\ work'.enq = work.enq \ {d}
      /\ UNCHANGED <<status, results, applied>>
  BY DEF WriteIntent, TypeOK, Work, RInv, StageWork
<1>2. PICK i : /\ i.id = Cardinality(intents) + 1
               /\ i.kind = d.kind /\ i.key = d.key /\ i.idx = d.idx
               /\ intents' = intents \cup {i}
  BY DEF WriteIntent
<1>3. /\ \A j \in intents : j.id <= Cardinality(intents) /\ j.id \in Nat
      /\ Cardinality(intents) \in Nat
  BY FS_CardinalityType DEF RInv, Numbered, TypeOK, Intent
<1>4. ~ WasApplied(i)
  <2>1. i \notin intents
    BY <1>2, <1>3
  <2>2. QED
    BY <2>1 DEF WasApplied, RInv, AnsweredOnce, Answered
<1>5. /\ Live' = IF d.kind = "advisor" THEN Live \cup {i} ELSE Live
      /\ InHand = {} /\ InHand' = {}
  BY <1>1, <1>2, <1>4 DEF Live, InHand, WasApplied
<1>6. \A u : GatePair(u) => GatePair(u)'
  BY <1>5 DEF GatePair
<1>7. ASSUME NEW e \in work.enq, e # d, e.kind = "advisor" PROVE HasFellow(e)'
  <2>1. PICK f \in work.enq \cup Live :
          f.kind = "advisor" /\ f.key = e.key /\ {e.idx, f.idx} = {0, 1}
    BY <1>7 DEF SInv, DraftsPaired, HasFellow
  <2>2. CASE f = d
    BY <2>1, <2>2, <1>2, <1>5 DEF HasFellow
  <2>3. CASE f # d
    BY <2>1, <2>3, <1>1, <1>5 DEF HasFellow
  <2>4. QED
    BY <2>2, <2>3
<1>8. ASSUME NEW t \in d.key
      PROVE  GatePair(t)' \/ \E e \in work'.enq : t \in e.key
  <2>1. d.kind = "advisor"
    BY <1>8 DEF RInv, WellFormed, Envelope
  <2>2. PICK f \in work.enq \cup Live :
          f.kind = "advisor" /\ f.key = d.key /\ {d.idx, f.idx} = {0, 1}
    BY <2>1 DEF SInv, DraftsPaired, HasFellow
  <2>3. f # d
    <3>1. 0 \in {d.idx, f.idx} /\ 1 \in {d.idx, f.idx}
      BY <2>2
    <3>2. QED
      BY <3>1
  <2>4. CASE f \in work.enq
    BY <2>2, <2>3, <2>4, <1>1, <1>8
  <2>5. CASE f \in Live
    BY <2>1, <2>2, <2>5, <1>2, <1>5, <1>8 DEF GatePair
  <2>6. QED
    BY <2>4, <2>5
<1>9. NoneLeft'
  BY <1>1, <1>6, <1>8 DEF SInv, NoneLeft
<1>10. QED
  BY <1>1, <1>7, <1>9 DEF SInv, FreeText, DraftsPaired

LEMMA StrandMark ==
  ASSUME TypeOK, RInv, SInv, NEW r \in work.mark, MarkApplied(r) PROVE SInv'
<1>1. /\ work.flip = {} /\ work.flag = {} /\ work.enq = {}
      /\ work'.flag = {} /\ work'.mark = work.mark \ {r}
      /\ work'.flip = {} /\ work'.enq = {}
  BY DEF MarkApplied, TypeOK, Work, RInv, StageWork
<1>2. /\ UNCHANGED <<status, intents>> /\ results' = results \ {r}
      /\ applied' = {q \in applied : q.of # r.of} \cup {r}
  BY DEF MarkApplied
<1>3. \A x \in work.mark : x # r => x.of # r.of
  BY DEF RInv, AnsweredOnce
<1>4. \A i : WasApplied(i)' <=> WasApplied(i) \/ i = r.of
  BY <1>2 DEF WasApplied
<1>5. Live' \ InHand' = Live \ InHand
  BY <1>1, <1>2, <1>3, <1>4 DEF Live, InHand
<1>6. \A u : GatePair(u) => GatePair(u)'
  BY <1>5 DEF GatePair
<1>7. QED
  BY <1>1, <1>2, <1>6 DEF SInv, FreeText, DraftsPaired, NoneLeft

(* A stage from rest that writes only within one gate in hand, if any, and *)
(* takes all of it, strands nobody.                                        *)
LEMMA StrandPlan ==
  ASSUME TypeOK, RInv, SInv, AtRest, work'.enq = {},
         UNCHANGED <<status, intents, results, applied>>,
         \A i \in InHand' \cap Live : i.key \subseteq work'.flip \cup work'.flag,
         work'.to # "EXECUTING" \/ work'.flip = {}
  PROVE  SInv'
<1>1. /\ work.flip = {} /\ work.flag = {} /\ work.enq = {} /\ work.mark = {}
  BY DEF AtRest
<1>2. Live' = Live /\ InHand = {}
  BY <1>1 DEF Live, InHand, WasApplied
<1>3. \A u : GatePair(u) => GatePair(u)' \/ u \in work'.flip \cup work'.flag
  BY <1>2 DEF GatePair
<1>4. NoneLeft'
  BY <1>1, <1>3 DEF SInv, NoneLeft
<1>5. QED
  BY <1>4 DEF SInv, FreeText, DraftsPaired

(* A pair that is applied takes every task of its gate somewhere: without  *)
(* a FAILING TASKS: line the tasks flagged one by one and all together are *)
(* the same, so what is not flagged is restored.                           *)
LEMMA StrandPair ==
  ASSUME TypeOK, RInv, SInv, NEW r \in pend, NEW q \in pend,
         \/ ApplyPairUnknown(r, q) \/ ApplyPairError(r, q)
         \/ ApplyPairApprove(r, q) \/ ApplyPairRevise(r, q)
  PROVE  SInv'
<1>1. Pair(r, q)
  BY DEF ApplyPairUnknown, ApplyPairError, ApplyPairApprove, ApplyPairRevise
<1>2. pc = "pairs" /\ AtRest /\ UNCHANGED files
  BY <1>1 DEF Pair
<1>3. /\ r \in results /\ q \in results
      /\ r.of \in Live /\ q.of \in Live
      /\ r.of.key = q.of.key /\ r.of.key \subseteq Tasks
      /\ Batch(r, q) = r.of.key
  BY <1>1, PairFacts
<1>4. /\ work'.enq = {}
      /\ work'.to # "EXECUTING" \/ work'.flip = {}
      /\ InHand' \subseteq {r.of, q.of}
      /\ \A i \in InHand' : r.of.key \subseteq work'.flip \cup work'.flag
  <2>1. CASE ApplyPairUnknown(r, q)
    BY <2>1, <1>2 DEF ApplyPairUnknown, AtRest, InHand
  <2>2. CASE ApplyPairError(r, q)
    BY <2>2, <1>3 DEF ApplyPairError, Flips, NoWork, InHand
  <2>3. CASE ApplyPairApprove(r, q)
    BY <2>3, <1>3 DEF ApplyPairApprove, Flips, NoWork, InHand
  <2>4. CASE ApplyPairRevise(r, q)
    <3>1. work' = [Flips("REVIEW", Restored(r, q)) EXCEPT
                     !.flag = OrAll(FlaggedCombined(r, q), Batch(r, q)), !.mark = {r, q}]
      BY <2>4 DEF ApplyPairRevise
    <3>2. /\ work'.enq = {} /\ work'.to = "REVIEW" /\ work'.mark = {r, q}
          /\ work'.flip = Restored(r, q)
          /\ work'.flag = OrAll(FlaggedCombined(r, q), Batch(r, q))
      BY <3>1 DEF Flips, NoWork
    <3>3. FlaggedCombined(r, q) = FlaggedEach(r, q)
      BY <1>3 DEF SInv, FreeText, FlaggedCombined, FlaggedEach
    <3>4. \A t \in Batch(r, q) : status[t] = "EXECUTING" /\ t \in DOMAIN snap
      <4>1. InHand = {}
        BY <1>2 DEF AtRest, InHand
      <4>2. QED
        BY <4>1, <1>3, <2>4 DEF RInv, UnderReview, ApplyPairRevise
    <3>5. \A t \in Batch(r, q) : snap[t] = "EXECUTING"
      BY <3>4, <1>2 DEF RInv, ListAged
    <3>6. r.of.key \subseteq work'.flip \cup work'.flag
      BY <3>2, <3>3, <3>5, <1>3 DEF Restored
    <3>7. QED
      BY <3>2, <3>6 DEF InHand
  <2>5. QED
    BY <2>1, <2>2, <2>3, <2>4
<1>5. \A i \in InHand' \cap Live : i.key \subseteq work'.flip \cup work'.flag
  BY <1>3, <1>4
<1>6. QED
  BY <1>2, <1>4, <1>5, StrandPlan DEF files

LEMMA StrandGate == ASSUME TypeOK, RInv, SInv, DispatchAdvisor PROVE SInv'
<1> DEFINE T == Decision.tasks
<1>1. /\ AtRest /\ UNCHANGED files
      /\ work'.to = "EXECUTING" /\ work'.flip = T /\ work'.flag = {} /\ work'.mark = {}
      /\ work'.enq = ScannerPair(T)
  BY DEF DispatchAdvisor, StartWrites, Flips, NoWork
<1> HIDE DEF T
<1>2. \A k \in {0, 1} : \E d \in work'.enq : d.kind = "advisor" /\ d.key = T /\ d.idx = k
  <2> TAKE k \in {0, 1}
  <2> DEFINE d == [kind |-> "advisor", paths |-> Shard(T, k), key |-> T, idx |-> k]
  <2>1. d \in work'.enq
    BY <1>1 DEF ScannerPair
  <2>2. WITNESS d \in work'.enq
  <2>3. QED
    OBVIOUS
<1>3. \A d \in work'.enq : d.kind = "advisor" /\ d.key = T /\ d.idx \in {0, 1}
  BY <1>1 DEF ScannerPair
<1>4. DraftsPaired'
  BY <1>2, <1>3 DEF DraftsPaired, HasFellow
<1>5. \A u : GatePair(u) <=> GatePair(u)'
  BY <1>1 DEF GatePair, Live, InHand, WasApplied, AtRest, files
<1>6. NoneLeft'
  BY <1>1, <1>2, <1>5 DEF SInv, NoneLeft, AtRest, files
<1>7. QED
  BY <1>1, <1>4, <1>6 DEF SInv, FreeText, files

LEMMA StrandWave == ASSUME TypeOK, RInv, SInv, DispatchWave PROVE SInv'
<1>1. /\ AtRest /\ UNCHANGED files
      /\ work'.to = "IN_PROGRESS" /\ work'.mark = {}
      /\ work'.enq = {WorkerDraft(t) : t \in Decision.tasks}
  BY DEF DispatchWave, StartWrites, Flips, NoWork
<1>2. \A d \in work'.enq : d.kind = "worker"
  BY <1>1 DEF WorkerDraft
<1>3. \A u : GatePair(u) <=> GatePair(u)'
  BY <1>1 DEF GatePair, Live, InHand, WasApplied, AtRest, files
<1>4. NoneLeft'
  BY <1>1, <1>3 DEF SInv, NoneLeft, AtRest, files
<1>5. QED
  BY <1>1, <1>2, <1>4 DEF SInv, FreeText, DraftsPaired, files

LEMMA StrandWorker ==
  ASSUME TypeOK, RInv, SInv, NEW r \in pend, ApplyWorkerResult(r) PROVE SInv'
<1>1. /\ AtRest /\ r.of.kind = "worker" /\ UNCHANGED files
  BY DEF ApplyWorkerResult
<1>2. \/ UNCHANGED work
      \/ work'.enq = {} /\ work'.to # "EXECUTING" /\ work'.mark = {r}
  BY DEF ApplyWorkerResult, Flips, NoWork
<1>3. work'.enq = {} /\ (work'.to # "EXECUTING" \/ work'.flip = {}) /\ InHand' \cap Live = {}
  BY <1>1, <1>2 DEF AtRest, InHand, Live
<1>4. QED
  BY <1>1, <1>3, StrandPlan DEF files

LEMMA StrandAnswer ==
  ASSUME ExplicitLines \subseteq {FALSE}, TypeOK, RInv, SInv,
         NEW i \in intents, SessionAnswers(i)
  PROVE  SInv'
<1>1. PICK a \in AnswersTo(i) : results' = results \cup {[of |-> i, ans |-> a]}
  BY DEF SessionAnswers
<1>2. ~ a.explicit
  <2>1. CASE a \in {Plain("ok"), Plain("error")}
    BY <2>1 DEF Plain
  <2>2. CASE a \in [verdict : {"revise"}, flagged : SUBSET i.key, explicit : ExplicitLines]
    <3>1. a.explicit \in ExplicitLines
      BY <2>2
    <3>2. QED
      BY <3>1
  <2>3. QED
    BY <2>1, <2>2 DEF AnswersTo
<1>3. UNCHANGED <<status, intents, applied, locals>>
  BY DEF SessionAnswers
<1>4. Live' = Live /\ InHand' = InHand /\ \A u : GatePair(u)' <=> GatePair(u)
  BY <1>3 DEF Live, InHand, WasApplied, GatePair, locals
<1>5. DraftsPaired'
  BY <1>3, <1>4 DEF SInv, DraftsPaired, HasFellow, locals
<1>6. NoneLeft'
  BY <1>3, <1>4 DEF SInv, NoneLeft, locals
<1>7. QED
  BY <1>1, <1>2, <1>5, <1>6 DEF SInv, FreeText

LEMMA StrandStep ==
  ASSUME Orderly, ExplicitLines \subseteq {FALSE}, TypeOK, RInv, SInv, [Next]_vars
  PROVE  SInv'
<1>1. CASE Write
  BY <1>1, StrandFlip, StrandFlag, StrandIntent, StrandMark DEF Write
<1>2. CASE HealStale
  <2>1. /\ AtRest /\ UNCHANGED files
        /\ work'.to = "PENDING" /\ work'.enq = {} /\ InHand' = {}
    BY <1>2 DEF HealStale, Flips, NoWork, InHand, RInv, StageWork
  <2>2. QED
    BY <2>1, StrandPlan DEF files
<1>3. CASE \/ StartupFails \/ SkipHeld \/ NothingToDo \/ ActionTaken \/ CloseSession
           \/ StatesCompared \/ ReadState \/ WorkersApplied \/ PairsApplied \/ AllDone
  <2>1. AtRest /\ UNCHANGED files /\ work' = NoWork
    BY <1>3 DEF StartupFails, SkipHeld, NothingToDo, ActionTaken, CloseSession, Exit,
                StatesCompared, ReadState, WorkersApplied, PairsApplied, AllDone, RInv,
                StageWork
  <2>2. work'.enq = {} /\ work'.flip = {} /\ InHand' = {}
    BY <2>1 DEF NoWork, InHand
  <2>3. QED
    BY <2>1, <2>2, StrandPlan DEF files
<1>4. CASE \E r \in pend : ApplyWorkerResult(r)
  BY <1>4, StrandWorker
<1>5. CASE ApplyPair
  BY <1>5, StrandPair DEF ApplyPair
<1>6. CASE DispatchWave \/ DispatchAdvisor
  BY <1>6, StrandWave, StrandGate
<1>7. CASE Session
  BY <1>7, StrandAnswer DEF Session
<1>8. CASE UserHolds \/ (\E t \in Tasks : TaskFileEdited(t)) \/ UNCHANGED vars
  <2>1. UNCHANGED <<files, locals>>
    BY <1>8 DEF UserHolds, TaskFileEdited, vars
  <2>2. Live' = Live /\ InHand' = InHand /\ \A u : GatePair(u)' <=> GatePair(u)
    BY <2>1 DEF Live, InHand, WasApplied, GatePair, locals, files
  <2>3. DraftsPaired'
    BY <2>1, <2>2 DEF SInv, DraftsPaired, HasFellow, locals
  <2>4. NoneLeft'
    BY <2>1, <2>2 DEF SInv, NoneLeft, locals, files
  <2>5. QED
    BY <2>1, <2>3, <2>4 DEF SInv, FreeText, files
<1>9. ~ Crash
  BY NeverCrashes DEF Orderly
<1>10. QED
  BY <1>1, <1>2, <1>3, <1>4, <1>5, <1>6, <1>7, <1>8, <1>9 DEF Next, Cycle, Closed

(* When guidance carries no FAILING TASKS: line, a task left in EXECUTING  *)
(* by a cycle has both its scanner intents still to be answered or         *)
(* applied (_revise_wave_batch, _apply_pending_advisor_results), under the *)
(* same conditions.                                                        *)
THEOREM NobodyStranded ==
  ASSUME Orderly, ExplicitLines \subseteq {FALSE} PROVE Spec => []NoneStranded
<1>1. RInv /\ SInv => NoneStranded
  BY DEF RInv, StageWork, AtRest, SInv, NoneLeft, GatePair, Live, NoneStranded
<1>2. TypeOK /\ RInv /\ SInv /\ [Next]_vars => SInv'
  BY StrandStep
<1>3. QED
  BY TypeInit, TypeStep, ReviewInvariant, StrandInit, <1>1, <1>2, PTL DEF Spec

-----------------------------------------------------------------------------
(* The wave of a gate rests.                                               *)

(* Of the waves these tasks are in, all the other tasks are DONE, but for  *)
(* those whose file may not parse.                                         *)
RestsAround(K) ==
  \A t \in K, u \in Tasks \ (K \cup Breakable) :
    Wave[u] = Wave[t] => status[u] = "DONE"

WaveRests ==
  /\ \A i \in Live : RestsAround(i.key) /\ \A t \in i.key : status[t] # "IN_PROGRESS"
  /\ \A d \in work.enq : d.kind = "advisor" => RestsAround(d.key)

LEMMA RestInit == Init => WaveRests
BY DEF Init, WaveRests, Live, NoWork

LEMMA StaysAround ==
  ASSUME TypeOK, RInv, [Next]_vars, NEW K, RestsAround(K) PROVE RestsAround(K)'
BY FinalAction DEF RestsAround

(* Nothing is started under a gate.                                        *)
LEMMA StaysUnstarted ==
  ASSUME TypeOK, DInv, RInv, [Next]_vars, NEW i \in Live, NEW t \in i.key,
         status[t] # "IN_PROGRESS"
  PROVE  status'[t] # "IN_PROGRESS"
<1> SUFFICES ASSUME status'[t] = "IN_PROGRESS" PROVE FALSE
  OBVIOUS
<1>1. t \in Tasks
  BY DEF Live, TypeOK, Intent
<1>2. WriteFlip(t)
  BY <1>1, StatusWrites DEF WriteFlag, TypeOK
<1>3. t \in work.flip /\ work.to = "IN_PROGRESS"
  BY <1>1, <1>2 DEF WriteFlip, TypeOK
<1>4. work.mark = {}
  BY <1>3 DEF DInv, StartsOnlyInAct
<1>5. QED
  BY <1>3, <1>4 DEF RInv, UnderReview, InHand

(* The wave gate: the wave's tasks are DONE or in REVIEW, and all those in *)
(* REVIEW are reviewed together.                                           *)
LEMMA GateCoversWave ==
  ASSUME TypeOK, Agrees, Tasks \ Breakable \subseteq DOMAIN snap, Decision.kind = "dispatch_advisor"
  PROVE  RestsAround(Decision.tasks)
<1>1. Decision.tasks = EarliestReview(snap) /\ GateReached(snap)
  BY DEF Decision, Decide, Action
<1>2. ASSUME NEW t \in EarliestReview(snap), NEW u \in Tasks \ Breakable,
             Wave[u] = Wave[t], u \notin EarliestReview(snap)
      PROVE  status[u] = "DONE"
  <2>1. snap[u] = status[u] /\ u \in InWave(snap, Wave[t])
    BY <1>2 DEF Agrees, InWave
  <2>2. snap[u] \in {"DONE", "REVIEW"}
    BY <1>1, <1>2, <2>1 DEF GateReached
  <2>3. snap[u] # "REVIEW"
    BY <1>2 DEF EarliestReview, With
  <2>4. QED
    BY <2>1, <2>2, <2>3
<1>3. QED
  BY <1>1, <1>2 DEF RestsAround

LEMMA RestStep ==
  ASSUME Orderly, TypeOK, DInv, CInv, RInv, WaveRests, [Next]_vars
  PROVE  WaveRests'
<1>1. \A i \in Live : RestsAround(i.key)' /\ \A t \in i.key : status'[t] # "IN_PROGRESS"
  BY StaysAround, StaysUnstarted DEF WaveRests
<1>2. \A d \in work.enq : d.kind = "advisor" => RestsAround(d.key)'
  BY StaysAround DEF WaveRests
<1>3. CASE \E d \in work.enq : WriteIntent(d)
  <2>1. PICK d \in work.enq : WriteIntent(d)
    BY <1>3
  <2>2. PICK i : /\ i.kind = d.kind /\ i.key = d.key /\ intents' = intents \cup {i}
    BY <2>1 DEF WriteIntent
  <2>3. work'.enq \subseteq work.enq /\ UNCHANGED <<status, applied>> /\ work.flip = {}
    BY <2>1 DEF WriteIntent, TypeOK, Work
  <2>4. Live' \subseteq Live \cup {i} /\ (i \in Live' => d.kind = "advisor")
    BY <2>2, <2>3 DEF Live, WasApplied
  <2>5. d.kind = "advisor" => \A t \in d.key : status'[t] # "IN_PROGRESS"
    BY <2>3 DEF RInv, GateDrafts
  <2>6. QED
    BY <2>2, <2>3, <2>4, <2>5, <1>1, <1>2 DEF WaveRests
<1>4. CASE DispatchAdvisor
  <2>1. /\ UNCHANGED files /\ pc = "decide" /\ Decision.kind = "dispatch_advisor"
        /\ work'.enq = ScannerPair(Decision.tasks)
    BY <1>4 DEF DispatchAdvisor, StartWrites
  <2>2. PICK K : K = Decision.tasks
    OBVIOUS
  <2>3. \A d \in work'.enq : d.key = K
    BY <2>1, <2>2 DEF ScannerPair
  <2>4. RestsAround(K)
    BY <2>1, <2>2, GateCoversWave DEF DInv, DecidesInSync, CInv, Whole
  <2>5. RestsAround(K)'
    BY <2>4, StaysAround
  <2>6. Live' = Live
    BY <2>1 DEF Live, WasApplied, files
  <2>7. QED
    BY <2>3, <2>5, <2>6, <1>1 DEF WaveRests
<1>5. CASE ~ DispatchAdvisor /\ ~ \E d \in work.enq : WriteIntent(d)
  <2>1. Live' \subseteq Live
    <3>1. UNCHANGED intents /\ \A i : WasApplied(i) => WasApplied(i)'
      <4>1. CASE \E r \in work.mark : MarkApplied(r)
        BY <4>1 DEF MarkApplied, WasApplied
      <4>2. CASE UNCHANGED <<intents, applied>>
        BY <4>2 DEF WasApplied
      <4>3. QED
        BY <1>5, <4>1, <4>2
           DEF Next, Write, WriteFlip, WriteFlag, Cycle, HealStale, StartupFails,
               StatesCompared, SkipHeld, ReadState, ApplyWorkerResult, WorkersApplied,
               ApplyPair, ApplyPairUnknown, ApplyPairError, ApplyPairApprove,
               ApplyPairRevise, Pair, PairsApplied, DispatchWave, AllDone, NothingToDo,
               ActionTaken, CloseSession, Crash, Session, SessionAnswers, UserHolds,
               TaskFileEdited, Closed, vars, files
    <3>2. QED
      BY <3>1 DEF Live
  <2>2. \A d \in work'.enq : d.kind = "advisor" => d \in work.enq
    <3>1. CASE Write
      BY <3>1, <1>5 DEF Write, WriteFlip, WriteFlag, MarkApplied, TypeOK, Work
    <3>2. CASE DispatchWave
      BY <3>2 DEF DispatchWave, StartWrites, WorkerDraft
    <3>3. CASE \E r \in pend : ApplyWorkerResult(r)
      BY <3>3 DEF ApplyWorkerResult, Flips, NoWork
    <3>4. CASE ApplyPair
      BY <3>4 DEF ApplyPair, ApplyPairUnknown, ApplyPairError, ApplyPairApprove,
                  ApplyPairRevise, Flips, NoWork
    <3>5. CASE \/ HealStale \/ StartupFails \/ SkipHeld \/ NothingToDo \/ ActionTaken
               \/ CloseSession \/ Crash \/ StatesCompared \/ ReadState \/ WorkersApplied
               \/ PairsApplied \/ AllDone
      <4>1. CASE HealStale
        <5>1. PICK T : work' = Flips("PENDING", T)
          BY <4>1 DEF HealStale
        <5>2. QED
          BY <5>1 DEF Flips, NoWork
      <4>2. CASE ~ HealStale
        <5>1. work' = NoWork
          BY <3>5, <4>2 DEF StartupFails, SkipHeld, NothingToDo, ActionTaken,
                            CloseSession, Crash, StatesCompared, ReadState,
                            WorkersApplied, PairsApplied, AllDone, Exit
        <5>2. QED
          BY <5>1 DEF NoWork
      <4>3. QED
        BY <4>1, <4>2
    <3>6. CASE Session \/ UserHolds \/ (\E t \in Tasks : TaskFileEdited(t))
               \/ UNCHANGED vars
      BY <3>6 DEF Session, SessionAnswers, UserHolds, TaskFileEdited, vars, locals
    <3>7. QED
      BY <1>5, <3>1, <3>2, <3>3, <3>4, <3>5, <3>6 DEF Next, Cycle, Closed
  <2>3. QED
    BY <2>1, <2>2, <1>1, <1>2 DEF WaveRests
<1>6. QED
  BY <1>3, <1>4, <1>5

LEMMA RestsUnstarted ==
  ASSUME TypeOK, RInv, SInv, WaveRests, NEW t \in Tasks, NEW u \in Tasks \ Breakable,
         Wave[t] = Wave[u], status[t] = "EXECUTING"
  PROVE  status[u] # "IN_PROGRESS"
<1> SUFFICES ASSUME status[u] = "IN_PROGRESS" PROVE FALSE
  OBVIOUS
<1>1. CASE \E i \in Live : t \in i.key
  BY <1>1 DEF WaveRests, RestsAround
<1>2. CASE t \in work.flip \cup work.flag
  <2>1. pc = "pairs"
    BY <1>2 DEF RInv, LegalMoves
  <2>2. PICK r \in work.mark : r.of.kind = "advisor" /\ t \in r.of.key
    BY <1>2, <2>1 DEF RInv, PairWork
  <2>3. r.of \in Live
    BY <2>2 DEF RInv, AnsweredOnce, Answered, Live
  <2>4. QED
    BY <2>2, <2>3, <1>1
<1>3. CASE \E d \in work.enq : t \in d.key
  <2>1. PICK d \in work.enq : t \in d.key
    BY <1>3
  <2>2. d.kind = "advisor"
    BY <2>1 DEF RInv, WellFormed, Envelope
  <2>3. u \in d.key
    BY <2>1, <2>2 DEF WaveRests, RestsAround
  <2>4. QED
    BY <2>2, <2>3 DEF RInv, GateDrafts, LegalMoves
<1>4. QED
  BY <1>1, <1>2, <1>3 DEF SInv, NoneLeft, GatePair

-----------------------------------------------------------------------------
(* One worker at a time, as long as none is given up.                      *)

(* A task is dispatched again only when every earlier dispatch was         *)
(* answered and the answer applied.                                        *)
InTurn == \A t \in Tasks : \A i, j \in Workers(t) : i.id < j.id => WasApplied(i)

(* A dispatch not answered and applied is one of a task IN_PROGRESS, or it *)
(* is being applied; and nothing is healed.                                *)
OneWorker ==
  /\ InTurn
  /\ \A t \in Tasks : \A i \in Workers(t) :
       WasApplied(i) \/ i \in InHand \/ status[t] = "IN_PROGRESS"
  /\ \A d \in work.enq : d.kind = "worker" => \A t \in d.paths :
       /\ \A i \in Workers(t) : WasApplied(i)
       /\ \A e \in work.enq : e.kind = "worker" /\ t \in e.paths => e = d
  /\ pc = "heal" => work.flip = {}
  /\ pc = "workers" => \A t \in work.flip : \E r \in work.mark : r.of \in Workers(t)

LEMMA WorkerInit == Init => OneWorker
BY DEF Init, OneWorker, InTurn, Workers, NoWork

(* Of one task at most one dispatch is not applied.                        *)
LEMMA OneUnapplied ==
  ASSUME TypeOK, RInv, InTurn, NEW t \in Tasks,
         NEW i \in Workers(t), NEW j \in Workers(t), ~ WasApplied(i), ~ WasApplied(j)
  PROVE  i = j
<1>1. i \in intents /\ j \in intents /\ i.id \in Nat /\ j.id \in Nat
  BY DEF Workers, TypeOK, Intent
<1>2. ~ (i.id < j.id) /\ ~ (j.id < i.id)
  BY DEF InTurn
<1>3. i.id = j.id
  BY <1>1, <1>2
<1>4. QED
  BY <1>1, <1>3 DEF RInv, Numbered

LEMMA WorkerFlip ==
  ASSUME TypeOK, RInv, OneWorker, NEW t \in Tasks, WriteFlip(t) PROVE OneWorker'
<1>1. /\ t \in work.flip
      /\ work'.mark = work.mark /\ work'.enq = work.enq /\ work'.flip = work.flip \ {t}
  BY DEF WriteFlip, TypeOK, Work
<1>2. /\ status'[t] = work.to /\ \A u \in Tasks : u # t => status'[u] = status[u]
      /\ pc' = pc
  BY DEF WriteFlip, TypeOK
<1>3. /\ InHand' = InHand /\ (\A u : Workers(u)' = Workers(u))
      /\ \A i : WasApplied(i)' <=> WasApplied(i)
  BY <1>1 DEF WriteFlip, InHand, Workers, WasApplied
<1>4. ASSUME NEW i \in Workers(t), status[t] = "IN_PROGRESS"
      PROVE  WasApplied(i) \/ i \in InHand
  <2>1. pc = "workers"
    BY <1>1, <1>4 DEF RInv, LegalMoves, OneWorker
  <2>2. PICK r \in work.mark : r.of \in Workers(t)
    BY <1>1, <2>1 DEF OneWorker
  <2>3. ~ WasApplied(r.of) /\ r.of \in InHand
    BY DEF RInv, AnsweredOnce, InHand
  <2>4. QED
    BY <2>2, <2>3, OneUnapplied DEF OneWorker
<1>5. \A u \in Tasks : \A i \in Workers(u) :
        WasApplied(i) \/ i \in InHand \/ status'[u] = "IN_PROGRESS"
  BY <1>2, <1>4 DEF OneWorker
<1>6. InTurn'
  BY <1>3 DEF OneWorker, InTurn
<1>7. QED
  BY <1>1, <1>2, <1>3, <1>5, <1>6 DEF OneWorker

LEMMA WorkerFlag ==
  ASSUME TypeOK, RInv, OneWorker, NEW t \in Tasks, WriteFlag(t) PROVE OneWorker'
<1>1. /\ t \in work.flag /\ pc = "pairs" /\ pc' = pc /\ work.enq = {}
      /\ status[t] # "IN_PROGRESS"
  BY DEF WriteFlag, RInv, LegalMoves, StageWork
<1>2. /\ work'.mark = work.mark /\ work'.enq = work.enq
      /\ \A u \in Tasks : u # t => status'[u] = status[u]
  BY DEF WriteFlag, TypeOK, Work
<1>3. /\ InHand' = InHand /\ (\A u : Workers(u)' = Workers(u))
      /\ \A i : WasApplied(i)' <=> WasApplied(i)
  BY <1>2 DEF WriteFlag, InHand, Workers, WasApplied
<1>4. InTurn'
  BY <1>3 DEF OneWorker, InTurn
<1>5. QED
  BY <1>1, <1>2, <1>3, <1>4 DEF OneWorker

LEMMA WorkerIntent ==
  ASSUME TypeOK, RInv, OneWorker, NEW d \in work.enq, WriteIntent(d) PROVE OneWorker'
<1>1. /\ work.flip = {} /\ work'.flip = {} /\ work'.mark = work.mark
      /\ work'.enq = work.enq \ {d} /\ pc' = pc
      /\ UNCHANGED <<status, applied>>
  BY DEF WriteIntent, TypeOK, Work
<1>2. PICK i : /\ i.id = Cardinality(intents) + 1
               /\ i.kind = d.kind /\ i.paths = d.paths
               /\ intents' = intents \cup {i}
  BY DEF WriteIntent
<1>3. /\ \A j \in intents : j.id < i.id /\ j.id \in Nat
      /\ i.id \in Nat
  BY <1>2, FS_CardinalityType DEF RInv, Numbered, TypeOK, Intent
<1>4. /\ InHand' = InHand /\ \A j : WasApplied(j)' <=> WasApplied(j)
  BY <1>1 DEF InHand, WasApplied
<1>5. \A u : \/ Workers(u)' = Workers(u)
             \/ Workers(u)' = Workers(u) \cup {i} /\ d.kind = "worker" /\ u \in d.paths
  BY <1>2 DEF Workers
<1>6. \A u \in d.paths : d.kind = "worker" =>
        status[u] = "IN_PROGRESS" /\ \A j \in Workers(u) : WasApplied(j)
  BY <1>1 DEF RInv, WorkerDrafts, OneWorker
<1>7. InTurn'
  <2> SUFFICES ASSUME NEW u \in Tasks, NEW j \in Workers(u)', NEW k \in Workers(u)',
                      j.id < k.id
               PROVE  WasApplied(j)'
    BY DEF InTurn
  <2>1. CASE j \in Workers(u) /\ k \in Workers(u)
    BY <2>1, <1>4 DEF OneWorker, InTurn
  <2>2. CASE j \in Workers(u) /\ k \notin Workers(u)
    BY <2>2, <1>4, <1>5, <1>6
  <2>3. CASE j \notin Workers(u)
    <3>1. j = i /\ k \in intents \cup {i}
      BY <2>3, <1>2, <1>5 DEF Workers
    <3>2. QED
      BY <3>1, <1>3
  <2>4. QED
    BY <2>1, <2>2, <2>3
<1>8. \A u \in Tasks : \A j \in Workers(u)' :
        WasApplied(j) \/ j \in InHand \/ status[u] = "IN_PROGRESS"
  BY <1>5, <1>6 DEF OneWorker
<1>9. \A e \in work'.enq : e.kind = "worker" => \A u \in e.paths :
        /\ \A j \in Workers(u)' : WasApplied(j)
        /\ \A f \in work'.enq : f.kind = "worker" /\ u \in f.paths => f = e
  BY <1>1, <1>5 DEF OneWorker
<1>10. QED
  BY <1>1, <1>4, <1>7, <1>8, <1>9 DEF OneWorker

LEMMA WorkerMark ==
  ASSUME TypeOK, RInv, OneWorker, NEW r \in work.mark, MarkApplied(r) PROVE OneWorker'
<1>1. /\ work.flip = {} /\ work.enq = {} /\ work'.flip = {} /\ work'.enq = {}
      /\ work'.mark = work.mark \ {r} /\ UNCHANGED <<status, intents>>
      /\ applied' = {q \in applied : q.of # r.of} \cup {r}
  BY DEF MarkApplied, TypeOK, Work, RInv, StageWork
<1>2. /\ (\A u : Workers(u)' = Workers(u))
      /\ (\A i : WasApplied(i) \/ i = r.of => WasApplied(i)')
      /\ \A i \in InHand : i = r.of \/ i \in InHand'
  BY <1>1 DEF Workers, WasApplied, InHand
<1>3. InTurn'
  BY <1>2 DEF OneWorker, InTurn
<1>4. QED
  BY <1>1, <1>2, <1>3 DEF OneWorker

(* A stage that starts from rest and dispatches no worker.                 *)
LEMMA WorkerPlan ==
  ASSUME RInv, OneWorker, AtRest, UNCHANGED files,
         \A d \in work'.enq : d.kind = "advisor",
         pc' = "heal" => work'.flip = {},
         pc' = "workers" => \A t \in work'.flip : \E r \in work'.mark : r.of \in Workers(t)
  PROVE  OneWorker'
<1>1. InHand = {}
  BY DEF AtRest, InHand
<1>2. (\A u : Workers(u)' = Workers(u)) /\ \A i : WasApplied(i)' <=> WasApplied(i)
  BY DEF Workers, WasApplied, files
<1>3. InTurn'
  BY <1>2 DEF OneWorker, InTurn
<1>4. QED
  BY <1>1, <1>2, <1>3 DEF OneWorker, files

LEMMA WorkerResult ==
  ASSUME TypeOK, RInv, OneWorker, NEW r \in pend, ApplyWorkerResult(r) PROVE OneWorker'
<1>1. /\ pc = "workers" /\ pc' = pc /\ AtRest /\ r.of.kind = "worker" /\ UNCHANGED files
      /\ r.of \in intents
  BY DEF ApplyWorkerResult, RInv, AnsweredOnce, Answered
<1>2. PICK t \in r.of.paths :
        \/ UNCHANGED work
        \/ work'.enq = {} /\ work'.flip = {t} /\ work'.mark = {r}
  BY DEF ApplyWorkerResult, Flips, NoWork
<1>3. CASE UNCHANGED work
  <2>1. work'.enq = {} /\ work'.flip = {}
    BY <1>1, <1>3 DEF AtRest
  <2>2. QED
    BY <1>1, <2>1, WorkerPlan
<1>4. CASE work'.enq = {} /\ work'.flip = {t} /\ work'.mark = {r}
  <2>1. r.of \in Workers(t)
    BY <1>1, <1>2 DEF Workers
  <2>2. QED
    BY <1>1, <1>4, <2>1, WorkerPlan
<1>5. QED
  BY <1>2, <1>3, <1>4

LEMMA WorkerWave ==
  ASSUME TypeOK, DInv, RInv, OneWorker, DispatchWave PROVE OneWorker'
<1>1. /\ AtRest /\ pc = "decide" /\ pc' = "act" /\ UNCHANGED files
      /\ work'.enq = {WorkerDraft(t) : t \in Decision.tasks}
  BY DEF DispatchWave, StartWrites
<1>2. \A t \in Decision.tasks : t \in Tasks /\ status[t] = "PENDING"
  BY DecidedTasks, ReadyIsStartable
     DEF TypeOK, DispatchWave, DInv, DecidesInSync, Startable
<1>3. InHand = {}
  BY <1>1 DEF AtRest, InHand
<1>4. (\A u : Workers(u)' = Workers(u)) /\ \A i : WasApplied(i)' <=> WasApplied(i)
  BY <1>1 DEF Workers, WasApplied, files
<1>5. InTurn'
  BY <1>4 DEF OneWorker, InTurn
<1>6. ASSUME NEW d \in work'.enq, NEW t \in d.paths
      PROVE  /\ \A i \in Workers(t) : WasApplied(i)
             /\ \A e \in work'.enq : t \in e.paths => e = d
  <2>1. t \in Decision.tasks /\ d = WorkerDraft(t)
    BY <1>1, <1>6 DEF WorkerDraft
  <2>2. \A e \in work'.enq : t \in e.paths => e = WorkerDraft(t)
    BY <1>1 DEF WorkerDraft
  <2>3. \A i \in Workers(t) : WasApplied(i)
    BY <2>1, <1>2, <1>3 DEF OneWorker
  <2>4. QED
    BY <2>1, <2>2, <2>3
<1>7. QED
  BY <1>1, <1>3, <1>4, <1>5, <1>6 DEF OneWorker, files

LEMMA WorkerStep ==
  ASSUME Orderly, MaxHeals = 0, TypeOK, DInv, RInv, OneWorker, [Next]_vars
  PROVE  OneWorker'
<1>1. CASE Write
  BY <1>1, WorkerFlip, WorkerFlag, WorkerIntent, WorkerMark DEF Write
<1>2. CASE HealStale
  <2>1. PICK stale \in SUBSET {t \in Tasks : MayBeStale(t)} :
          work' = Flips("PENDING", stale)
    BY <1>2 DEF HealStale
  <2>2. stale = {}
    BY <2>1 DEF MayBeStale, TypeOK
  <2>3. /\ AtRest /\ UNCHANGED files /\ pc' = "heal"
        /\ work'.enq = {} /\ work'.flip = {}
    BY <1>2, <2>1, <2>2 DEF HealStale, Flips, NoWork, RInv, StageWork
  <2>4. QED
    BY <2>3, WorkerPlan
<1>3. CASE \/ StartupFails \/ SkipHeld \/ NothingToDo \/ ActionTaken \/ CloseSession
           \/ StatesCompared \/ ReadState \/ WorkersApplied \/ PairsApplied \/ AllDone
  <2>1. AtRest /\ UNCHANGED files /\ work' = NoWork
    BY <1>3 DEF StartupFails, SkipHeld, NothingToDo, ActionTaken, CloseSession, Exit,
                StatesCompared, ReadState, WorkersApplied, PairsApplied, AllDone, RInv,
                StageWork
  <2>2. work'.enq = {} /\ work'.flip = {}
    BY <2>1 DEF NoWork
  <2>3. QED
    BY <2>1, <2>2, WorkerPlan
<1>4. CASE \E r \in pend : ApplyWorkerResult(r)
  BY <1>4, WorkerResult
<1>5. CASE ApplyPair
  <2>1. PICK r \in pend, q \in pend :
          \/ ApplyPairUnknown(r, q) \/ ApplyPairError(r, q)
          \/ ApplyPairApprove(r, q) \/ ApplyPairRevise(r, q)
    BY <1>5 DEF ApplyPair
  <2>2. pc' = "pairs" /\ AtRest /\ UNCHANGED files
    BY <2>1 DEF ApplyPairUnknown, ApplyPairError, ApplyPairApprove, ApplyPairRevise, Pair
  <2>3. work'.enq = {}
    BY <2>1, <2>2 DEF ApplyPairUnknown, ApplyPairError, ApplyPairApprove,
                      ApplyPairRevise, Flips, NoWork, AtRest
  <2>4. QED
    BY <2>2, <2>3, WorkerPlan
<1>6. CASE DispatchWave
  BY <1>6, WorkerWave
<1>7. CASE DispatchAdvisor
  <2>1. /\ AtRest /\ UNCHANGED files /\ pc' = "act"
        /\ work'.enq = ScannerPair(Decision.tasks)
    BY <1>7 DEF DispatchAdvisor, StartWrites
  <2>2. \A d \in work'.enq : d.kind = "advisor"
    BY <2>1 DEF ScannerPair
  <2>3. QED
    BY <2>1, <2>2, WorkerPlan
<1>8. CASE Session \/ UserHolds \/ (\E t \in Tasks : TaskFileEdited(t)) \/ UNCHANGED vars
  <2>1. UNCHANGED <<status, intents, applied, locals>>
    BY <1>8 DEF Session, SessionAnswers, UserHolds, TaskFileEdited, vars, files
  <2>2. /\ InHand' = InHand /\ (\A u : Workers(u)' = Workers(u))
        /\ \A i : WasApplied(i)' <=> WasApplied(i)
    BY <2>1 DEF InHand, Workers, WasApplied, locals
  <2>3. InTurn'
    BY <2>2 DEF OneWorker, InTurn
  <2>4. QED
    BY <2>1, <2>2, <2>3 DEF OneWorker, locals
<1>9. ~ Crash
  BY NeverCrashes DEF Orderly
<1>10. QED
  BY <1>1, <1>2, <1>3, <1>4, <1>5, <1>6, <1>7, <1>8, <1>9 DEF Next, Cycle, Closed

-----------------------------------------------------------------------------
(* Workers that were given up.                                             *)

Drafted(t) == \E d \in work.enq : d.kind = "worker" /\ t \in d.paths

(* From its envelope on until it is given up, a worker is expected to      *)
(* answer; then its answer is marked.                                      *)
Expected(t) ==
  /\ status[t] = "IN_PROGRESS" /\ ~ Drafted(t)
  /\ ~ (pc = "heal" /\ t \in work.flip)

Marking(t) == \E r \in work.mark : r.of \in Workers(t)

WaitsFor(t) == Expected(t) \/ Marking(t)

(* Of the dispatches that wait one is waited for; the others were given up. *)
Accounted(t) == Cardinality(Waiting(t)) <= heals[t] + (IF WaitsFor(t) THEN 1 ELSE 0)

MarksWhatItMoves == pc = "workers" => \A t \in work.flip : Marking(t)

Account == MarksWhatItMoves /\ \A t \in Tasks : Accounted(t)

LEMMA WaitingType ==
  ASSUME Numbered, NEW t
  PROVE  IsFiniteSet(Waiting(t)) /\ Cardinality(Waiting(t)) \in Nat
BY FS_Subset, FS_CardinalityType DEF Numbered, Waiting, Workers

LEMMA AccountInit == Init => Account
<1> SUFFICES ASSUME Init PROVE Account
  OBVIOUS
<1>1. MarksWhatItMoves
  BY DEF Init, MarksWhatItMoves
<1>2. ASSUME NEW t \in Tasks PROVE Accounted(t)
  <2>1. Waiting(t) = {} /\ heals[t] = 0
    BY DEF Init, Waiting, Workers
  <2>2. Cardinality(Waiting(t)) = 0
    BY <2>1, FS_EmptySet
  <2>3. QED
    BY <2>1, <2>2 DEF Accounted
<1>3. QED
  BY <1>1, <1>2 DEF Account

(* A step that enqueues, applies and gives up nothing.                     *)
LEMMA AccountSteady ==
  ASSUME TypeOK, Numbered, NEW t \in Tasks, Accounted(t), UNCHANGED <<intents, heals>>,
         \A i : WasApplied(i)' <=> WasApplied(i), WaitsFor(t) => WaitsFor(t)'
  PROVE  Accounted(t)'
<1>1. Waiting(t)' = Waiting(t)
  BY DEF Waiting, Workers
<1>2. Cardinality(Waiting(t)) \in Nat /\ heals[t] \in Nat
  BY WaitingType DEF TypeOK
<1>3. CASE WaitsFor(t)
  BY <1>1, <1>2, <1>3 DEF Accounted
<1>4. CASE ~ WaitsFor(t)
  BY <1>1, <1>2, <1>4 DEF Accounted
<1>5. QED
  BY <1>3, <1>4

LEMMA AccountFlip ==
  ASSUME TypeOK, RInv, Account, NEW u \in Tasks, WriteFlip(u) PROVE Account'
<1>1. /\ u \in work.flip /\ pc' = pc
      /\ work'.mark = work.mark /\ work'.enq = work.enq /\ work'.flip = work.flip \ {u}
      /\ \A t \in Tasks : t # u => status'[t] = status[t]
  BY DEF WriteFlip, TypeOK, Work
<1>2. /\ UNCHANGED <<intents, heals>> /\ (\A i : WasApplied(i)' <=> WasApplied(i))
  BY DEF WriteFlip, WasApplied, world
<1>3. \A t : (Marking(t)' <=> Marking(t)) /\ (Drafted(t)' <=> Drafted(t))
  BY <1>1, <1>2 DEF Marking, Drafted, Workers
<1>4. Expected(u) => Marking(u)
  <2> SUFFICES ASSUME Expected(u) PROVE Marking(u)
    OBVIOUS
  <2>1. pc = "workers"
    BY <1>1 DEF Expected, RInv, LegalMoves
  <2>2. QED
    BY <1>1, <2>1 DEF Account, MarksWhatItMoves
<1>5. ASSUME NEW t \in Tasks PROVE WaitsFor(t) => WaitsFor(t)'
  <2>1. CASE t = u
    BY <2>1, <1>3, <1>4 DEF WaitsFor
  <2>2. CASE t # u
    BY <2>2, <1>1, <1>3, <1>5 DEF WaitsFor, Expected
  <2>3. QED
    BY <2>1, <2>2
<1>6. \A t \in Tasks : Accounted(t)'
  BY <1>2, <1>5, AccountSteady DEF Account, RInv
<1>7. QED
  BY <1>1, <1>3, <1>6 DEF Account, MarksWhatItMoves

LEMMA AccountFlag ==
  ASSUME TypeOK, RInv, Account, NEW u \in Tasks, WriteFlag(u) PROVE Account'
<1>1. /\ u \in work.flag /\ pc = "pairs" /\ pc' = pc /\ work.enq = {}
      /\ status[u] # "IN_PROGRESS"
  BY DEF WriteFlag, RInv, LegalMoves, StageWork
<1>2. /\ work'.mark = work.mark /\ work'.enq = work.enq
      /\ \A t \in Tasks : t # u => status'[t] = status[t]
  BY DEF WriteFlag, TypeOK, Work
<1>3. /\ UNCHANGED <<intents, heals>> /\ (\A i : WasApplied(i)' <=> WasApplied(i))
  BY DEF WriteFlag, WasApplied, world
<1>4. \A t : (Marking(t)' <=> Marking(t)) /\ (Drafted(t)' <=> Drafted(t))
  BY <1>2, <1>3 DEF Marking, Drafted, Workers
<1>5. ASSUME NEW t \in Tasks PROVE WaitsFor(t) => WaitsFor(t)'
  BY <1>1, <1>2, <1>4, <1>5 DEF WaitsFor, Expected
<1>6. \A t \in Tasks : Accounted(t)'
  BY <1>3, <1>5, AccountSteady DEF Account, RInv
<1>7. QED
  BY <1>1, <1>6 DEF Account, MarksWhatItMoves

(* A new dispatch is waited for, and none was before.                      *)
LEMMA AccountIntent ==
  ASSUME TypeOK, RInv, Account, NEW d \in work.enq, WriteIntent(d) PROVE Account'
<1>1. /\ work.flip = {} /\ work'.flip = {} /\ work'.mark = work.mark
      /\ work'.enq = work.enq \ {d} /\ pc' = pc /\ pc = "act" /\ work.mark = {}
      /\ UNCHANGED <<status, applied, heals>>
  BY DEF WriteIntent, TypeOK, Work, RInv, StageWork, world
<1>2. PICK i : /\ i.id = Cardinality(intents) + 1
               /\ i.kind = d.kind /\ i.paths = d.paths
               /\ intents' = intents \cup {i}
  BY DEF WriteIntent
<1>3. i \notin intents
  BY <1>2, FS_CardinalityType DEF RInv, Numbered, TypeOK, Intent
<1>4. (\A j : WasApplied(j)' <=> WasApplied(j)) /\ ~ WasApplied(i)
  BY <1>1, <1>3 DEF WasApplied, RInv, AnsweredOnce, Answered
<1>5. ASSUME NEW t \in Tasks PROVE Accounted(t)'
  <2>1. /\ IsFiniteSet(Waiting(t)) /\ Cardinality(Waiting(t)) \in Nat /\ heals[t] \in Nat
        /\ heals'[t] = heals[t]
    BY <1>1, WaitingType DEF RInv, TypeOK
  <2>2. ~ Marking(t)
    BY <1>1 DEF Marking
  <2>3. CASE d.kind = "worker" /\ t \in d.paths
    <3>1. Waiting(t)' = Waiting(t) \cup {i} /\ i \notin Waiting(t)
      BY <2>3, <1>2, <1>3, <1>4 DEF Waiting, Workers
    <3>2. Cardinality(Waiting(t)') = Cardinality(Waiting(t)) + 1
      BY <2>1, <3>1, FS_AddElement
    <3>3. ~ WaitsFor(t)
      BY <2>2, <2>3 DEF WaitsFor, Expected, Drafted
    <3>4. Expected(t)'
      <4>1. ASSUME NEW e \in work.enq, e.kind = "worker", t \in e.paths PROVE e = d
        <5>1. e.paths = {t} /\ e.idx = 0 /\ e.key = {} /\ d.paths = {t} /\ d.idx = 0 /\ d.key = {}
          BY <2>3, <4>1 DEF RInv, WellFormed, Envelope
        <5>2. e \in Draft /\ d \in Draft
          BY DEF TypeOK, Work
        <5>3. QED
          BY <5>1, <5>2, <2>3, <4>1 DEF Draft
      <4>2. status[t] = "IN_PROGRESS"
        BY <1>1, <2>3 DEF RInv, WorkerDrafts
      <4>3. ~ Drafted(t)'
        BY <1>1, <4>1 DEF Drafted
      <4>4. QED
        BY <1>1, <4>2, <4>3 DEF Expected
    <3>5. Cardinality(Waiting(t)) <= heals[t]
      BY <2>1, <3>3 DEF Account, Accounted
    <3>6. WaitsFor(t)'
      BY <3>4 DEF WaitsFor
    <3>7. QED
      BY <2>1, <3>2, <3>5, <3>6 DEF Accounted
  <2>4. CASE ~ (d.kind = "worker" /\ t \in d.paths)
    <3>1. Waiting(t)' = Waiting(t)
      BY <2>4, <1>2, <1>4 DEF Waiting, Workers
    <3>2. WaitsFor(t) <=> WaitsFor(t)'
      <4>1. Drafted(t)' <=> Drafted(t)
        BY <1>1, <2>4 DEF Drafted
      <4>2. ~ Marking(t)'
        BY <1>1 DEF Marking
      <4>3. QED
        BY <1>1, <2>2, <4>1, <4>2 DEF WaitsFor, Expected
    <3>3. QED
      BY <2>1, <3>1, <3>2 DEF Account, Accounted
  <2>5. QED
    BY <2>3, <2>4
<1>6. QED
  BY <1>1, <1>5 DEF Account, MarksWhatItMoves

(* A dispatch whose answer is marked waits no more.                        *)
LEMMA AccountMark ==
  ASSUME TypeOK, RInv, Account, NEW r \in work.mark, MarkApplied(r) PROVE Account'
<1>1. /\ work.flip = {} /\ work'.flip = {} /\ work'.enq = work.enq
      /\ work'.mark = work.mark \ {r} /\ UNCHANGED <<status, intents, pc, heals>>
      /\ applied' = {q \in applied : q.of # r.of} \cup {r}
  BY DEF MarkApplied, TypeOK, Work, world
<1>2. \A i : WasApplied(i)' <=> WasApplied(i) \/ i = r.of
  BY <1>1 DEF WasApplied
<1>3. ~ WasApplied(r.of)
  BY DEF RInv, AnsweredOnce
<1>4. ASSUME NEW t \in Tasks PROVE Accounted(t)'
  <2>1. /\ IsFiniteSet(Waiting(t)) /\ Cardinality(Waiting(t)) \in Nat /\ heals[t] \in Nat
        /\ heals'[t] = heals[t]
    BY <1>1, WaitingType DEF RInv, TypeOK
  <2>2. CASE r.of \in Workers(t)
    <3>1. Waiting(t)' = Waiting(t) \ {r.of} /\ r.of \in Waiting(t)
      BY <2>2, <1>1, <1>2, <1>3 DEF Waiting, Workers
    <3>2. /\ Cardinality(Waiting(t)') = Cardinality(Waiting(t)) - 1
          /\ Cardinality(Waiting(t)') \in Nat
      BY <2>1, <3>1, FS_RemoveElement, FS_CardinalityType
    <3>3. Cardinality(Waiting(t)) <= heals[t] + 1
      BY <2>1 DEF Account, Accounted
    <3>4. /\ Cardinality(Waiting(t)') <= heals'[t]
          /\ Cardinality(Waiting(t)') \in Nat /\ heals'[t] \in Nat
      BY <2>1, <3>2, <3>3
    <3>5. CASE WaitsFor(t)'
      BY <3>4, <3>5 DEF Accounted
    <3>6. CASE ~ WaitsFor(t)'
      BY <3>4, <3>6 DEF Accounted
    <3>7. QED
      BY <3>5, <3>6
  <2>3. CASE r.of \notin Workers(t)
    <3>1. Waiting(t)' = Waiting(t)
      BY <2>3, <1>1, <1>2 DEF Waiting, Workers
    <3>2. Marking(t)' <=> Marking(t)
      BY <2>3, <1>1 DEF Marking, Workers
    <3>3. Expected(t)' <=> Expected(t)
      BY <1>1 DEF Expected, Drafted
    <3>4. QED
      BY <2>1, <3>1, <3>2, <3>3 DEF Account, Accounted, WaitsFor
  <2>4. QED
    BY <2>2, <2>3
<1>5. QED
  BY <1>1, <1>4 DEF Account, MarksWhatItMoves

(* A stage that starts from rest and gives no worker up.                   *)
LEMMA AccountPlan ==
  ASSUME TypeOK, RInv, Account, AtRest, UNCHANGED <<files, heals>>,
         \A t \in Tasks : Drafted(t)' => status[t] # "IN_PROGRESS",
         pc' = "heal" => work'.flip = {},
         MarksWhatItMoves'
  PROVE  Account'
<1>1. UNCHANGED intents /\ UNCHANGED status /\ \A i : WasApplied(i)' <=> WasApplied(i)
  BY DEF files, WasApplied
<1>2. ASSUME NEW t \in Tasks PROVE WaitsFor(t) => WaitsFor(t)'
  BY <1>1 DEF WaitsFor, Expected, Marking, AtRest
<1>3. \A t \in Tasks : Accounted(t)'
  BY <1>1, <1>2, AccountSteady DEF Account, RInv
<1>4. QED
  BY <1>3 DEF Account

(* Giving a worker up is counted.                                          *)
LEMMA AccountHeal ==
  ASSUME TypeOK, RInv, Account, HealStale PROVE Account'
<1>1. PICK stale \in SUBSET {t \in Tasks : MayBeStale(t)} :
        /\ heals' = [t \in Tasks |-> IF t \in stale THEN heals[t] + 1 ELSE heals[t]]
        /\ work' = Flips("PENDING", stale)
  BY DEF HealStale
<1>2. work'.flip = stale /\ work'.enq = {} /\ work'.mark = {}
  BY <1>1 DEF Flips, NoWork
<1>3. AtRest /\ pc' = "heal" /\ UNCHANGED files
  BY DEF HealStale, RInv, StageWork
<1>4. ASSUME NEW t \in Tasks PROVE Accounted(t)'
  <2>1. Waiting(t)' = Waiting(t) /\ Cardinality(Waiting(t)) \in Nat /\ heals[t] \in Nat
    BY <1>3, WaitingType DEF RInv, Waiting, Workers, WasApplied, files, TypeOK
  <2>2. CASE t \in stale
    <3>1. Cardinality(Waiting(t)) <= heals[t] + 1 /\ heals'[t] = heals[t] + 1
      BY <1>1, <2>1, <2>2 DEF Account, Accounted
    <3>2. QED
      BY <2>1, <3>1 DEF Accounted
  <2>3. CASE t \notin stale
    <3>1. WaitsFor(t) => WaitsFor(t)'
      BY <1>2, <1>3, <2>3 DEF WaitsFor, Expected, Marking, Drafted, AtRest, files
    <3>2. heals'[t] = heals[t]
      BY <1>1, <2>3
    <3>3. CASE WaitsFor(t)
      BY <2>1, <3>1, <3>2, <3>3 DEF Account, Accounted
    <3>4. CASE ~ WaitsFor(t)
      BY <2>1, <3>2, <3>4 DEF Account, Accounted
    <3>5. QED
      BY <3>3, <3>4
  <2>4. QED
    BY <2>2, <2>3
<1>5. QED
  BY <1>3, <1>4 DEF Account, MarksWhatItMoves

LEMMA AccountResult ==
  ASSUME TypeOK, RInv, Account, NEW r \in pend, ApplyWorkerResult(r) PROVE Account'
<1>1. /\ pc = "workers" /\ pc' = pc /\ AtRest /\ r.of.kind = "worker"
      /\ UNCHANGED <<files, heals>> /\ r.of \in intents
  BY DEF ApplyWorkerResult, RInv, AnsweredOnce, Answered, world
<1>2. PICK t \in r.of.paths :
        \/ UNCHANGED work
        \/ work'.enq = {} /\ work'.flip = {t} /\ work'.mark = {r}
  BY DEF ApplyWorkerResult, Flips, NoWork
<1>3. work'.enq = {}
  BY <1>1, <1>2 DEF AtRest
<1>4. MarksWhatItMoves'
  <2>1. r.of \in Workers(t)'
    BY <1>1, <1>2 DEF Workers, files
  <2>2. QED
    BY <1>1, <1>2, <2>1 DEF MarksWhatItMoves, Marking, AtRest
<1>5. QED
  BY <1>1, <1>3, <1>4, AccountPlan DEF Drafted

LEMMA AccountWave ==
  ASSUME TypeOK, DInv, RInv, Account, DispatchWave PROVE Account'
<1>1. /\ AtRest /\ pc = "decide" /\ pc' = "act" /\ UNCHANGED <<files, heals>>
      /\ work'.enq = {WorkerDraft(t) : t \in Decision.tasks}
  BY DEF DispatchWave, StartWrites, world
<1>2. \A t \in Decision.tasks : status[t] = "PENDING"
  BY DecidedTasks, ReadyIsStartable
     DEF TypeOK, DispatchWave, DInv, DecidesInSync, Startable
<1>3. \A t \in Tasks : Drafted(t)' => status[t] # "IN_PROGRESS"
  BY <1>1, <1>2 DEF Drafted, WorkerDraft
<1>4. QED
  BY <1>1, <1>3, AccountPlan DEF MarksWhatItMoves

LEMMA AccountStep ==
  ASSUME Orderly, TypeOK, DInv, RInv, Account, [Next]_vars PROVE Account'
<1>1. CASE Write
  BY <1>1, AccountFlip, AccountFlag, AccountIntent, AccountMark DEF Write
<1>2. CASE HealStale
  BY <1>2, AccountHeal
<1>3. CASE \/ StartupFails \/ SkipHeld \/ NothingToDo \/ ActionTaken \/ CloseSession
           \/ StatesCompared \/ ReadState \/ WorkersApplied \/ PairsApplied \/ AllDone
  <2>1. AtRest /\ UNCHANGED <<files, heals>> /\ work' = NoWork
    BY <1>3 DEF StartupFails, SkipHeld, NothingToDo, ActionTaken, CloseSession, Exit,
                StatesCompared, ReadState, WorkersApplied, PairsApplied, AllDone, RInv,
                StageWork, world
  <2>2. work'.enq = {} /\ work'.flip = {}
    BY <2>1 DEF NoWork
  <2>3. QED
    BY <2>1, <2>2, AccountPlan DEF Drafted, MarksWhatItMoves
<1>4. CASE \E r \in pend : ApplyWorkerResult(r)
  BY <1>4, AccountResult
<1>5. CASE ApplyPair
  <2>1. PICK r \in pend, q \in pend :
          \/ ApplyPairUnknown(r, q) \/ ApplyPairError(r, q)
          \/ ApplyPairApprove(r, q) \/ ApplyPairRevise(r, q)
    BY <1>5 DEF ApplyPair
  <2>2. pc' = "pairs" /\ AtRest /\ UNCHANGED <<files, heals>>
    BY <2>1 DEF ApplyPairUnknown, ApplyPairError, ApplyPairApprove, ApplyPairRevise, Pair,
                world
  <2>3. work'.enq = {}
    BY <2>1, <2>2 DEF ApplyPairUnknown, ApplyPairError, ApplyPairApprove,
                      ApplyPairRevise, Flips, NoWork, AtRest
  <2>4. QED
    BY <2>2, <2>3, AccountPlan DEF Drafted, MarksWhatItMoves
<1>6. CASE DispatchWave
  BY <1>6, AccountWave
<1>7. CASE DispatchAdvisor
  <2>1. /\ AtRest /\ UNCHANGED <<files, heals>> /\ pc' = "act"
        /\ work'.enq = ScannerPair(Decision.tasks)
    BY <1>7 DEF DispatchAdvisor, StartWrites, world
  <2>2. \A d \in work'.enq : d.kind = "advisor"
    BY <2>1 DEF ScannerPair
  <2>3. QED
    BY <2>1, <2>2, AccountPlan DEF Drafted, MarksWhatItMoves
<1>8. CASE Session \/ UserHolds \/ (\E t \in Tasks : TaskFileEdited(t)) \/ UNCHANGED vars
  <2>1. UNCHANGED <<status, intents, applied, locals, heals>>
    BY <1>8 DEF Session, SessionAnswers, UserHolds, TaskFileEdited, vars, files, world
  <2>2. \A i : WasApplied(i)' <=> WasApplied(i)
    BY <2>1 DEF WasApplied
  <2>3. \A t : Marking(t)' <=> Marking(t)
    BY <2>1 DEF Marking, Workers, locals
  <2>4. \A t \in Tasks : WaitsFor(t) => WaitsFor(t)'
    BY <2>1, <2>3 DEF WaitsFor, Expected, Drafted, locals
  <2>5. \A t \in Tasks : Accounted(t)'
    BY <2>1, <2>2, <2>4, AccountSteady DEF Account, RInv
  <2>6. QED
    BY <2>1, <2>3, <2>5 DEF Account, MarksWhatItMoves, locals
<1>9. ~ Crash
  BY NeverCrashes DEF Orderly
<1>10. QED
  BY <1>1, <1>2, <1>3, <1>4, <1>5, <1>6, <1>7, <1>8, <1>9 DEF Next, Cycle, Closed

(* Of one task no more dispatches wait than the last one and those whose   *)
(* worker startup gave up, however often that is (_heal_stale_claims,      *)
(* _apply_pending_worker_results, _handle_dispatch_wave), when no cycle    *)
(* stops half way and no applied intent is answered again.                 *)
THEOREM OneWorkerAtATime == ASSUME Orderly PROVE Spec => []OneLiveDispatch
<1>1. TypeOK /\ RInv /\ Account => OneLiveDispatch
  <2> SUFFICES ASSUME TypeOK, RInv, Account, NEW t \in Tasks
               PROVE  Cardinality(Waiting(t)) <= 1 + heals[t] + crashes
    BY DEF OneLiveDispatch
  <2>1. Cardinality(Waiting(t)) \in Nat /\ heals[t] \in Nat /\ crashes \in Nat
    BY WaitingType DEF RInv, TypeOK
  <2>2. Cardinality(Waiting(t)) <= heals[t] + 1
    BY <2>1 DEF Account, Accounted
  <2>3. QED
    BY <2>1, <2>2
<1>2. TypeOK /\ DInv /\ RInv /\ Account /\ [Next]_vars => Account'
  BY AccountStep
<1>3. QED
  BY TypeInit, TypeStep, DispatchInit, DispatchStep, ReviewInvariant, AccountInit,
     <1>1, <1>2, PTL DEF Spec

(* The workers that run in a wave under review.                            *)
LEMMA ReviewersAlone ==
  ASSUME TypeOK, RInv, SInv, WaveRests, Account PROVE ReviewIsolation
<1> SUFFICES ASSUME NEW t \in Tasks, NEW u \in Tasks \ Breakable, Wave[t] = Wave[u],
                    status[t] = "EXECUTING"
             PROVE  /\ status[u] # "IN_PROGRESS"
                    /\ Cardinality(AtWork(u)) <= heals[u] + crashes
  BY DEF ReviewIsolation
<1>1. status[u] # "IN_PROGRESS"
  BY RestsUnstarted
<1>2. /\ IsFiniteSet(Waiting(u)) /\ Cardinality(Waiting(u)) \in Nat
      /\ heals[u] \in Nat /\ crashes \in Nat
  BY WaitingType DEF RInv, TypeOK
<1>3. AtWork(u) \subseteq Waiting(u)
  BY DEF AtWork, Waiting, WasApplied, Answered
<1>4. CASE Marking(u)
  <2>1. PICK r \in work.mark : r.of \in Workers(u)
    BY <1>4 DEF Marking
  <2>2. r \in results /\ r.of \in Waiting(u)
    BY <2>1 DEF RInv, AnsweredOnce, Waiting
  <2>3. AtWork(u) \subseteq Waiting(u) \ {r.of}
    BY <1>3, <2>2 DEF AtWork, Answered
  <2>4. /\ IsFiniteSet(Waiting(u) \ {r.of})
        /\ Cardinality(Waiting(u) \ {r.of}) = Cardinality(Waiting(u)) - 1
    BY <1>2, <2>2, FS_RemoveElement
  <2>5. /\ Cardinality(AtWork(u)) <= Cardinality(Waiting(u) \ {r.of})
        /\ Cardinality(AtWork(u)) \in Nat
    BY <2>3, <2>4, FS_Subset, FS_CardinalityType
  <2>6. Cardinality(Waiting(u)) <= heals[u] + 1
    BY <1>2 DEF Account, Accounted
  <2>7. QED
    BY <1>1, <1>2, <2>4, <2>5, <2>6
<1>5. CASE ~ Marking(u)
  <2>1. ~ WaitsFor(u)
    BY <1>1, <1>5 DEF WaitsFor, Expected
  <2>2. Cardinality(Waiting(u)) <= heals[u]
    BY <1>2, <2>1 DEF Account, Accounted
  <2>3. /\ Cardinality(AtWork(u)) <= Cardinality(Waiting(u))
        /\ Cardinality(AtWork(u)) \in Nat
    BY <1>2, <1>3, FS_Subset, FS_CardinalityType
  <2>4. QED
    BY <1>1, <1>2, <2>2, <2>3
<1>6. QED
  BY <1>4, <1>5

(* While a wave is under review, no worker of its tasks that always parse  *)
(* runs, but for those startup gave up, however many                       *)
(* (_maybe_advisor_at_wave_gate, _handle_dispatch_advisor,                 *)
(* _heal_stale_claims), when no cycle stops half way, no applied intent is *)
(* answered again and guidance carries no FAILING TASKS: line.             *)
THEOREM ReviewIsolated ==
  ASSUME Orderly, ExplicitLines \subseteq {FALSE} PROVE Spec => []ReviewIsolation
<1>1. TypeOK /\ DInv /\ CInv /\ [Next]_vars => CInv'
  BY CloseStep
<1>2. TypeOK /\ RInv /\ SInv /\ [Next]_vars => SInv'
  BY StrandStep
<1>3. TypeOK /\ DInv /\ CInv /\ RInv /\ WaveRests /\ [Next]_vars => WaveRests'
  BY RestStep
<1>4. TypeOK /\ DInv /\ RInv /\ Account /\ [Next]_vars => Account'
  BY AccountStep
<1>5. TypeOK /\ RInv /\ SInv /\ WaveRests /\ Account => ReviewIsolation
  BY ReviewersAlone
<1>6. QED
  BY TypeInit, TypeStep, DispatchInit, DispatchStep, CloseInit, ReviewInvariant, StrandInit,
     RestInit, AccountInit, <1>1, <1>2, <1>3, <1>4, <1>5, PTL DEF Spec

-----------------------------------------------------------------------------
(* The loop is ReviewPipeline.                                             *)

(* A step that no task, review or vote takes part in.                      *)
LEMMA PipeSame ==
  ASSUME \A t \in Tasks : StageOf(t)' = StageOf(t) /\ RoundsOf(t)' = RoundsOf(t),
         OpenGates' = OpenGates, CastVotes' = CastVotes
  PROVE  UNCHANGED Pipeline!pvars
BY DEF Pipeline!pvars

(* A step that moves the tasks of T and starts no round.                   *)
LEMMA PipeMove ==
  ASSUME NEW T \in SUBSET Tasks, NEW x,
         \A t \in T : StageOf(t)' = x,
         \A t \in Tasks \ T : StageOf(t)' = StageOf(t),
         \A t \in Tasks : RoundsOf(t)' = RoundsOf(t)
  PROVE  /\ Pipeline!Move(T, x)
         /\ UNCHANGED [t \in Tasks |-> RoundsOf(t)]
BY DEF Pipeline!Move

LEMMA PipeIn ==
  ASSUME NEW T \in SUBSET Tasks, NEW x, \A t \in T : StageOf(t) = x
  PROVE  Pipeline!In(T, x)
BY DEF Pipeline!In

(* With nothing left to write, a task is where MAP.md says.                *)
LEMMA PipeAtRest ==
  ASSUME AtRest
  PROVE  /\ \A t \in Tasks : StageOf(t) = status[t] /\ RoundsOf(t) = regs[t]
         /\ Unapplied = intents \ {r.of : r \in applied}
         /\ OpenGates = {d.key : d \in {e \in Unapplied : e.kind = "advisor"}}
         /\ {q \in results \ work.mark : q.of.kind = "advisor"}
              = {q \in results : q.of.kind = "advisor"}
BY DEF AtRest, StageOf, RoundsOf, Unapplied, OpenGates

(* The scanner intents of open reviews.                                    *)
LEMMA PipeLive ==
  ASSUME NEW i
  PROVE  i \in Unapplied /\ i.kind = "advisor" <=> i \in Live \ InHand
BY DEF Unapplied, Live, InHand, WasApplied

LEMMA PipeInit == Init => Pipeline!PInit
<1> SUFFICES ASSUME Init PROVE Pipeline!PInit
  OBVIOUS
<1>1. \A t \in Tasks : StageOf(t) = "PENDING" /\ RoundsOf(t) = 0
  BY DEF Init, NoWork, StageOf, RoundsOf
<1>2. OpenGates = {} /\ CastVotes = {}
  BY DEF Init, NoWork, OpenGates, Unapplied, CastVotes
<1>3. QED
  BY <1>1, <1>2 DEF Pipeline!PInit

-----------------------------------------------------------------------------
(* No write to disk is seen: the step that set it up was.                  *)

LEMMA PipeFlip ==
  ASSUME TypeOK, NEW t \in Tasks, WriteFlip(t) PROVE UNCHANGED Pipeline!pvars
<1>1. /\ work'.to = work.to /\ work'.flag = work.flag /\ work'.mark = work.mark
      /\ work'.enq = work.enq /\ work'.flip = work.flip \ {t} /\ t \in work.flip
  BY DEF WriteFlip, TypeOK, Work
<1>2. /\ status'[t] = work.to /\ \A u \in Tasks : u # t => status'[u] = status[u]
      /\ UNCHANGED <<regs, intents, results, applied>>
  BY DEF WriteFlip, TypeOK
<1>3. \A u \in Tasks : StageOf(u)' = StageOf(u) /\ RoundsOf(u)' = RoundsOf(u)
  BY <1>1, <1>2 DEF StageOf, RoundsOf, OverLimit
<1>4. OpenGates' = OpenGates /\ CastVotes' = CastVotes
  BY <1>1, <1>2 DEF OpenGates, Unapplied, CastVotes
<1>5. QED
  BY <1>3, <1>4, PipeSame

LEMMA PipeFlag ==
  ASSUME TypeOK, NEW t \in Tasks, WriteFlag(t) PROVE UNCHANGED Pipeline!pvars
<1>1. /\ work.flip = {} /\ t \in work.flag
      /\ work'.flag = work.flag \ {t} /\ work'.mark = work.mark /\ work'.enq = work.enq
      /\ \/ /\ OverLimit(t) /\ work'.flip = {}
            /\ status'[t] = "BLOCKED" /\ regs' = regs
         \/ /\ ~ OverLimit(t) /\ work'.flip = {t} /\ work'.to = "PENDING"
            /\ status' = status /\ regs'[t] = regs[t] + 1
  BY DEF WriteFlag, TypeOK, Work
<1>2. /\ \A u \in Tasks : u # t => status'[u] = status[u] /\ regs'[u] = regs[u]
      /\ UNCHANGED <<intents, results, applied>>
  BY DEF WriteFlag, TypeOK
<1>3. StageOf(t)' = StageOf(t) /\ RoundsOf(t)' = RoundsOf(t)
  BY <1>1 DEF StageOf, RoundsOf
<1>4. ASSUME NEW u \in Tasks, u # t
      PROVE  StageOf(u)' = StageOf(u) /\ RoundsOf(u)' = RoundsOf(u)
  BY <1>1, <1>2, <1>4 DEF StageOf, RoundsOf, OverLimit
<1>5. OpenGates' = OpenGates /\ CastVotes' = CastVotes
  BY <1>1, <1>2 DEF OpenGates, Unapplied, CastVotes
<1>6. QED
  BY <1>3, <1>4, <1>5, PipeSame

LEMMA PipeIntent ==
  ASSUME TypeOK, RInv, NEW d \in work.enq, WriteIntent(d)
  PROVE  UNCHANGED Pipeline!pvars
<1>1. /\ work'.to = work.to /\ work'.flag = work.flag /\ work'.mark = work.mark
      /\ work'.flip = work.flip /\ work'.enq = work.enq \ {d}
      /\ UNCHANGED <<status, regs, results, applied>>
  BY DEF WriteIntent, TypeOK, Work
<1>2. PICK i : /\ i.id = Cardinality(intents) + 1
               /\ i.kind = d.kind /\ i.key = d.key
               /\ intents' = intents \cup {i}
  BY DEF WriteIntent
<1>3. i \notin intents
  <2>1. Cardinality(intents) \in Nat /\ \A j \in intents : j.id <= Cardinality(intents)
    BY FS_CardinalityType DEF RInv, Numbered
  <2>2. QED
    BY <1>2, <2>1
<1>4. \A r \in applied \cup work.mark : r.of \in intents
  BY DEF RInv, AnsweredOnce, Answered
<1>5. Unapplied' = Unapplied \cup {i}
  BY <1>1, <1>2, <1>3, <1>4 DEF Unapplied
<1>6. OpenGates' = OpenGates
  BY <1>1, <1>2, <1>5 DEF OpenGates
<1>7. CastVotes' = CastVotes
  BY <1>1 DEF CastVotes
<1>8. \A u \in Tasks : StageOf(u)' = StageOf(u) /\ RoundsOf(u)' = RoundsOf(u)
  BY <1>1 DEF StageOf, RoundsOf, OverLimit
<1>9. QED
  BY <1>6, <1>7, <1>8, PipeSame

LEMMA PipeMark ==
  ASSUME TypeOK, RInv, NEW r \in work.mark, MarkApplied(r)
  PROVE  UNCHANGED Pipeline!pvars
<1>1. /\ work'.to = work.to /\ work'.flag = work.flag /\ work'.mark = work.mark \ {r}
      /\ work'.flip = work.flip /\ work'.enq = work.enq
      /\ UNCHANGED <<status, regs, intents>> /\ results' = results \ {r}
      /\ applied' = {q \in applied : q.of # r.of} \cup {r}
  BY DEF MarkApplied, TypeOK, Work
<1>2. ~ WasApplied(r.of)
  BY DEF RInv, AnsweredOnce
<1>3. applied' \cup work'.mark = applied \cup work.mark
  BY <1>1, <1>2 DEF WasApplied
<1>4. results' \ work'.mark = results \ work.mark
  BY <1>1
<1>5. OpenGates' = OpenGates /\ CastVotes' = CastVotes
  BY <1>1, <1>3, <1>4 DEF OpenGates, Unapplied, CastVotes
<1>6. \A u \in Tasks : StageOf(u)' = StageOf(u) /\ RoundsOf(u)' = RoundsOf(u)
  BY <1>1 DEF StageOf, RoundsOf, OverLimit
<1>7. QED
  BY <1>5, <1>6, PipeSame

(* Nor is a stage that leaves nothing to write, or only what is left.      *)
LEMMA PipeRests ==
  ASSUME AtRest, AtRest', UNCHANGED files PROVE UNCHANGED Pipeline!pvars
<1>1. \A u \in Tasks : StageOf(u)' = StageOf(u) /\ RoundsOf(u)' = RoundsOf(u)
  BY DEF AtRest, files, StageOf, RoundsOf
<1>2. OpenGates' = OpenGates /\ CastVotes' = CastVotes
  BY DEF AtRest, files, OpenGates, Unapplied, CastVotes
<1>3. QED
  BY <1>1, <1>2, PipeSame

-----------------------------------------------------------------------------
(* What a stage sets up is one step of the pipeline.                       *)

(* From rest, to flips alone.                                              *)
LEMMA PipeFlips ==
  ASSUME AtRest, UNCHANGED files, NEW T \in SUBSET Tasks, NEW x,
         work'.flip = T, work'.to = x, work'.flag = {}
  PROVE  /\ Pipeline!Move(T, x)
         /\ UNCHANGED [t \in Tasks |-> RoundsOf(t)]
<1>1. /\ \A t \in T : StageOf(t)' = x
      /\ \A t \in Tasks \ T : StageOf(t)' = StageOf(t)
      /\ \A t \in Tasks : RoundsOf(t)' = RoundsOf(t)
  BY DEF AtRest, files, StageOf, RoundsOf
<1>2. QED
  BY <1>1, PipeMove

(* From rest, with no scanner's answer or intent in hand.                  *)
LEMMA PipeQuiet ==
  ASSUME AtRest, UNCHANGED files,
         \A d \in work'.enq : d.kind # "advisor",
         \A r \in work'.mark : r.of.kind # "advisor"
  PROVE  OpenGates' = OpenGates /\ CastVotes' = CastVotes
<1>1. {e \in Unapplied' \cup work'.enq : e.kind = "advisor"}
        = {e \in Unapplied \cup work.enq : e.kind = "advisor"}
  BY DEF AtRest, files, Unapplied
<1>2. {q \in results' \ work'.mark : q.of.kind = "advisor"}
        = {q \in results \ work.mark : q.of.kind = "advisor"}
  BY DEF AtRest, files
<1>3. QED
  BY <1>1, <1>2 DEF OpenGates, CastVotes

LEMMA PipeHeal ==
  ASSUME TypeOK, RInv, HealStale PROVE [Pipeline!PNext]_(Pipeline!pvars)
<1>1. PICK stale \in SUBSET {t \in Tasks : MayBeStale(t)} :
        work' = Flips("PENDING", stale)
  BY DEF HealStale
<1>2. /\ work'.to = "PENDING" /\ work'.flip = stale /\ work'.flag = {}
      /\ work'.enq = {} /\ work'.mark = {}
  BY <1>1 DEF Flips, NoWork
<1>3. AtRest /\ UNCHANGED files /\ stale \in SUBSET Tasks
  BY DEF HealStale, RInv, StageWork
<1>4. CASE MaxHeals = 0
  <2>1. stale = {}
    BY <1>1, <1>4 DEF MayBeStale, TypeOK
  <2>2. AtRest'
    BY <1>2, <2>1 DEF AtRest
  <2>3. QED
    BY <1>3, <2>2, PipeRests
<1>5. CASE MaxHeals # 0
  <2>1. Pipeline!Move(stale, "PENDING") /\ UNCHANGED [t \in Tasks |-> RoundsOf(t)]
    BY <1>2, <1>3, PipeFlips
  <2>2. Pipeline!In(stale, "IN_PROGRESS")
    BY <1>1, <1>3, PipeAtRest, PipeIn DEF MayBeStale
  <2>3. OpenGates' = OpenGates /\ CastVotes' = CastVotes
    BY <1>2, <1>3, PipeQuiet
  <2>4. Pipeline!Heal(stale)
    BY <1>5, <2>1, <2>2, <2>3 DEF Pipeline!Heal
  <2>5. QED
    BY <1>3, <2>4 DEF Pipeline!PNext
<1>6. QED
  BY <1>4, <1>5

(* A worker's answer: of a task IN_PROGRESS, unless workers may be healed. *)
LEMMA PipeWorker ==
  ASSUME TypeOK, RInv, MaxHeals = 0 => OneWorker, NEW r \in pend, ApplyWorkerResult(r)
  PROVE  [Pipeline!PNext]_(Pipeline!pvars)
<1>1. /\ pc = "workers" /\ AtRest /\ r.of.kind = "worker" /\ UNCHANGED files
  BY DEF ApplyWorkerResult
<1>2. CASE UNCHANGED work
  <2>1. AtRest'
    BY <1>1, <1>2 DEF AtRest
  <2>2. QED
    BY <1>1, <2>1, PipeRests
<1>3. CASE ~ UNCHANGED work
  <2>1. PICK t \in r.of.paths :
          /\ AppliesTo(t)
          /\ work' = [Flips(IF r.ans.verdict = "ok" THEN "REVIEW" ELSE "FAILED", {t})
                        EXCEPT !.mark = {r}]
    BY <1>3 DEF ApplyWorkerResult
  <2>2. PICK x \in {"REVIEW", "FAILED"} :
          /\ work'.to = x /\ work'.flip = {t} /\ work'.flag = {}
          /\ work'.enq = {} /\ work'.mark = {r}
    BY <2>1 DEF Flips, NoWork
  <2>3. t \in Tasks /\ status[t] \in {"IN_PROGRESS", "REVIEW", "FAILED"}
    BY <2>1, <1>1 DEF AppliesTo, RInv, ListAged, TypeOK
  <2>4. StageOf(t) = status[t]
    BY <1>1, <2>3, PipeAtRest
  <2>5. Pipeline!Move({t}, x) /\ UNCHANGED [u \in Tasks |-> RoundsOf(u)]
    BY <1>1, <2>2, <2>3, PipeFlips
  <2>6. OpenGates' = OpenGates /\ CastVotes' = CastVotes
    BY <1>1, <2>2, PipeQuiet
  <2>7. CASE status[t] = "IN_PROGRESS"
    <3>1. Pipeline!Finish(t)
      BY <2>2, <2>3, <2>4, <2>5, <2>6, <2>7 DEF Pipeline!Finish
    <3>2. QED
      BY <2>3, <3>1 DEF Pipeline!PNext
  <2>8. CASE status[t] # "IN_PROGRESS"
    <3>1. MaxHeals # 0
      <4>1. r.of \in Workers(t) /\ ~ WasApplied(r.of)
        BY <1>1, <2>1 DEF RInv, AnsweredOnce, Answered, Workers
      <4>2. InHand = {}
        BY <1>1 DEF AtRest, InHand
      <4>3. QED
        BY <2>3, <2>8, <4>1, <4>2 DEF OneWorker
    <3>2. Pipeline!FinishAgain(t)
      BY <2>2, <2>3, <2>4, <2>5, <2>6, <2>8, <3>1 DEF Pipeline!FinishAgain
    <3>3. QED
      BY <2>3, <3>2 DEF Pipeline!PNext
  <2>9. QED
    BY <2>7, <2>8
<1>4. QED
  BY <1>2, <1>3

(* A wave is dispatched: tasks that may start in the pipeline.             *)
LEMMA PipeWave ==
  ASSUME TypeOK, DInv, RInv, DispatchWave PROVE [Pipeline!PNext]_(Pipeline!pvars)
<1> DEFINE T == Decision.tasks
<1>1. /\ AtRest /\ UNCHANGED files
      /\ work'.to = "IN_PROGRESS" /\ work'.flip = T /\ work'.flag = {} /\ work'.mark = {}
      /\ work'.enq = {WorkerDraft(t) : t \in T}
  BY DEF DispatchWave, StartWrites, Flips, NoWork
<1>2. T \in SUBSET Tasks /\ \A t \in T : Startable(t)
  BY DecidedTasks, ReadyIsStartable DEF TypeOK, DispatchWave, DInv, DecidesInSync
<1>3. \A d \in work'.enq : d.kind # "advisor"
  BY <1>1 DEF WorkerDraft
<1> HIDE DEF T
<1>4. Pipeline!Move(T, "IN_PROGRESS") /\ UNCHANGED [t \in Tasks |-> RoundsOf(t)]
  BY <1>1, <1>2, PipeFlips
<1>5. OpenGates' = OpenGates /\ CastVotes' = CastVotes
  BY <1>1, <1>3, PipeQuiet
<1>6. \A t \in Tasks : StageOf(t) = status[t]
  BY <1>1, PipeAtRest
<1>7. Pipeline!In(T, "PENDING")
  BY <1>2, <1>6, PipeIn DEF Startable
<1>8. \A t \in T : Pipeline!Startable(t)
  <2> TAKE t \in T
  <2>1. Deps[t] \subseteq Tasks /\ Startable(t)
    BY <1>2, PlanAssumption DEF PlanAssumption
  <2>2. \A d \in Deps[t] :
          StageOf(d) = "DONE" \/ (StageOf(d) = "REVIEW" /\ Wave[d] = Wave[t])
    BY <2>1, <1>6 DEF Startable
  <2>3. QED
    BY <2>1, <2>2 DEF Pipeline!Startable
<1>9. Pipeline!Start(T)
  BY <1>4, <1>5, <1>7, <1>8 DEF Pipeline!Start
<1>10. QED
  BY <1>2, <1>9 DEF Pipeline!PNext

(* A gate is opened, over tasks of one wave.                               *)
LEMMA PipeGate ==
  ASSUME TypeOK, DInv, RInv, DispatchAdvisor PROVE [Pipeline!PNext]_(Pipeline!pvars)
<1> DEFINE T == Decision.tasks
<1>1. /\ pc = "decide" /\ AtRest /\ UNCHANGED files
      /\ work'.to = "EXECUTING" /\ work'.flip = T /\ work'.flag = {} /\ work'.mark = {}
      /\ work'.enq = ScannerPair(T)
  BY DEF DispatchAdvisor, StartWrites, Flips, NoWork
<1>2. T = EarliestReview(snap) /\ GateReached(snap)
  BY DEF DispatchAdvisor, Decision, Decide, Action
<1>3. T \in SUBSET Tasks /\ T # {} /\ \A t \in T : status[t] = "REVIEW"
  BY <1>1, <1>2, DecidedTasks, GateHasTasks
     DEF TypeOK, DInv, DecidesInSync, Agrees, EarliestReview, With
<1>4. \A t, u \in T : Wave[t] = Wave[u]
  <2> TAKE t, u \in T
  <2>1. Wave[t] \in Nat /\ Wave[u] \in Nat /\ Wave[t] <= Wave[u] /\ Wave[u] <= Wave[t]
    BY <1>2, <1>3, PlanAssumption DEF PlanAssumption, EarliestReview
  <2>2. QED
    BY <2>1
<1> HIDE DEF T
<1>5. Pipeline!Move(T, "EXECUTING") /\ UNCHANGED [t \in Tasks |-> RoundsOf(t)]
  BY <1>1, <1>3, PipeFlips
<1>6. Pipeline!In(T, "REVIEW")
  BY <1>1, <1>3, PipeAtRest, PipeIn
<1>7. {d.key : d \in work'.enq} = {T} /\ \A d \in work'.enq : d.kind = "advisor"
  <2>1. [kind |-> "advisor", paths |-> Shard(T, 0), key |-> T, idx |-> 0] \in work'.enq
    BY <1>1 DEF ScannerPair
  <2>2. \A d \in work'.enq : d.kind = "advisor" /\ d.key = T
    BY <1>1 DEF ScannerPair
  <2>3. QED
    BY <2>1, <2>2
<1>8. Unapplied' = Unapplied
  BY <1>1 DEF Unapplied, AtRest, files
<1>9. OpenGates' = OpenGates \cup {T}
  BY <1>1, <1>7, <1>8 DEF OpenGates, AtRest
<1>10. CastVotes' = CastVotes
  BY <1>1 DEF CastVotes, AtRest, files
<1>11. Pipeline!Open(T)
  BY <1>3, <1>4, <1>5, <1>6, <1>9, <1>10 DEF Pipeline!Open
<1>12. QED
  BY <1>3, <1>11 DEF Pipeline!PNext

(* An answer is a vote, the first of its scanner, if it is a scanner's.    *)
LEMMA PipeAnswer ==
  ASSUME ReAnswer = FALSE, TypeOK, RInv, NEW i \in intents, SessionAnswers(i)
  PROVE  [Pipeline!PNext]_(Pipeline!pvars)
<1>1. PICK a \in AnswersTo(i) : results' = results \cup {[of |-> i, ans |-> a]}
  BY DEF SessionAnswers
<1>2. Listed(i) /\ ~ WasApplied(i) /\ UNCHANGED <<status, regs, intents, applied, locals>>
  BY DEF SessionAnswers
<1>3. \A t \in Tasks : StageOf(t)' = StageOf(t) /\ RoundsOf(t)' = RoundsOf(t)
  BY <1>2 DEF StageOf, RoundsOf, OverLimit, locals
<1>4. OpenGates' = OpenGates
  BY <1>2 DEF OpenGates, Unapplied, locals
<1>5. [of |-> i, ans |-> a] \notin work.mark /\ i \notin InHand
  BY <1>2 DEF RInv, AnsweredOnce, Listed, InHand
<1>6. results' \ work'.mark = (results \ work.mark) \cup {[of |-> i, ans |-> a]}
  BY <1>1, <1>2, <1>5 DEF locals
<1>7. CASE i.kind # "advisor"
  <2>1. {x \in results' \ work'.mark : x.of.kind = "advisor"}
          = {x \in results \ work.mark : x.of.kind = "advisor"}
    BY <1>6, <1>7
  <2>2. CastVotes' = CastVotes
    BY <2>1 DEF CastVotes
  <2>3. QED
    BY <1>3, <1>4, <2>2, PipeSame
<1>8. CASE i.kind = "advisor"
  <2>1. i \in Live \ InHand
    BY <1>2, <1>5, <1>8 DEF Live
  <2>2. i.key \in OpenGates
    BY <2>1, PipeLive DEF OpenGates
  <2>3. i.key \in SUBSET Tasks /\ i.idx \in {0, 1} /\ i.key # {}
    BY <1>8 DEF TypeOK, Intent, RInv, WellFormed, Envelope
  <2>4. Pipeline!In(i.key, "EXECUTING")
    BY <2>1, <2>3, PipeIn DEF RInv, UnderReview, StageOf
  <2>5. \A v \in CastVotes : ~ (v.gate = i.key /\ v.by = i.idx)
    <3> SUFFICES ASSUME NEW x \in results, x.of.kind = "advisor",
                        x.of.key = i.key, x.of.idx = i.idx
                 PROVE  FALSE
      BY DEF CastVotes
    <3>1. x.of \in Live
      BY DEF RInv, AnsweredOnce, Answered, Live
    <3>2. x.of = i
      BY <2>1, <2>3, <3>1 DEF RInv, OneGate
    <3>3. QED
      BY <1>2, <3>2 DEF Listed
  <2>6. a.verdict \in {"ok", "error", "revise"} /\ a.flagged \subseteq i.key
    BY <1>1 DEF AnswersTo, Plain
  <2>7. CastVotes' = CastVotes \cup
          {[gate |-> i.key, by |-> i.idx, verdict |-> a.verdict, flagged |-> a.flagged]}
    <3>1. {x \in results' \ work'.mark : x.of.kind = "advisor"}
            = {x \in results \ work.mark : x.of.kind = "advisor"}
                \cup {[of |-> i, ans |-> a]}
      BY <1>6, <1>8
    <3> DEFINE VoteOf(x) == [gate |-> x.of.key, by |-> x.of.idx,
                             verdict |-> x.ans.verdict, flagged |-> x.ans.flagged]
               old == {x \in results \ work.mark : x.of.kind = "advisor"}
               ra == [of |-> i, ans |-> a]
    <3>2. CastVotes = {VoteOf(x) : x \in old} /\ CastVotes' = {VoteOf(x) : x \in old \cup {ra}}
      BY <3>1 DEF CastVotes
    <3>3. VoteOf(ra) =
            [gate |-> i.key, by |-> i.idx, verdict |-> a.verdict, flagged |-> a.flagged]
      OBVIOUS
    <3> HIDE DEF old, ra, VoteOf
    <3>4. QED
      BY <3>2, <3>3
  <2>8. UNCHANGED <<[t \in Tasks |-> StageOf(t)], [t \in Tasks |-> RoundsOf(t)]>>
    BY <1>3
  <2>9. Pipeline!Vote(i.key, i.idx)
    BY <1>4, <2>2, <2>4, <2>5, <2>6, <2>7, <2>8 DEF Pipeline!Vote
  <2>10. QED
    BY <2>2, <2>3, <2>9 DEF Pipeline!PNext
<1>9. QED
  BY <1>7, <1>8

(* A pair is a judgement, over its gate and with its two votes.            *)
LEMMA PipePairRest ==
  ASSUME TypeOK, RInv, NEW r \in pend, NEW q \in pend, Pair(r, q),
         work'.mark = {r, q}, work'.enq = {}
  PROVE  /\ OpenGates' = OpenGates \ {r.of.key}
         /\ CastVotes' = {x \in CastVotes : x.gate # r.of.key}
<1>1. AtRest /\ UNCHANGED files
  BY DEF Pair
<1>2. /\ r \in results /\ q \in results
      /\ r.of \in Live /\ q.of \in Live /\ r.of # q.of
      /\ r.of.kind = "advisor" /\ q.of.kind = "advisor"
      /\ r.of.key = q.of.key /\ {r.of.idx, q.of.idx} = {0, 1}
  BY PairFacts
<1>3. ASSUME NEW j \in Live, j \notin {r.of, q.of} PROVE j.key # r.of.key
  <2>1. j.idx \in {0, 1} /\ j.key # {}
    BY DEF Live, TypeOK, Intent, RInv, WellFormed, Envelope
  <2>2. QED
    BY <1>2, <1>3, <2>1 DEF RInv, OneGate
<1>4. {e \in Unapplied : e.kind = "advisor"} = Live
  BY <1>1 DEF Unapplied, Live, AtRest, WasApplied
<1>5. {e \in Unapplied' : e.kind = "advisor"} = Live \ {r.of, q.of}
  BY <1>1, <1>2 DEF Unapplied, Live, files, WasApplied
<1>6. OpenGates = {d.key : d \in Live} /\ OpenGates' = {d.key : d \in Live \ {r.of, q.of}}
  <2>1. {e \in Unapplied \cup work.enq : e.kind = "advisor"} = Live
    BY <1>1, <1>4 DEF AtRest
  <2>2. {e \in Unapplied' \cup work'.enq : e.kind = "advisor"} = Live \ {r.of, q.of}
    BY <1>5
  <2>3. QED
    BY <2>1, <2>2 DEF OpenGates
<1>7. OpenGates' = OpenGates \ {r.of.key}
  BY <1>2, <1>3, <1>6
<1>8. ASSUME NEW x \in results, x.of.kind = "advisor"
      PROVE  x.of.key # r.of.key <=> x \notin {r, q}
  <2>1. x.of \in Live
    BY <1>8 DEF RInv, AnsweredOnce, Answered, Live
  <2>2. x.of \in {r.of, q.of} => x \in {r, q}
    BY <1>2 DEF RInv, AnsweredOnce
  <2>3. QED
    BY <1>2, <1>3, <2>1, <2>2
<1>9. CastVotes' = {x \in CastVotes : x.gate # r.of.key}
  <2> DEFINE VoteOf(x) == [gate |-> x.of.key, by |-> x.of.idx,
                           verdict |-> x.ans.verdict, flagged |-> x.ans.flagged]
             old == {x \in results : x.of.kind = "advisor"}
             new == {x \in old : x \notin {r, q}}
  <2>1. CastVotes = {VoteOf(x) : x \in old}
    <3>1. {x \in results \ work.mark : x.of.kind = "advisor"} = old
      BY <1>1 DEF AtRest
    <3>2. QED
      BY <3>1 DEF CastVotes
  <2>2. CastVotes' = {VoteOf(x) : x \in new}
    <3>1. {x \in results' \ work'.mark : x.of.kind = "advisor"} = new
      BY <1>1 DEF files
    <3>2. QED
      BY <3>1 DEF CastVotes
  <2>3. \A x \in old : VoteOf(x).gate # r.of.key <=> x \in new
    BY <1>8
  <2> HIDE DEF old, new, VoteOf
  <2>4. new \subseteq old
    BY DEF new
  <2>5. QED
    BY <2>1, <2>2, <2>3, <2>4
<1>10. QED
  BY <1>7, <1>9

LEMMA PipePair ==
  ASSUME TypeOK, RInv, SInv, NEW r \in pend, NEW q \in pend,
         \/ ApplyPairUnknown(r, q) \/ ApplyPairError(r, q)
         \/ ApplyPairApprove(r, q) \/ ApplyPairRevise(r, q)
  PROVE  [Pipeline!PNext]_(Pipeline!pvars)
<1> DEFINE G == r.of.key
           VoteOf(x) == [gate |-> x.of.key, by |-> x.of.idx,
                         verdict |-> x.ans.verdict, flagged |-> x.ans.flagged]
           v == VoteOf(r)
           w == VoteOf(q)
<1>1. Pair(r, q)
  BY DEF ApplyPairUnknown, ApplyPairError, ApplyPairApprove, ApplyPairRevise
<1>2. pc = "pairs" /\ AtRest /\ UNCHANGED files /\ r.of.idx <= q.of.idx
  BY <1>1 DEF Pair, Selected
<1>3. /\ r \in results /\ q \in results
      /\ r.of.kind = "advisor" /\ q.of.kind = "advisor"
      /\ r.of \in Live /\ q.of \in Live
      /\ q.of.key = G /\ G \in SUBSET Tasks
      /\ {r.of.idx, q.of.idx} = {0, 1}
      /\ Batch(r, q) = G
  BY <1>1, PairFacts
<1>4. r.of.idx = 0 /\ q.of.idx = 1
  <2>1. CASE r.of.idx = 1 /\ q.of.idx = 0
    BY <1>2, <2>1
  <2>2. QED
    BY <1>3, <2>1
<1>5. v \in CastVotes /\ w \in CastVotes
  BY <1>2, <1>3 DEF CastVotes, AtRest
<1>6. InHand = {}
  BY <1>2 DEF AtRest, InHand
<1>7. \A t \in G : status[t] = "EXECUTING"
  BY <1>3, <1>6 DEF RInv, UnderReview
<1>8. Pipeline!In(G, "EXECUTING")
  BY <1>2, <1>3, <1>7, PipeAtRest, PipeIn
<1>9. G \in OpenGates
  BY <1>3, <1>6, PipeLive DEF OpenGates
<1>10. /\ v.gate = G /\ w.gate = G /\ v.by = 0 /\ w.by = 1
       /\ v.verdict = r.ans.verdict /\ v.flagged = r.ans.flagged
       /\ w.verdict = q.ans.verdict /\ w.flagged = q.ans.flagged
       /\ r.ans.verdict \in {"ok", "error", "revise"}
       /\ q.ans.verdict \in {"ok", "error", "revise"}
  BY <1>3, <1>4 DEF TypeOK, Result, Answer
<1> HIDE DEF VoteOf, v, w
<1>11. ASSUME work'.mark = {r, q}, work'.enq = {},
              \/ /\ "error" \in {v.verdict, w.verdict}
                 /\ Pipeline!Move(G, "REVIEW") /\ UNCHANGED [t \in Tasks |-> RoundsOf(t)]
              \/ /\ v.verdict = "ok" /\ w.verdict = "ok"
                 /\ Pipeline!Move(G, "DONE") /\ UNCHANGED [t \in Tasks |-> RoundsOf(t)]
              \/ /\ "revise" \in {v.verdict, w.verdict}
                 /\ "error" \notin {v.verdict, w.verdict}
                 /\ Pipeline!SendBack(G, Pipeline!ToRepair(G, v, w))
       PROVE  Pipeline!PNext
  <2>1. OpenGates' = OpenGates \ {G} /\ CastVotes' = {x \in CastVotes : x.gate # G}
    BY <1>1, <1>11, PipePairRest
  <2> HIDE DEF G
  <2>2. Pipeline!Judge(v, w)
    BY <1>8, <1>9, <1>10, <1>11, <2>1 DEF Pipeline!Judge
  <2>3. QED
    BY <1>5, <2>2 DEF Pipeline!PNext
<1>12. CASE ApplyPairUnknown(r, q)
  <2>1. AtRest'
    BY <1>2, <1>12 DEF ApplyPairUnknown, AtRest
  <2>2. QED
    BY <1>2, <2>1, PipeRests
<1>13. CASE ApplyPairError(r, q)
  <2>1. /\ work'.mark = {r, q} /\ work'.enq = {} /\ work'.flag = {}
        /\ work'.flip = G /\ work'.to = "REVIEW"
        /\ "error" \in {v.verdict, w.verdict}
    BY <1>3, <1>10, <1>13 DEF ApplyPairError, Flips, NoWork
  <2>2. Pipeline!Move(G, "REVIEW") /\ UNCHANGED [t \in Tasks |-> RoundsOf(t)]
    BY <1>2, <1>3, <2>1, PipeFlips
  <2>3. QED
    BY <1>11, <2>1, <2>2
<1>14. CASE ApplyPairApprove(r, q)
  <2>1. /\ work'.mark = {r, q} /\ work'.enq = {} /\ work'.flag = {}
        /\ work'.flip = G /\ work'.to = "DONE"
        /\ v.verdict = "ok" /\ w.verdict = "ok"
    BY <1>3, <1>10, <1>14 DEF ApplyPairApprove, BothApprove, Flips, NoWork
  <2>2. Pipeline!Move(G, "DONE") /\ UNCHANGED [t \in Tasks |-> RoundsOf(t)]
    BY <1>2, <1>3, <2>1, PipeFlips
  <2>3. QED
    BY <1>11, <2>1, <2>2
<1>15. CASE ApplyPairRevise(r, q)
  <2> DEFINE F == OrAll(FlaggedEach(r, q), G)
  <2>1. FlaggedCombined(r, q) = FlaggedEach(r, q)
    BY <1>3 DEF SInv, FreeText, FlaggedCombined, FlaggedEach
  <2>2. Restored(r, q) = G \ F
    <3>1. \A t \in G : t \in DOMAIN snap
      BY <1>3, <1>15 DEF ApplyPairRevise
    <3>2. \A t \in G : snap[t] = "EXECUTING"
      BY <1>2, <1>7, <3>1 DEF RInv, ListAged
    <3>3. QED
      BY <1>3, <3>2 DEF Restored
  <2>3. /\ work'.mark = {r, q} /\ work'.enq = {} /\ work'.to = "REVIEW"
        /\ work'.flip = G \ F /\ work'.flag = F
    BY <1>3, <1>15, <2>1, <2>2 DEF ApplyPairRevise, Flips, NoWork
  <2>4. F = Pipeline!ToRepair(G, v, w) /\ F \subseteq G
    BY <1>3, <1>10 DEF OrAll, FlaggedEach, Pipeline!ToRepair
  <2>5. "revise" \in {v.verdict, w.verdict} /\ "error" \notin {v.verdict, w.verdict}
    BY <1>10, <1>15 DEF ApplyPairRevise, BothApprove
  <2> HIDE DEF F, G
  <2>6. \A t \in Tasks : StageOf(t) = status[t] /\ RoundsOf(t) = regs[t]
    BY <1>2, PipeAtRest
  <2>7. ASSUME NEW t \in Tasks
        PROVE  /\ StageOf(t)' =
                    IF t \in F
                      THEN IF RoundsOf(t) + 1 > MaxReviseRounds THEN "BLOCKED" ELSE "PENDING"
                    ELSE IF t \in G THEN "REVIEW" ELSE StageOf(t)
               /\ RoundsOf(t)' =
                    IF t \in F /\ ~ (RoundsOf(t) + 1 > MaxReviseRounds)
                      THEN RoundsOf(t) + 1 ELSE RoundsOf(t)
    <3>1. status'[t] = status[t] /\ regs'[t] = regs[t]
      BY <1>2 DEF files
    <3>2. QED
      BY <2>3, <2>6, <3>1 DEF StageOf, RoundsOf, OverLimit
  <2>8. Pipeline!SendBack(G, F)
    BY <2>4, <2>7, <1>3 DEF Pipeline!SendBack
  <2>9. QED
    BY <1>11, <2>3, <2>4, <2>5, <2>8
<1>16. QED
  BY <1>12, <1>13, <1>14, <1>15

(* Every step of the loop is one of the pipeline's, or none.               *)
LEMMA PipeStep ==
  ASSUME Orderly, TypeOK, DInv, RInv, SInv, MaxHeals = 0 => OneWorker, [Next]_vars
  PROVE  [Pipeline!PNext]_(Pipeline!pvars)
<1>1. CASE Write
  BY <1>1, PipeFlip, PipeFlag, PipeIntent, PipeMark DEF Write
<1>2. CASE HealStale
  BY <1>2, PipeHeal
<1>3. CASE \/ StartupFails \/ SkipHeld \/ NothingToDo \/ ActionTaken \/ CloseSession
           \/ StatesCompared \/ ReadState \/ WorkersApplied \/ PairsApplied \/ AllDone
  <2>1. AtRest /\ UNCHANGED files /\ work' = NoWork
    BY <1>3 DEF StartupFails, SkipHeld, NothingToDo, ActionTaken, CloseSession, Exit,
                StatesCompared, ReadState, WorkersApplied, PairsApplied, AllDone, RInv,
                StageWork
  <2>2. AtRest'
    BY <2>1 DEF NoWork, AtRest
  <2>3. QED
    BY <2>1, <2>2, PipeRests
<1>4. CASE \E r \in pend : ApplyWorkerResult(r)
  BY <1>4, PipeWorker
<1>5. CASE ApplyPair
  BY <1>5, PipePair DEF ApplyPair
<1>6. CASE DispatchWave \/ DispatchAdvisor
  BY <1>6, PipeWave, PipeGate
<1>7. CASE Session
  BY <1>7, PipeAnswer DEF Session, Orderly
<1>8. CASE UserHolds \/ (\E t \in Tasks : TaskFileEdited(t)) \/ UNCHANGED vars
  <2>1. UNCHANGED <<files, locals>>
    BY <1>8 DEF UserHolds, TaskFileEdited, vars
  <2>2. \A t \in Tasks : StageOf(t)' = StageOf(t) /\ RoundsOf(t)' = RoundsOf(t)
    BY <2>1 DEF StageOf, RoundsOf, OverLimit, files, locals
  <2>3. OpenGates' = OpenGates /\ CastVotes' = CastVotes
    BY <2>1 DEF OpenGates, CastVotes, Unapplied, files, locals
  <2>4. QED
    BY <2>2, <2>3, PipeSame
<1>9. ~ Crash
  BY NeverCrashes DEF Orderly
<1>10. QED
  BY <1>1, <1>2, <1>3, <1>4, <1>5, <1>6, <1>7, <1>8, <1>9 DEF Next, Cycle, Closed

(* The dispatch loop implements ReviewPipeline: with workers and scanners  *)
(* answering at any moment and task files that stop to parse, tasks start, *)
(* come under review and are judged together (_handle_dispatch_wave,       *)
(* _handle_dispatch_advisor, _apply_bug_scanner_pair_results,              *)
(* _revise_wave_batch), each as if in one step.  As above, when no cycle   *)
(* is cut off, no answer is repeated and guidance has no FAILING TASKS:    *)
(* line; healing is a step of the pipeline too.                            *)
THEOREM LoopIsPipeline ==
  ASSUME Orderly, ExplicitLines \subseteq {FALSE} PROVE Spec => ReviewsAreAtomic
<1> DEFINE HInv == MaxHeals = 0 => OneWorker
<1>1. Init => HInv
  BY WorkerInit
<1>2. TypeOK /\ DInv /\ RInv /\ HInv /\ [Next]_vars => HInv'
  BY WorkerStep
<1>3. TypeOK /\ RInv /\ SInv /\ [Next]_vars => SInv'
  BY StrandStep
<1>4. TypeOK /\ DInv /\ RInv /\ SInv /\ HInv /\ [Next]_vars =>
        [Pipeline!PNext]_(Pipeline!pvars)
  BY PipeStep
<1> HIDE DEF HInv
<1>5. QED
  BY TypeInit, TypeStep, DispatchInit, DispatchStep, ReviewInvariant, StrandInit, PipeInit,
     <1>1, <1>2, <1>3, <1>4, PTL DEF Spec, ReviewsAreAtomic, Pipeline!PSpec

-----------------------------------------------------------------------------
(* Cycles that are cut off.  Gates may then mix - a half of a pair that is *)
(* left joins an answer of the next gate of the same tasks - and RInv is   *)
(* lost.  But every dispatch pays for one review, and a crash for one.     *)

UnderWay(t) == {i \in Live : t \in i.key}

Promised(t) == {d \in work.enq : d.kind = "advisor" /\ t \in d.key}

Starting(t) == {d \in work.enq : d.kind = "worker" /\ t \in d.paths}

(* A dispatched task keeps what it was given until a gate is opened, which *)
(* is then what its two intents are worth, until they are applied.         *)
Weight(s) == IF s \in {"PENDING", "EXECUTING"} THEN 0 ELSE 2

(* What the rounds and reviews of a task have cost once all is written,    *)
(* and what they have cost if the cycle ends here.                         *)
Cost(t) ==
  2 * RoundsOf(t) + Cardinality(UnderWay(t) \ InHand) + Cardinality(Promised(t))
    + Weight(StageOf(t))

CostOnDisk(t) == 2 * regs[t] + Cardinality(UnderWay(t)) + Weight(status[t])

(* The most that the writes still to be made will add to the latter.       *)
Ahead(t) ==
  (IF t \in work.flag \/ (t \in work.flip /\ work.to \notin {"PENDING", "EXECUTING"})
     THEN 2 ELSE 0)
    + Cardinality(Promised(t))

Paid(t) == 2 * Cardinality(Workers(t)) + 2 * crashes

PaidFor(t) == Cost(t) <= Paid(t) + 2 * Cardinality(Starting(t))

(* One crash more would pay for what is lost with the cycle.               *)
Insured(t) == CostOnDisk(t) + Ahead(t) <= Paid(t) + 2

Costs == \A t \in Tasks : PaidFor(t) /\ Insured(t)

(* A worker's answer is applied to a task that was dispatched.             *)
WorkersRan ==
  pc = "workers" =>
    /\ work.flip = {} \/ work.to \in {"REVIEW", "FAILED"}
    /\ \A t \in DOMAIN snap :
         snap[t] = "IN_PROGRESS" => status[t] \in {"IN_PROGRESS", "REVIEW", "FAILED"}

(* A task is given up with all its repairs used, and is not started again. *)
GivenUp ==
  /\ work.to # "BLOCKED"
  /\ \A t \in Tasks : status[t] = "BLOCKED" =>
       /\ regs[t] = MaxReviseRounds
       /\ t \in work.flip => work.to \in {"REVIEW", "DONE"}
       /\ Starting(t) = {}

Keyed == \A d \in intents \cup work.enq : d.kind = "advisor" => d.paths \subseteq d.key

FewDrafts == \A t \in Tasks : IsFiniteSet(Promised(t)) /\ IsFiniteSet(Starting(t))

Booked ==
  /\ Numbered /\ AnsweredOnce /\ FreeText /\ StageWork /\ Keyed /\ FewDrafts
  /\ work.flip \cap work.flag = {}
  /\ WorkersRan /\ GivenUp

LEMMA BookedInit == Init => Booked
<1> SUFFICES ASSUME Init PROVE Booked
  OBVIOUS
<1> USE DEF Init
<1>1. Numbered
  BY FS_EmptySet DEF Numbered
<1>2. \A t : Promised(t) = {} /\ Starting(t) = {}
  BY DEF Promised, Starting, NoWork
<1>3. FewDrafts /\ GivenUp
  BY <1>2, FS_EmptySet DEF FewDrafts, GivenUp, NoWork
<1>4. QED
  BY <1>1, <1>3
     DEF Booked, AnsweredOnce, Answered, FreeText, StageWork, AtRest, Keyed, WorkersRan, NoWork

LEMMA BookedFlip ==
  ASSUME TypeOK, Booked, NEW t \in Tasks, WriteFlip(t) PROVE Booked'
<1>1. /\ work'.to = work.to /\ work'.flag = work.flag /\ work'.mark = work.mark
      /\ work'.enq = work.enq /\ work'.flip = work.flip \ {t} /\ t \in work.flip
  BY DEF WriteFlip, TypeOK, Work
<1>2. /\ status'[t] = work.to /\ \A u \in Tasks : u # t => status'[u] = status[u]
      /\ UNCHANGED <<regs, intents, results, applied, pc, snap, pend>>
  BY DEF WriteFlip, TypeOK
<1>3. \A u : Promised(u)' = Promised(u) /\ Starting(u)' = Starting(u)
  BY <1>1 DEF Promised, Starting
<1>4. Numbered' /\ AnsweredOnce' /\ FreeText' /\ Keyed' /\ FewDrafts'
  BY <1>1, <1>2, <1>3
     DEF Booked, Numbered, AnsweredOnce, Answered, WasApplied, FreeText, Keyed, FewDrafts
<1>5. StageWork'
  BY <1>1, <1>2 DEF Booked, StageWork, AtRest
<1>6. WorkersRan'
  <2>1. DOMAIN snap \subseteq Tasks
    BY DEF TypeOK
  <2>2. QED
    BY <1>1, <1>2, <2>1 DEF Booked, WorkersRan
<1>7. GivenUp'
  BY <1>1, <1>2, <1>3 DEF Booked, GivenUp
<1>8. QED
  BY <1>1, <1>4, <1>5, <1>6, <1>7 DEF Booked

LEMMA BookedFlag ==
  ASSUME TypeOK, Booked, NEW t \in Tasks, WriteFlag(t) PROVE Booked'
<1>1. /\ work.flip = {} /\ t \in work.flag
      /\ work'.flag = work.flag \ {t} /\ work'.mark = work.mark /\ work'.enq = work.enq
      /\ \/ /\ OverLimit(t) /\ work'.flip = {} /\ work'.to = work.to
            /\ status'[t] = "BLOCKED" /\ regs' = regs
         \/ /\ ~ OverLimit(t) /\ work'.flip = {t} /\ work'.to = "PENDING"
            /\ status' = status /\ regs'[t] = regs[t] + 1
  BY DEF WriteFlag, TypeOK, Work
<1>2. /\ \A u \in Tasks : u # t => status'[u] = status[u] /\ regs'[u] = regs[u]
      /\ UNCHANGED <<intents, results, applied, pc, snap, pend>>
  BY DEF WriteFlag, TypeOK
<1>3. \A u : Promised(u)' = Promised(u) /\ Starting(u)' = Starting(u)
  BY <1>1 DEF Promised, Starting
<1>4. Numbered' /\ AnsweredOnce' /\ FreeText' /\ Keyed' /\ FewDrafts'
  BY <1>1, <1>2, <1>3
     DEF Booked, Numbered, AnsweredOnce, Answered, WasApplied, FreeText, Keyed, FewDrafts
<1>5. pc = "pairs" /\ work.enq = {}
  BY <1>1 DEF Booked, StageWork
<1>6. StageWork' /\ WorkersRan'
  BY <1>1, <1>2, <1>5 DEF Booked, StageWork, AtRest, WorkersRan
<1>7. GivenUp'
  <2>1. \A u : Starting(u) = {}
    BY <1>5 DEF Starting
  <2>2. OverLimit(t) => regs[t] = MaxReviseRounds
    BY BoundAssumption DEF OverLimit, TypeOK, BoundAssumption
  <2>3. status[t] = "BLOCKED" => OverLimit(t)
    BY BoundAssumption DEF Booked, GivenUp, OverLimit, BoundAssumption
  <2>4. work'.to # "BLOCKED"
    BY <1>1 DEF Booked, GivenUp
  <2>5. ASSUME NEW u \in Tasks, status'[u] = "BLOCKED"
        PROVE  /\ regs'[u] = MaxReviseRounds
               /\ u \in work'.flip => work'.to \in {"REVIEW", "DONE"}
    <3>1. CASE u = t
      BY <3>1, <2>5, <2>2, <2>3, <1>1
    <3>2. CASE u # t
      BY <3>2, <2>5, <1>1, <1>2 DEF Booked, GivenUp
    <3>3. QED
      BY <3>1, <3>2
  <2>6. QED
    BY <2>1, <2>4, <2>5, <1>3 DEF GivenUp
<1>8. work'.flip \cap work'.flag = {}
  BY <1>1
<1>9. QED
  BY <1>4, <1>6, <1>7, <1>8 DEF Booked

LEMMA BookedIntent ==
  ASSUME TypeOK, Booked, NEW d \in work.enq, WriteIntent(d) PROVE Booked'
<1>1. /\ work'.to = work.to /\ work'.flag = work.flag /\ work'.mark = work.mark
      /\ work'.flip = work.flip /\ work'.enq = work.enq \ {d}
      /\ UNCHANGED <<status, regs, results, applied, pc, snap, pend>>
  BY DEF WriteIntent, TypeOK, Work
<1>2. PICK i : /\ i.id = Cardinality(intents) + 1
               /\ i.kind = d.kind /\ i.paths = d.paths /\ i.key = d.key
               /\ intents' = intents \cup {i}
  BY DEF WriteIntent
<1>3. /\ IsFiniteSet(intents) /\ Cardinality(intents) \in Nat
      /\ \A j \in intents : j.id \in Nat /\ j.id <= Cardinality(intents)
  BY FS_CardinalityType DEF Booked, Numbered, TypeOK, Intent
<1>4. i \notin intents /\ Cardinality(intents') = Cardinality(intents) + 1
      /\ IsFiniteSet(intents') /\ \A j \in intents : j.id < i.id
  BY <1>2, <1>3, FS_AddElement
<1>5. Numbered'
  <2>1. \A j \in intents' : j.id <= Cardinality(intents')
    BY <1>2, <1>3, <1>4
  <2>2. \A j \in intents : j.id # i.id
    BY <1>2, <1>3, <1>4
  <2>3. \A j, k \in intents' : j.id = k.id => j = k
    BY <2>2, <1>2 DEF Booked, Numbered
  <2>4. QED
    BY <2>1, <2>3, <1>4 DEF Numbered
<1>6. AnsweredOnce' /\ FreeText'
  BY <1>1, <1>2 DEF Booked, AnsweredOnce, Answered, WasApplied, FreeText
<1>7. Keyed'
  BY <1>1, <1>2 DEF Booked, Keyed
<1>8. FewDrafts' /\ \A u \in Tasks : Starting(u)' \subseteq Starting(u)
  <2>1. \A u : Promised(u)' \subseteq Promised(u) /\ Starting(u)' \subseteq Starting(u)
    BY <1>1 DEF Promised, Starting
  <2>2. QED
    BY <2>1, FS_Subset DEF Booked, FewDrafts
<1>9. StageWork' /\ WorkersRan' /\ GivenUp'
  BY <1>1, <1>8 DEF Booked, StageWork, AtRest, WorkersRan, GivenUp
<1>10. QED
  BY <1>1, <1>5, <1>6, <1>7, <1>8, <1>9 DEF Booked

LEMMA BookedMark ==
  ASSUME TypeOK, Booked, NEW r \in work.mark, MarkApplied(r) PROVE Booked'
<1>1. /\ work'.to = work.to /\ work'.flag = work.flag /\ work'.mark = work.mark \ {r}
      /\ work'.flip = work.flip /\ work'.enq = work.enq
      /\ UNCHANGED <<status, regs, intents, pc, snap, pend>> /\ results' = results \ {r}
      /\ applied' = {q \in applied : q.of # r.of} \cup {r}
  BY DEF MarkApplied, TypeOK, Work
<1>2. r \in results /\ r \notin pend
  BY DEF Booked, AnsweredOnce
<1>3. \A i : WasApplied(i)' <=> WasApplied(i) \/ i = r.of
  BY <1>1 DEF WasApplied
<1>4. AnsweredOnce'
  <2>1. Answered' \subseteq Answered
    BY <1>1, <1>2 DEF Answered
  <2>2. \A q \in results' : q.of # r.of
    BY <1>1, <1>2 DEF Booked, AnsweredOnce
  <2>3. QED
    BY <2>1, <2>2, <1>1, <1>2, <1>3 DEF Booked, AnsweredOnce
<1>5. \A u : Promised(u)' = Promised(u) /\ Starting(u)' = Starting(u)
  BY <1>1 DEF Promised, Starting
<1>6. Numbered' /\ FreeText' /\ Keyed' /\ FewDrafts' /\ WorkersRan' /\ GivenUp'
  BY <1>1, <1>5
     DEF Booked, Numbered, FreeText, Keyed, FewDrafts, WorkersRan, GivenUp
<1>7. StageWork'
  BY <1>1 DEF Booked, StageWork, AtRest
<1>8. QED
  BY <1>1, <1>4, <1>6, <1>7 DEF Booked

(* What a stage sets up, and what is left when a cycle ends.               *)
LEMMA BookedPlan ==
  ASSUME TypeOK, Booked, UNCHANGED files,
         pend' \cup work'.mark \subseteq results, pend' \cap work'.mark = {},
         \A d \in work'.enq : d.kind = "advisor" => d.paths \subseteq d.key,
         work'.flip \cap work'.flag = {},
         StageWork', WorkersRan', GivenUp', FewDrafts'
  PROVE  Booked'
<1>1. Numbered' /\ FreeText' /\ Keyed'
  BY DEF Booked, Numbered, FreeText, Keyed, files
<1>2. AnsweredOnce'
  BY DEF Booked, AnsweredOnce, Answered, WasApplied, files
<1>3. QED
  BY <1>1, <1>2 DEF Booked

LEMMA BookedRest ==
  ASSUME TypeOK, Booked, UNCHANGED files, AtRest', work'.to # "BLOCKED",
         pend' \subseteq results, WorkersRan',
         pc' = "pairs" => \A r \in pend' : r.of.kind = "advisor"
  PROVE  Booked'
<1>1. /\ work'.flip = {} /\ work'.flag = {} /\ work'.enq = {} /\ work'.mark = {}
  BY DEF AtRest
<1>2. \A u : Promised(u)' = {} /\ Starting(u)' = {}
  BY <1>1 DEF Promised, Starting
<1>3. FewDrafts' /\ StageWork'
  BY <1>1, <1>2, FS_EmptySet DEF FewDrafts, StageWork, AtRest
<1>4. GivenUp'
  BY <1>1, <1>2 DEF Booked, GivenUp, files
<1>5. QED
  BY <1>1, <1>3, <1>4, BookedPlan

LEMMA BookedExit == ASSUME TypeOK, Booked, Exit, UNCHANGED files PROVE Booked'
<1>1. /\ AtRest' /\ work'.to # "BLOCKED" /\ pend' = {} /\ pc' = "idle"
  BY DEF Exit, NoWork, AtRest
<1>2. QED
  BY <1>1, BookedRest DEF WorkersRan

LEMMA BookedHeal == ASSUME TypeOK, Booked, HealStale PROVE Booked'
<1>1. PICK stale \in SUBSET {t \in Tasks : MayBeStale(t)} :
        work' = Flips("PENDING", stale)
  BY DEF HealStale
<1>2. /\ work'.to = "PENDING" /\ work'.flip = stale /\ work'.flag = {}
      /\ work'.enq = {} /\ work'.mark = {}
  BY <1>1 DEF Flips, NoWork
<1>3. pc = "idle" /\ pc' = "heal" /\ UNCHANGED <<files, snap, pend>>
  BY DEF HealStale
<1>4. \A u : Promised(u)' = {} /\ Starting(u)' = {}
  BY <1>2 DEF Promised, Starting
<1>5. FewDrafts' /\ StageWork' /\ WorkersRan'
  BY <1>2, <1>3, <1>4, FS_EmptySet DEF FewDrafts, StageWork, AtRest, WorkersRan
<1>6. GivenUp'
  BY <1>1, <1>2, <1>3, <1>4 DEF MayBeStale, Booked, GivenUp, files
<1>7. QED
  BY <1>2, <1>3, <1>5, <1>6, BookedPlan DEF Booked, AnsweredOnce

(* A stage that only reads.                                                *)
LEMMA BookedRead ==
  ASSUME TypeOK, Booked, StatesCompared \/ ReadState \/ WorkersApplied \/ PairsApplied \/ AllDone
  PROVE  Booked'
<1>1. UNCHANGED files /\ work' = NoWork
  BY DEF StatesCompared, ReadState, WorkersApplied, PairsApplied, AllDone
<1>2. AtRest' /\ work'.to # "BLOCKED"
  BY <1>1 DEF AtRest, NoWork
<1>3. pend' \subseteq results
  BY DEF StatesCompared, ReadState, WorkersApplied, PairsApplied, AllDone, Booked, AnsweredOnce
<1>4. pc' = "pairs" => \A r \in pend' : r.of.kind = "advisor"
  BY DEF StatesCompared, ReadState, WorkersApplied, PairsApplied, AllDone
<1>5. WorkersRan'
  <2>1. CASE ReadState
    BY <2>1, <1>1 DEF ReadState, Read, WorkersRan, NoWork, files
  <2>2. CASE StatesCompared \/ WorkersApplied \/ PairsApplied \/ AllDone
    BY <2>2 DEF StatesCompared, WorkersApplied, PairsApplied, AllDone, WorkersRan
  <2>3. QED
    BY <2>1, <2>2
<1>6. QED
  BY <1>1, <1>2, <1>3, <1>4, <1>5, BookedRest

LEMMA BookedWorker ==
  ASSUME TypeOK, Booked, NEW r \in pend, ApplyWorkerResult(r) PROVE Booked'
<1>1. /\ pc = "workers" /\ AtRest /\ r.of.kind = "worker" /\ pend' = pend \ {r}
      /\ UNCHANGED <<files, pc, snap>>
  BY DEF ApplyWorkerResult
<1>2. r \in results /\ pend' \subseteq results
  BY <1>1 DEF Booked, AnsweredOnce
<1>3. CASE UNCHANGED work
  <2>1. AtRest' /\ work'.to # "BLOCKED" /\ WorkersRan'
    BY <1>1, <1>3 DEF AtRest, Booked, GivenUp, WorkersRan, files
  <2>2. QED
    BY <2>1, <1>1, <1>2, BookedRest DEF files
<1>4. CASE ~ UNCHANGED work
  <2>1. PICK t \in r.of.paths :
          /\ AppliesTo(t)
          /\ work' = [Flips(IF r.ans.verdict = "ok" THEN "REVIEW" ELSE "FAILED", {t})
                        EXCEPT !.mark = {r}]
    BY <1>4 DEF ApplyWorkerResult
  <2>2. /\ work'.to \in {"REVIEW", "FAILED"} /\ work'.flip = {t} /\ work'.flag = {}
        /\ work'.enq = {} /\ work'.mark = {r}
    BY <2>1 DEF Flips, NoWork
  <2>3. t \in Tasks /\ status[t] \in {"IN_PROGRESS", "REVIEW", "FAILED"}
    BY <2>1, <1>1 DEF AppliesTo, Booked, WorkersRan, TypeOK
  <2>4. \A u : Promised(u)' = {} /\ Starting(u)' = {}
    BY <2>2 DEF Promised, Starting
  <2>5. FewDrafts' /\ StageWork' /\ WorkersRan'
    BY <2>2, <2>4, <1>1, FS_EmptySet
       DEF FewDrafts, StageWork, AtRest, Booked, WorkersRan, files
  <2>6. GivenUp'
    BY <2>2, <2>3, <2>4, <1>1 DEF Booked, GivenUp, files
  <2>7. QED
    BY <2>2, <2>5, <2>6, <1>1, <1>2, BookedPlan
<1>5. QED
  BY <1>3, <1>4

(* What two answers make a cycle write, whichever gates they are of.       *)
LEMMA PairWrites ==
  ASSUME TypeOK, Booked, NEW r \in pend, NEW q \in pend,
         ApplyPairError(r, q) \/ ApplyPairApprove(r, q) \/ ApplyPairRevise(r, q)
  PROVE  /\ work'.enq = {} /\ work'.mark = {r, q}
         /\ work'.to \in {"REVIEW", "DONE"}
         /\ work'.flip \cup work'.flag \subseteq Batch(r, q)
         /\ work'.flip \cap work'.flag = {}
<1>1. CASE ApplyPairError(r, q)
  BY <1>1 DEF ApplyPairError, Flips, NoWork
<1>2. CASE ApplyPairApprove(r, q)
  BY <1>2 DEF ApplyPairApprove, Flips, NoWork
<1>3. CASE ApplyPairRevise(r, q)
  <2>1. r \in results /\ q \in results
    BY DEF Booked, AnsweredOnce
  <2>2. FlaggedCombined(r, q) = FlaggedEach(r, q)
    BY <2>1 DEF Booked, FreeText, FlaggedCombined, FlaggedEach
  <2>3. /\ work'.enq = {} /\ work'.to = "REVIEW" /\ work'.mark = {r, q}
        /\ work'.flip = Restored(r, q)
        /\ work'.flag = OrAll(FlaggedEach(r, q), Batch(r, q))
    BY <1>3, <2>2 DEF ApplyPairRevise, Flips, NoWork
  <2>4. QED
    BY <2>3 DEF Restored, OrAll, FlaggedEach
<1>4. QED
  BY <1>1, <1>2, <1>3

LEMMA BookedPair ==
  ASSUME TypeOK, Booked, NEW r \in pend, NEW q \in pend,
         \/ ApplyPairUnknown(r, q) \/ ApplyPairError(r, q)
         \/ ApplyPairApprove(r, q) \/ ApplyPairRevise(r, q)
  PROVE  Booked'
<1>1. Pair(r, q)
  BY DEF ApplyPairUnknown, ApplyPairError, ApplyPairApprove, ApplyPairRevise
<1>2. /\ pc = "pairs" /\ AtRest /\ pend' = pend \ Group(r)
      /\ UNCHANGED <<files, pc, snap>> /\ r.of.key = q.of.key
  BY <1>1 DEF Pair, Selected
<1>3. /\ {r, q} \subseteq Group(r) /\ {r, q} \subseteq results /\ pend' \subseteq results
      /\ \A x \in pend' : x.of.kind = "advisor"
  BY <1>2 DEF Group, Booked, AnsweredOnce, StageWork
<1>4. CASE ApplyPairUnknown(r, q)
  <2>1. AtRest' /\ work'.to # "BLOCKED"
    BY <1>2, <1>4 DEF ApplyPairUnknown, AtRest, Booked, GivenUp
  <2>2. WorkersRan'
    BY <1>2 DEF WorkersRan
  <2>3. QED
    BY <2>1, <2>2, <1>2, <1>3, BookedRest DEF files
<1>5. CASE ~ ApplyPairUnknown(r, q)
  <2>1. /\ work'.enq = {} /\ work'.mark = {r, q} /\ work'.to \in {"REVIEW", "DONE"}
        /\ work'.flip \cap work'.flag = {}
    BY <1>5, PairWrites
  <2>2. \A u : Promised(u)' = {} /\ Starting(u)' = {}
    BY <2>1 DEF Promised, Starting
  <2>3. FewDrafts' /\ StageWork' /\ WorkersRan'
    BY <2>1, <2>2, <1>2, <1>3, FS_EmptySet DEF FewDrafts, StageWork, AtRest, WorkersRan
  <2>4. GivenUp'
    BY <2>1, <2>2, <1>2 DEF Booked, GivenUp, files
  <2>5. pend' \cup work'.mark \subseteq results /\ pend' \cap work'.mark = {}
    BY <2>1, <1>2, <1>3
  <2>6. QED
    BY <2>1, <2>3, <2>4, <2>5, <1>2, BookedPlan
<1>6. QED
  BY <1>4, <1>5

(* The drafts of a dispatch: one for each task that is started, or two for *)
(* each task of the gate.                                                  *)
LEMMA WaveWrites ==
  ASSUME TypeOK, DInv, DispatchWave, NEW T, T = Decision.tasks
  PROVE  /\ pc = "decide" /\ AtRest /\ pc' = "act" /\ UNCHANGED <<files, snap, pend>>
         /\ work'.to = "IN_PROGRESS" /\ work'.flip = T /\ work'.flag = {} /\ work'.mark = {}
         /\ T \subseteq Tasks /\ \A t \in T : status[t] = "PENDING"
         /\ \A d \in work'.enq : d.kind = "worker"
         /\ \A t : Promised(t)' = {}
         /\ \A t : Starting(t)' = IF t \in T THEN {WorkerDraft(t)} ELSE {}
<1>1. /\ pc = "decide" /\ AtRest /\ pc' = "act" /\ UNCHANGED <<files, snap, pend>>
      /\ work'.to = "IN_PROGRESS" /\ work'.flip = T /\ work'.flag = {} /\ work'.mark = {}
      /\ work'.enq = {WorkerDraft(t) : t \in T}
  BY DEF DispatchWave, StartWrites, Flips, NoWork
<1>2. T \subseteq Tasks /\ \A t \in T : status[t] = "PENDING"
  BY DecidedTasks, ReadyIsStartable
     DEF TypeOK, DispatchWave, DInv, DecidesInSync, Startable
<1>3. \A d \in work'.enq : d.kind = "worker" /\ \E t \in T : d = WorkerDraft(t) /\ d.paths = {t}
  BY <1>1 DEF WorkerDraft
<1>4. \A t \in T : /\ WorkerDraft(t) \in work'.enq
                   /\ WorkerDraft(t).kind = "worker" /\ t \in WorkerDraft(t).paths
  BY <1>1 DEF WorkerDraft
<1>5. \A t : Promised(t)' = {}
  BY <1>3 DEF Promised
<1>6. ASSUME NEW t PROVE Starting(t)' = IF t \in T THEN {WorkerDraft(t)} ELSE {}
  BY <1>3, <1>4 DEF Starting
<1>7. QED
  BY <1>1, <1>2, <1>3, <1>5, <1>6

LEMMA GateWrites ==
  ASSUME TypeOK, DInv, DispatchAdvisor, NEW T, T = Decision.tasks
  PROVE  /\ pc = "decide" /\ AtRest /\ pc' = "act" /\ UNCHANGED <<files, snap, pend>>
         /\ work'.to = "EXECUTING" /\ work'.flip = T /\ work'.flag = {} /\ work'.mark = {}
         /\ T \subseteq Tasks /\ \A t \in T : status[t] = "REVIEW"
         /\ \A d \in work'.enq : d.kind = "advisor" /\ d.paths \subseteq d.key
         /\ \A t : Starting(t)' = {}
         /\ \A t : /\ IsFiniteSet(Promised(t)') /\ Cardinality(Promised(t)') \in 0 .. 2
                   /\ t \notin T => Promised(t)' = {}
<1>1. /\ pc = "decide" /\ AtRest /\ pc' = "act" /\ UNCHANGED <<files, snap, pend>>
      /\ work'.to = "EXECUTING" /\ work'.flip = T /\ work'.flag = {} /\ work'.mark = {}
      /\ work'.enq = ScannerPair(T)
  BY DEF DispatchAdvisor, StartWrites, Flips, NoWork
<1>2. T = EarliestReview(snap)
  BY DEF DispatchAdvisor, Decision, Decide, Action
<1>3. T \subseteq Tasks /\ \A t \in T : status[t] = "REVIEW"
  BY <1>1, <1>2, DecidedTasks
     DEF TypeOK, DInv, DecidesInSync, Agrees, EarliestReview, With
<1> DEFINE D(k) == [kind |-> "advisor", paths |-> Shard(T, k), key |-> T, idx |-> k]
<1>4. ScannerPair(T) = {D(0), D(1)}
  BY DEF ScannerPair
<1>5. \A k : D(k).kind = "advisor" /\ D(k).key = T /\ D(k).paths = Shard(T, k)
  OBVIOUS
<1>6. \A k : Shard(T, k) \subseteq T
  BY DEF Shard
<1> HIDE DEF D
<1>7. \A d \in work'.enq : d.kind = "advisor" /\ d.paths \subseteq d.key /\ d.key = T
  BY <1>1, <1>4, <1>5, <1>6
<1>8. \A t : Starting(t)' = {}
  BY <1>7 DEF Starting
<1>9. /\ IsFiniteSet(work'.enq) /\ Cardinality(work'.enq) \in Nat /\ Cardinality(work'.enq) <= 2
  <2>1. IsFiniteSet({D(0)}) /\ Cardinality({D(0)}) = 1
    BY FS_Singleton
  <2>2. {D(0), D(1)} = {D(0)} \cup {D(1)}
    OBVIOUS
  <2>3. QED
    BY <2>1, <2>2, <1>1, <1>4, FS_AddElement
<1>10. ASSUME NEW t
       PROVE  /\ IsFiniteSet(Promised(t)') /\ Cardinality(Promised(t)') \in 0 .. 2
              /\ t \notin T => Promised(t)' = {}
  <2>1. Promised(t)' \in SUBSET work'.enq /\ (t \notin T => Promised(t)' = {})
    BY <1>7 DEF Promised
  <2>2. IsFiniteSet(Promised(t)') /\ Cardinality(Promised(t)') <= Cardinality(work'.enq)
    BY <2>1, <1>9, FS_Subset
  <2>3. Cardinality(Promised(t)') \in Nat
    BY <2>2, FS_CardinalityType
  <2>4. QED
    BY <2>1, <2>2, <2>3, <1>9
<1>11. QED
  BY <1>1, <1>3, <1>7, <1>8, <1>10

LEMMA BookedWave == ASSUME TypeOK, DInv, Booked, DispatchWave PROVE Booked'
<1> DEFINE T == Decision.tasks
<1>1. /\ pc' = "act" /\ UNCHANGED <<files, snap, pend>>
      /\ work'.to = "IN_PROGRESS" /\ work'.flip = T /\ work'.flag = {} /\ work'.mark = {}
      /\ T \subseteq Tasks /\ \A t \in T : status[t] = "PENDING"
      /\ \A d \in work'.enq : d.kind = "worker"
      /\ \A t : Promised(t)' = {}
      /\ \A t : Starting(t)' = IF t \in T THEN {WorkerDraft(t)} ELSE {}
  BY WaveWrites
<1> HIDE DEF T
<1>2. FewDrafts' /\ StageWork' /\ WorkersRan'
  BY <1>1, FS_EmptySet, FS_Singleton DEF FewDrafts, StageWork, WorkersRan
<1>3. GivenUp'
  BY <1>1 DEF Booked, GivenUp, files
<1>4. pend' \subseteq results
  BY <1>1 DEF Booked, AnsweredOnce
<1>5. QED
  BY <1>1, <1>2, <1>3, <1>4, BookedPlan

LEMMA BookedGate == ASSUME TypeOK, DInv, Booked, DispatchAdvisor PROVE Booked'
<1> DEFINE T == Decision.tasks
<1>1. /\ pc' = "act" /\ UNCHANGED <<files, snap, pend>>
      /\ work'.to = "EXECUTING" /\ work'.flip = T /\ work'.flag = {} /\ work'.mark = {}
      /\ T \subseteq Tasks /\ \A t \in T : status[t] = "REVIEW"
      /\ \A d \in work'.enq : d.kind = "advisor" /\ d.paths \subseteq d.key
      /\ \A t : Starting(t)' = {}
      /\ \A t : IsFiniteSet(Promised(t)')
  BY GateWrites
<1> HIDE DEF T
<1>2. FewDrafts' /\ StageWork' /\ WorkersRan'
  BY <1>1, FS_EmptySet DEF FewDrafts, StageWork, WorkersRan
<1>3. GivenUp'
  BY <1>1 DEF Booked, GivenUp, files
<1>4. pend' \subseteq results
  BY <1>1 DEF Booked, AnsweredOnce
<1>5. QED
  BY <1>1, <1>2, <1>3, <1>4, BookedPlan

LEMMA BookedAnswer ==
  ASSUME ReAnswer = FALSE, ExplicitLines \subseteq {FALSE}, TypeOK, Booked,
         NEW i \in intents, SessionAnswers(i)
  PROVE  Booked'
<1>1. PICK a \in AnswersTo(i) : results' = results \cup {[of |-> i, ans |-> a]}
  BY DEF SessionAnswers
<1>2. ~ a.explicit
  <2>1. CASE a \in {Plain("ok"), Plain("error")}
    BY <2>1 DEF Plain
  <2>2. CASE a \in [verdict : {"revise"}, flagged : SUBSET i.key, explicit : ExplicitLines]
    <3>1. a.explicit \in ExplicitLines
      BY <2>2
    <3>2. QED
      BY <3>1
  <2>3. QED
    BY <2>1, <2>2 DEF AnswersTo
<1>3. Listed(i) /\ ~ WasApplied(i) /\ UNCHANGED <<status, regs, intents, applied, locals>>
  BY DEF SessionAnswers
<1>4. \A j : WasApplied(j)' <=> WasApplied(j)
  BY <1>3 DEF WasApplied
<1>5. AnsweredOnce' /\ FreeText'
  BY <1>1, <1>2, <1>3, <1>4 DEF Booked, AnsweredOnce, Answered, FreeText, Listed, locals
<1>6. \A u : Promised(u)' = Promised(u) /\ Starting(u)' = Starting(u)
  BY <1>3 DEF Promised, Starting, locals
<1>7. Numbered' /\ StageWork' /\ Keyed' /\ FewDrafts' /\ WorkersRan' /\ GivenUp'
  BY <1>3, <1>6 DEF Booked, Numbered, StageWork, AtRest, Keyed, FewDrafts, WorkersRan,
                    GivenUp, locals
<1>8. QED
  BY <1>3, <1>5, <1>7 DEF Booked, locals

LEMMA BookedElse == ASSUME Booked, UNCHANGED <<files, locals>> PROVE Booked'
<1>1. \A u : Promised(u)' = Promised(u) /\ Starting(u)' = Starting(u)
  BY DEF Promised, Starting, locals
<1>2. QED
  BY <1>1 DEF Booked, Numbered, AnsweredOnce, Answered, WasApplied, FreeText, StageWork, AtRest,
              Keyed, FewDrafts, WorkersRan, GivenUp, files, locals

LEMMA BookedStep ==
  ASSUME ReAnswer = FALSE, ExplicitLines \subseteq {FALSE}, TypeOK, DInv, Booked, [Next]_vars
  PROVE  Booked'
<1>1. CASE Write
  BY <1>1, BookedFlip, BookedFlag, BookedIntent, BookedMark DEF Write
<1>2. CASE HealStale
  BY <1>2, BookedHeal
<1>3. CASE StartupFails \/ SkipHeld \/ NothingToDo \/ ActionTaken \/ CloseSession \/ Crash
  BY <1>3, BookedExit DEF StartupFails, SkipHeld, NothingToDo, ActionTaken, CloseSession, Crash
<1>4. CASE StatesCompared \/ ReadState \/ WorkersApplied \/ PairsApplied \/ AllDone
  BY <1>4, BookedRead
<1>5. CASE \E r \in pend : ApplyWorkerResult(r)
  BY <1>5, BookedWorker
<1>6. CASE ApplyPair
  BY <1>6, BookedPair DEF ApplyPair
<1>7. CASE DispatchWave \/ DispatchAdvisor
  BY <1>7, BookedWave, BookedGate
<1>8. CASE Session
  BY <1>8, BookedAnswer DEF Session
<1>9. CASE UserHolds \/ (\E t \in Tasks : TaskFileEdited(t)) \/ UNCHANGED vars
  BY <1>9, BookedElse DEF UserHolds, TaskFileEdited, vars
<1>10. QED
  BY <1>1, <1>2, <1>3, <1>4, <1>5, <1>6, <1>7, <1>8, <1>9 DEF Next, Cycle, Closed

-----------------------------------------------------------------------------
(* What it all costs.                                                     *)

(* What is added up are numbers.                                           *)
LEMMA CostNumbers ==
  ASSUME TypeOK, Booked, NEW t \in Tasks
  PROVE  /\ IsFiniteSet(UnderWay(t)) /\ Cardinality(UnderWay(t)) \in Nat
         /\ IsFiniteSet(UnderWay(t) \ InHand) /\ Cardinality(UnderWay(t) \ InHand) \in Nat
         /\ IsFiniteSet(Promised(t)) /\ Cardinality(Promised(t)) \in Nat
         /\ IsFiniteSet(Starting(t)) /\ Cardinality(Starting(t)) \in Nat
         /\ IsFiniteSet(Workers(t)) /\ Cardinality(Workers(t)) \in Nat
         /\ regs[t] \in Nat /\ RoundsOf(t) \in Nat /\ crashes \in Nat
         /\ MaxReviseRounds \in Nat
<1>1. UnderWay(t) \subseteq intents /\ IsFiniteSet(intents)
  BY DEF UnderWay, Live, Booked, Numbered
<1>2. IsFiniteSet(UnderWay(t)) /\ Cardinality(UnderWay(t)) \in Nat
  BY <1>1, FS_Subset, FS_CardinalityType
<1>3. IsFiniteSet(UnderWay(t) \ InHand) /\ Cardinality(UnderWay(t) \ InHand) \in Nat
  BY <1>2, FS_Subset, FS_CardinalityType
<1>4. /\ IsFiniteSet(Promised(t)) /\ Cardinality(Promised(t)) \in Nat
      /\ IsFiniteSet(Starting(t)) /\ Cardinality(Starting(t)) \in Nat
  BY FS_CardinalityType DEF Booked, FewDrafts
<1>5. IsFiniteSet(Workers(t)) /\ Cardinality(Workers(t)) \in Nat
  BY WorkersType DEF Booked
<1>6. /\ regs[t] \in Nat /\ RoundsOf(t) \in Nat /\ crashes \in Nat
      /\ MaxReviseRounds \in Nat
  BY BoundAssumption DEF TypeOK, BoundAssumption, RoundsOf
<1>7. QED
  BY <1>2, <1>3, <1>4, <1>5, <1>6

LEMMA WeightType == \A s : Weight(s) \in {0, 2}
BY DEF Weight

(* Between two stages nothing is on its way.                               *)
LEMMA CostAtRest ==
  ASSUME TypeOK, Booked, AtRest, NEW t \in Tasks
  PROVE  Promised(t) = {} /\ Starting(t) = {} /\ Cost(t) = CostOnDisk(t) /\ Ahead(t) = 0
<1>1. /\ Promised(t) = {} /\ Starting(t) = {} /\ InHand = {}
      /\ StageOf(t) = status[t] /\ RoundsOf(t) = regs[t]
  BY DEF AtRest, Promised, Starting, InHand, StageOf, RoundsOf
<1>2. /\ Cardinality({}) = 0 /\ UnderWay(t) \ InHand = UnderWay(t)
      /\ t \notin work.flag /\ t \notin work.flip
  BY <1>1, FS_EmptySet DEF AtRest
<1>3. Cardinality(UnderWay(t)) \in Nat /\ regs[t] \in Nat /\ Weight(status[t]) \in {0, 2}
  BY CostNumbers, WeightType
<1>4. Cost(t) = CostOnDisk(t)
  BY <1>1, <1>2, <1>3, SMT DEF Cost, CostOnDisk
<1>5. Ahead(t) = 0
  BY <1>1, <1>2, SMT DEF Ahead
<1>6. QED
  BY <1>1, <1>4, <1>5

LEMMA CostInit == Init => Costs
<1> SUFFICES ASSUME Init, NEW t \in Tasks PROVE PaidFor(t) /\ Insured(t)
  BY DEF Costs
<1>1. TypeOK /\ Booked /\ AtRest
  BY TypeInit, BookedInit DEF Init, AtRest, NoWork
<1>2. /\ regs[t] = 0 /\ status[t] = "PENDING" /\ crashes = 0
      /\ UnderWay(t) = {} /\ Workers(t) = {}
  BY DEF Init, UnderWay, Live, Workers
<1>3. Cardinality({}) = 0 /\ Weight("PENDING") = 0
  BY FS_EmptySet DEF Weight
<1>4. CostOnDisk(t) = 0 /\ Paid(t) = 0
  BY <1>2, <1>3, SMT DEF CostOnDisk, Paid
<1>5. Cost(t) = 0 /\ Ahead(t) = 0 /\ Starting(t) = {}
  BY <1>1, <1>4, CostAtRest
<1>6. QED
  BY <1>3, <1>4, <1>5, SMT DEF PaidFor, Insured

LEMMA CostFlip ==
  ASSUME TypeOK, Booked, Costs, NEW t \in Tasks, WriteFlip(t) PROVE Costs'
<1>1. /\ work'.to = work.to /\ work'.flag = work.flag /\ work'.mark = work.mark
      /\ work'.enq = work.enq /\ work'.flip = work.flip \ {t} /\ t \in work.flip
      /\ t \notin work.flag
  BY DEF WriteFlip, TypeOK, Work, Booked
<1>2. /\ status'[t] = work.to /\ \A u \in Tasks : u # t => status'[u] = status[u]
      /\ UNCHANGED <<regs, intents, applied, crashes>>
  BY DEF WriteFlip, TypeOK, world
<1> SUFFICES ASSUME NEW u \in Tasks PROVE PaidFor(u)' /\ Insured(u)'
  BY DEF Costs
<1>3. /\ Promised(u)' = Promised(u) /\ Starting(u)' = Starting(u)
      /\ UnderWay(u)' = UnderWay(u) /\ InHand' = InHand /\ Workers(u)' = Workers(u)
  BY <1>1, <1>2 DEF Promised, Starting, UnderWay, Live, WasApplied, InHand, Workers
<1>4. StageOf(u)' = StageOf(u) /\ RoundsOf(u)' = RoundsOf(u)
  BY <1>1, <1>2 DEF StageOf, RoundsOf, OverLimit
<1>5. PaidFor(u) /\ Insured(u)
  BY DEF Costs
<1>6. PaidFor(u)'
  BY <1>2, <1>3, <1>4, <1>5 DEF PaidFor, Cost, Paid
<1>7. /\ Cardinality(UnderWay(u)) \in Nat /\ Cardinality(Promised(u)) \in Nat
      /\ Cardinality(Workers(u)) \in Nat /\ regs[u] \in Nat /\ crashes \in Nat
  BY CostNumbers
<1>8. Insured(u)'
  <2>1. CASE u # t
    <3>1. status'[u] = status[u] /\ (u \in work'.flip <=> u \in work.flip)
      BY <2>1, <1>1, <1>2
    <3>2. Ahead(u)' = Ahead(u) /\ CostOnDisk(u)' = CostOnDisk(u) /\ Paid(u)' = Paid(u)
      BY <3>1, <1>1, <1>2, <1>3 DEF Ahead, CostOnDisk, Paid
    <3>3. QED
      BY <3>2, <1>5 DEF Insured
  <2>2. CASE u = t
    <3>1. Ahead(u) = Weight(work.to) + Cardinality(Promised(u))
      BY <2>2, <1>1 DEF Ahead, Weight
    <3>2. /\ Ahead(u)' = 0 + Cardinality(Promised(u))
          /\ CostOnDisk(u)' = 2 * regs[u] + Cardinality(UnderWay(u)) + Weight(work.to)
          /\ Paid(u)' = Paid(u)
      BY <2>2, <1>1, <1>2, <1>3 DEF Ahead, CostOnDisk, Paid
    <3>3. Weight(work.to) \in {0, 2} /\ Weight(status[u]) \in {0, 2}
      BY WeightType
    <3>4. Paid(u) = 2 * Cardinality(Workers(u)) + 2 * crashes
      BY DEF Paid
    <3>5. 2 * regs[u] + Cardinality(UnderWay(u)) + Weight(status[u])
            + (Weight(work.to) + Cardinality(Promised(u))) <= Paid(u) + 2
      BY <3>1, <1>5 DEF Insured, CostOnDisk
    <3>6. 2 * regs[u] + Cardinality(UnderWay(u)) + Weight(work.to)
            + (0 + Cardinality(Promised(u))) <= Paid(u) + 2
      BY <3>3, <3>4, <3>5, <1>7, SMT
    <3>7. QED
      BY <3>2, <3>6 DEF Insured
  <2>3. QED
    BY <2>1, <2>2
<1>9. QED
  BY <1>6, <1>8

LEMMA CostFlag ==
  ASSUME TypeOK, Booked, Costs, NEW t \in Tasks, WriteFlag(t) PROVE Costs'
<1>1. /\ work.flip = {} /\ t \in work.flag
      /\ work'.flag = work.flag \ {t} /\ work'.mark = work.mark /\ work'.enq = work.enq
      /\ \/ /\ OverLimit(t) /\ work'.flip = {}
            /\ status'[t] = "BLOCKED" /\ regs' = regs
         \/ /\ ~ OverLimit(t) /\ work'.flip = {t} /\ work'.to = "PENDING"
            /\ status' = status /\ regs'[t] = regs[t] + 1
  BY DEF WriteFlag, TypeOK, Work
<1>2. /\ \A u \in Tasks : u # t => status'[u] = status[u] /\ regs'[u] = regs[u]
      /\ UNCHANGED <<intents, applied, crashes>>
  BY DEF WriteFlag, TypeOK, world
<1> SUFFICES ASSUME NEW u \in Tasks PROVE PaidFor(u)' /\ Insured(u)'
  BY DEF Costs
<1>3. /\ Promised(u)' = Promised(u) /\ Starting(u)' = Starting(u)
      /\ UnderWay(u)' = UnderWay(u) /\ InHand' = InHand /\ Workers(u)' = Workers(u)
  BY <1>1, <1>2 DEF Promised, Starting, UnderWay, Live, WasApplied, InHand, Workers
<1>4. StageOf(u)' = StageOf(u) /\ RoundsOf(u)' = RoundsOf(u)
  <2>1. CASE u = t
    BY <2>1, <1>1 DEF StageOf, RoundsOf
  <2>2. CASE u # t
    <3>1. /\ u \in work'.flag <=> u \in work.flag
          /\ u \notin work.flip /\ u \notin work'.flip
          /\ status'[u] = status[u] /\ regs'[u] = regs[u]
      BY <2>2, <1>1, <1>2
    <3>2. OverLimit(u)' <=> OverLimit(u)
      BY <3>1 DEF OverLimit
    <3>3. QED
      BY <3>1, <3>2 DEF StageOf, RoundsOf
  <2>3. QED
    BY <2>1, <2>2
<1>5. PaidFor(u) /\ Insured(u)
  BY DEF Costs
<1>6. PaidFor(u)'
  BY <1>2, <1>3, <1>4, <1>5 DEF PaidFor, Cost, Paid
<1>7. /\ Cardinality(UnderWay(u)) \in Nat /\ Cardinality(Promised(u)) \in Nat
      /\ Cardinality(Workers(u)) \in Nat /\ regs[u] \in Nat /\ crashes \in Nat
  BY CostNumbers
<1>8. Paid(u)' = Paid(u) /\ Paid(u) = 2 * Cardinality(Workers(u)) + 2 * crashes
  BY <1>2, <1>3 DEF Paid
<1>9. Insured(u)'
  <2>1. CASE u # t
    <3>1. /\ status'[u] = status[u] /\ regs'[u] = regs[u]
          /\ u \notin work.flip /\ u \notin work'.flip
          /\ u \in work'.flag <=> u \in work.flag
      BY <2>1, <1>1, <1>2
    <3>2. Ahead(u)' = Ahead(u) /\ CostOnDisk(u)' = CostOnDisk(u)
      BY <3>1, <1>3 DEF Ahead, CostOnDisk
    <3>3. QED
      BY <3>2, <1>5, <1>8 DEF Insured
  <2>2. CASE u = t
    <3>1. Ahead(u) = 2 + Cardinality(Promised(u))
      BY <2>2, <1>1 DEF Ahead
    <3>2. Ahead(u)' = 0 + Cardinality(Promised(u))
      BY <2>2, <1>1, <1>3 DEF Ahead
    <3>3. 2 * regs'[u] + Weight(status'[u]) <= 2 * regs[u] + Weight(status[u]) + 2
          /\ regs'[u] \in Nat
      BY <2>2, <1>1, <1>7, WeightType
    <3>4. CostOnDisk(u)' = 2 * regs'[u] + Cardinality(UnderWay(u)) + Weight(status'[u])
      BY <1>3 DEF CostOnDisk
    <3>5. 2 * regs[u] + Cardinality(UnderWay(u)) + Weight(status[u])
            + (2 + Cardinality(Promised(u))) <= Paid(u) + 2
      BY <3>1, <1>5 DEF Insured, CostOnDisk
    <3>6. Weight(status[u]) \in {0, 2} /\ Weight(status'[u]) \in {0, 2}
      BY WeightType
    <3>7. 2 * regs'[u] + Cardinality(UnderWay(u)) + Weight(status'[u])
            + (0 + Cardinality(Promised(u))) <= Paid(u) + 2
      BY <3>3, <3>5, <3>6, <1>7, <1>8, SMT
    <3>8. QED
      BY <3>2, <3>4, <3>7, <1>8 DEF Insured
  <2>3. QED
    BY <2>1, <2>2
<1>10. QED
  BY <1>6, <1>9

(* A scanner intent goes from promised to under way; a worker's pays.      *)
LEMMA CostIntent ==
  ASSUME TypeOK, Booked, Costs, NEW d \in work.enq, WriteIntent(d) PROVE Costs'
<1>1. /\ work'.to = work.to /\ work'.flag = work.flag /\ work'.mark = work.mark
      /\ work'.flip = work.flip /\ work'.enq = work.enq \ {d}
      /\ UNCHANGED <<status, regs, results, applied, crashes>>
      /\ d.kind \in {"worker", "advisor"}
  BY DEF WriteIntent, TypeOK, Work, world, Draft
<1>2. PICK i : /\ i.id = Cardinality(intents) + 1
               /\ i.kind = d.kind /\ i.paths = d.paths /\ i.key = d.key
               /\ intents' = intents \cup {i}
  BY DEF WriteIntent
<1>3. i \notin intents
  <2>1. Cardinality(intents) \in Nat /\ \A j \in intents : j.id <= Cardinality(intents)
    BY FS_CardinalityType DEF Booked, Numbered
  <2>2. QED
    BY <1>2, <2>1
<1>4. ~ WasApplied(i) /\ i \notin InHand
  BY <1>3 DEF WasApplied, InHand, Booked, AnsweredOnce, Answered
<1>5. InHand' = InHand /\ \A j : WasApplied(j)' <=> WasApplied(j)
  BY <1>1 DEF InHand, WasApplied
<1> SUFFICES ASSUME NEW u \in Tasks PROVE PaidFor(u)' /\ Insured(u)'
  BY DEF Costs
<1>6. StageOf(u)' = StageOf(u) /\ RoundsOf(u)' = RoundsOf(u)
  BY <1>1 DEF StageOf, RoundsOf, OverLimit
<1>7. PaidFor(u) /\ Insured(u)
  BY DEF Costs
<1> DEFINE G == Cardinality(UnderWay(u))
           H == Cardinality(UnderWay(u) \ InHand)
           P == Cardinality(Promised(u))
           S == Cardinality(Starting(u))
           W == Cardinality(Workers(u))
<1>8. /\ G \in Nat /\ H \in Nat /\ P \in Nat /\ S \in Nat /\ W \in Nat
      /\ regs[u] \in Nat /\ RoundsOf(u) \in Nat /\ crashes \in Nat
      /\ Weight(status[u]) \in {0, 2} /\ Weight(StageOf(u)) \in {0, 2}
  BY CostNumbers, WeightType
<1>9. CASE d.kind = "advisor" /\ u \in d.key
  <2>1. /\ d \in Promised(u) /\ Promised(u)' = Promised(u) \ {d}
        /\ Starting(u)' = Starting(u) /\ Workers(u)' = Workers(u)
    BY <1>9, <1>1, <1>2 DEF Promised, Starting, Workers
  <2>2. UnderWay(u)' = UnderWay(u) \cup {i} /\ i \notin UnderWay(u)
    BY <1>9, <1>2, <1>3, <1>4, <1>5 DEF UnderWay, Live
  <2>3. (UnderWay(u) \ InHand)' = (UnderWay(u) \ InHand) \cup {i}
    BY <2>2, <1>4, <1>5
  <2>4. /\ Cardinality(UnderWay(u)') = G + 1 /\ Cardinality(Promised(u)') = P - 1
        /\ Cardinality((UnderWay(u) \ InHand)') = H + 1
    <3>1. IsFiniteSet(UnderWay(u)) /\ IsFiniteSet(UnderWay(u) \ InHand) /\ IsFiniteSet(Promised(u))
      BY CostNumbers
    <3>2. Cardinality(UnderWay(u)') = G + 1
      BY <2>2, <3>1, FS_AddElement
    <3>3. Cardinality(Promised(u)') = P - 1
      BY <2>1, <3>1, FS_RemoveElement
    <3>4. Cardinality((UnderWay(u) \ InHand)') = H + 1
      <4> DEFINE Z == UnderWay(u) \ InHand
      <4>1. IsFiniteSet(Z) /\ i \notin Z /\ (UnderWay(u) \ InHand)' = Z \cup {i} /\ Cardinality(Z) = H
        BY <2>2, <2>3, <3>1
      <4> HIDE DEF Z, H
      <4>2. QED
        BY <4>1, FS_AddElement
    <3>5. QED
      BY <3>2, <3>3, <3>4
  <2>5. PaidFor(u)'
    <3>1. /\ Cost(u) = 2 * RoundsOf(u) + H + P + Weight(StageOf(u))
          /\ Cost(u)' = 2 * RoundsOf(u) + (H + 1) + (P - 1) + Weight(StageOf(u))
      BY <2>4, <1>6 DEF Cost
    <3>2. Cost(u)' = Cost(u)
      <4> HIDE DEF H, P
      <4>1. QED
        BY <3>1, <1>8, SMT
    <3>3. QED
      BY <3>2, <2>1, <1>1, <1>7 DEF PaidFor, Paid
  <2>6. Insured(u)'
    <3>1. PICK a \in {0, 2} : Ahead(u) = a + P /\ Ahead(u)' = a + (P - 1)
      BY <2>4, <1>1 DEF Ahead
    <3>2. /\ CostOnDisk(u) = 2 * regs[u] + G + Weight(status[u])
          /\ CostOnDisk(u)' = 2 * regs[u] + (G + 1) + Weight(status[u])
      BY <2>4, <1>1 DEF CostOnDisk
    <3>3. CostOnDisk(u)' + Ahead(u)' = CostOnDisk(u) + Ahead(u)
      <4> HIDE DEF G, P
      <4>1. QED
        BY <3>1, <3>2, <1>8, SMT
    <3>4. QED
      BY <3>3, <2>1, <1>1, <1>7 DEF Insured, Paid
  <2>7. QED
    BY <2>5, <2>6
<1>10. CASE d.kind = "worker" /\ u \in d.paths
  <2>1. /\ d \in Starting(u) /\ Starting(u)' = Starting(u) \ {d}
        /\ Promised(u)' = Promised(u) /\ Workers(u)' = Workers(u) \cup {i}
        /\ i \notin Workers(u) /\ UnderWay(u)' = UnderWay(u)
    BY <1>10, <1>1, <1>2, <1>3, <1>5 DEF Promised, Starting, Workers, UnderWay, Live
  <2>2. Cardinality(Starting(u)') = S - 1 /\ Cardinality(Workers(u)') = W + 1
    <3>1. IsFiniteSet(Starting(u)) /\ IsFiniteSet(Workers(u))
      BY CostNumbers
    <3>2. Cardinality(Starting(u)') = S - 1
      BY <2>1, <3>1, FS_RemoveElement
    <3>3. Cardinality(Workers(u)') = W + 1
      BY <2>1, <3>1, FS_AddElement
    <3>4. QED
      BY <3>2, <3>3
  <2>3. /\ Cost(u)' = Cost(u) /\ CostOnDisk(u)' = CostOnDisk(u) /\ Ahead(u)' = Ahead(u)
    BY <2>1, <1>1, <1>5, <1>6 DEF Cost, CostOnDisk, Ahead
  <2>4. Paid(u) = 2 * W + 2 * crashes /\ Paid(u)' = 2 * (W + 1) + 2 * crashes
    BY <2>2, <1>1 DEF Paid
  <2>5. Cost(u) <= Paid(u) + 2 * S /\ CostOnDisk(u) + Ahead(u) <= Paid(u) + 2
    BY <1>7 DEF PaidFor, Insured
  <2>6. Cost(u) \in Int /\ CostOnDisk(u) + Ahead(u) \in Int
    BY <1>8 DEF Cost, CostOnDisk, Ahead
  <2>7. Cost(u)' <= Paid(u)' + 2 * Cardinality(Starting(u)')
        /\ CostOnDisk(u)' + Ahead(u)' <= Paid(u)' + 2
    <3> HIDE DEF S, W
    <3>1. /\ Cost(u) <= (2 * (W + 1) + 2 * crashes) + 2 * (S - 1)
          /\ CostOnDisk(u) + Ahead(u) <= (2 * (W + 1) + 2 * crashes) + 2
      BY <2>4, <2>5, <2>6, <1>8, SMT
    <3>2. QED
      BY <3>1, <2>2, <2>3, <2>4
  <2>8. QED
    BY <2>7 DEF PaidFor, Insured
<1>11. CASE ~ (d.kind = "advisor" /\ u \in d.key) /\ ~ (d.kind = "worker" /\ u \in d.paths)
  <2>1. /\ Promised(u)' = Promised(u) /\ Starting(u)' = Starting(u)
        /\ Workers(u)' = Workers(u) /\ UnderWay(u)' = UnderWay(u)
    BY <1>11, <1>1, <1>2, <1>5 DEF Promised, Starting, Workers, UnderWay, Live
  <2>2. QED
    BY <2>1, <1>1, <1>5, <1>6, <1>7
       DEF PaidFor, Insured, Cost, CostOnDisk, Ahead, Paid
<1>12. QED
  BY <1>9, <1>10, <1>11

LEMMA CostMark ==
  ASSUME TypeOK, Booked, Costs, NEW r \in work.mark, MarkApplied(r) PROVE Costs'
<1>1. /\ work'.to = work.to /\ work'.flag = work.flag /\ work'.mark = work.mark \ {r}
      /\ work'.flip = work.flip /\ work'.enq = work.enq
      /\ UNCHANGED <<status, regs, intents, crashes>>
      /\ applied' = {q \in applied : q.of # r.of} \cup {r}
  BY DEF MarkApplied, TypeOK, Work, world
<1>2. \A i : WasApplied(i)' <=> WasApplied(i) \/ i = r.of
  BY <1>1 DEF WasApplied
<1> SUFFICES ASSUME NEW u \in Tasks PROVE PaidFor(u)' /\ Insured(u)'
  BY DEF Costs
<1>3. /\ Promised(u)' = Promised(u) /\ Starting(u)' = Starting(u)
      /\ Workers(u)' = Workers(u) /\ Paid(u)' = Paid(u) /\ Ahead(u)' = Ahead(u)
      /\ StageOf(u)' = StageOf(u) /\ RoundsOf(u)' = RoundsOf(u)
  BY <1>1 DEF Promised, Starting, Workers, Paid, Ahead, StageOf, RoundsOf, OverLimit
<1>4. UnderWay(u)' \subseteq UnderWay(u)
  BY <1>1, <1>2 DEF UnderWay, Live
<1>5. (UnderWay(u) \ InHand)' \subseteq UnderWay(u) \ InHand
  <2>1. \A i \in UnderWay(u)' : i # r.of
    BY <1>2 DEF UnderWay, Live
  <2>2. \A i \in InHand : i \in InHand' \/ i = r.of
    BY <1>1 DEF InHand
  <2>3. QED
    BY <2>1, <2>2, <1>4
<1> DEFINE G == Cardinality(UnderWay(u))
           H == Cardinality(UnderWay(u) \ InHand)
           P == Cardinality(Promised(u))
           G1 == Cardinality(UnderWay(u)')
           H1 == Cardinality((UnderWay(u) \ InHand)')
<1>6. G1 <= G /\ H1 <= H /\ G1 \in Nat /\ H1 \in Nat
  <2>1. IsFiniteSet(UnderWay(u)') /\ G1 <= G
    BY <1>4, CostNumbers, FS_Subset
  <2>2. IsFiniteSet((UnderWay(u) \ InHand)') /\ H1 <= H
    BY <1>5, CostNumbers, FS_Subset
  <2>3. QED
    BY <2>1, <2>2, FS_CardinalityType
<1>7. /\ G \in Nat /\ H \in Nat /\ P \in Nat /\ Cardinality(Starting(u)) \in Nat
      /\ Cardinality(Workers(u)) \in Nat
      /\ regs[u] \in Nat /\ RoundsOf(u) \in Nat /\ crashes \in Nat
      /\ Weight(status[u]) \in {0, 2} /\ Weight(StageOf(u)) \in {0, 2}
  BY CostNumbers, WeightType
<1>8. /\ Cost(u) = 2 * RoundsOf(u) + H + P + Weight(StageOf(u))
      /\ Cost(u)' = 2 * RoundsOf(u) + H1 + P + Weight(StageOf(u))
      /\ CostOnDisk(u) = 2 * regs[u] + G + Weight(status[u])
      /\ CostOnDisk(u)' = 2 * regs[u] + G1 + Weight(status[u])
  BY <1>1, <1>3 DEF Cost, CostOnDisk
<1>9. Paid(u) \in Nat /\ Ahead(u) \in Nat
  BY <1>7 DEF Paid, Ahead
<1>10. /\ Cost(u) <= Paid(u) + 2 * Cardinality(Starting(u))
       /\ CostOnDisk(u) + Ahead(u) <= Paid(u) + 2
  BY DEF Costs, PaidFor, Insured
<1>11. /\ Cost(u)' <= Paid(u) + 2 * Cardinality(Starting(u))
       /\ CostOnDisk(u)' + Ahead(u) <= Paid(u) + 2
  <2> HIDE DEF G, H, P, G1, H1
  <2>1. QED
    BY <1>6, <1>7, <1>8, <1>9, <1>10, SMT
<1>12. QED
  BY <1>3, <1>11 DEF PaidFor, Insured

LEMMA CostValues ==
  ASSUME TypeOK, Booked, NEW t \in Tasks
  PROVE  CostOnDisk(t) \in Nat /\ Paid(t) \in Nat /\ Ahead(t) \in Nat
<1>1. /\ Cardinality(UnderWay(t)) \in Nat /\ regs[t] \in Nat /\ Weight(status[t]) \in {0, 2}
      /\ Cardinality(Promised(t)) \in Nat /\ Cardinality(Workers(t)) \in Nat /\ crashes \in Nat
  BY CostNumbers, WeightType
<1>2. CostOnDisk(t) \in Nat
  BY <1>1, SMT DEF CostOnDisk
<1>3. Paid(t) \in Nat
  BY <1>1, SMT DEF Paid
<1>4. Ahead(t) \in Nat
  BY <1>1, SMT DEF Ahead
<1>5. QED
  BY <1>2, <1>3, <1>4

(* What a stage sets up adds no more than it may.                          *)
LEMMA CostPlan ==
  ASSUME TypeOK, Booked, Costs, AtRest, UNCHANGED <<files, crashes>>,
         \A t \in Tasks :
           /\ Cost(t)' \in Nat /\ Ahead(t)' \in Nat /\ Cardinality(Starting(t)') \in Nat
           /\ Cost(t)' <= CostOnDisk(t) + 2 * Cardinality(Starting(t)')
           /\ Ahead(t)' <= 2
  PROVE  Costs'
<1> SUFFICES ASSUME NEW t \in Tasks PROVE PaidFor(t)' /\ Insured(t)'
  BY DEF Costs
<1>1. CostOnDisk(t)' = CostOnDisk(t) /\ Paid(t)' = Paid(t)
  <2>1. UnderWay(t)' = UnderWay(t) /\ Workers(t)' = Workers(t)
    BY DEF UnderWay, Live, WasApplied, Workers, files
  <2>2. QED
    BY <2>1 DEF CostOnDisk, Paid, files
<1>2. CostOnDisk(t) \in Nat /\ Paid(t) \in Nat
  BY CostValues
<1>3. CostOnDisk(t) <= Paid(t)
  <2>1. Cost(t) = CostOnDisk(t) /\ Starting(t) = {}
    BY CostAtRest
  <2>2. Cost(t) <= Paid(t) + 2 * Cardinality(Starting(t))
    BY DEF Costs, PaidFor
  <2>3. QED
    BY <2>1, <2>2, <1>2, FS_EmptySet
<1>4. /\ Cost(t)' <= Paid(t) + 2 * Cardinality(Starting(t)')
      /\ CostOnDisk(t) + Ahead(t)' <= Paid(t) + 2
  BY <1>2, <1>3
<1>5. QED
  BY <1>1, <1>4 DEF PaidFor, Insured

(* Nothing is set up, or all of it is lost.                                *)
LEMMA CostRest ==
  ASSUME TypeOK, Booked, AtRest', TypeOK', Booked', UNCHANGED files,
         \A t \in Tasks : CostOnDisk(t) <= Paid(t)', crashes' \in Nat
  PROVE  Costs'
<1> SUFFICES ASSUME NEW t \in Tasks PROVE PaidFor(t)' /\ Insured(t)'
  BY DEF Costs
<1>1. UnderWay(t)' = UnderWay(t) /\ Workers(t)' = Workers(t)
  BY DEF UnderWay, Live, WasApplied, Workers, files
<1>2. CostOnDisk(t)' = CostOnDisk(t)
  BY <1>1 DEF CostOnDisk, files
<1>3. /\ Promised(t)' = {} /\ Starting(t)' = {} /\ InHand' = {}
      /\ StageOf(t)' = status[t] /\ RoundsOf(t)' = regs[t]
  BY DEF AtRest, Promised, Starting, InHand, StageOf, RoundsOf, files
<1>4. /\ Cardinality({}) = 0 /\ (UnderWay(t) \ InHand)' = UnderWay(t)
      /\ t \notin work'.flag /\ t \notin work'.flip
  BY <1>1, <1>3, FS_EmptySet DEF AtRest
<1>5. /\ Cardinality(UnderWay(t)) \in Nat /\ regs[t] \in Nat /\ Weight(status[t]) \in {0, 2}
      /\ Cardinality(Workers(t)) \in Nat
  BY CostNumbers, WeightType
<1>6. Cost(t)' = CostOnDisk(t) /\ Ahead(t)' = 0
  <2>1. Cost(t)' = 2 * regs[t] + Cardinality(UnderWay(t)) + 0 + Weight(status[t])
    BY <1>3, <1>4 DEF Cost
  <2>2. Ahead(t)' = 0 + 0
    BY <1>3, <1>4 DEF Ahead
  <2>3. QED
    BY <2>1, <2>2, <1>5 DEF CostOnDisk
<1>7. CostOnDisk(t) \in Nat /\ Paid(t)' \in Nat
  BY <1>1, <1>5 DEF CostOnDisk, Paid
<1>8. Cost(t)' <= Paid(t)' + 2 * 0 /\ CostOnDisk(t) + Ahead(t)' <= Paid(t)' + 2
  BY <1>6, <1>7
<1>9. QED
  BY <1>2, <1>3, <1>4, <1>8 DEF PaidFor, Insured

LEMMA CostRests ==
  ASSUME TypeOK, Booked, Costs, AtRest, AtRest', TypeOK', Booked', UNCHANGED <<files, crashes>>
  PROVE  Costs'
<1>1. ASSUME NEW t \in Tasks PROVE CostOnDisk(t) <= Paid(t)'
  <2>1. Cost(t) = CostOnDisk(t) /\ Starting(t) = {}
    BY CostAtRest
  <2>2. Cost(t) <= Paid(t) + 2 * Cardinality(Starting(t))
    BY DEF Costs, PaidFor
  <2>3. Workers(t)' = Workers(t)
    BY DEF Workers, files
  <2>4. Paid(t) \in Nat /\ Paid(t)' = Paid(t)
    BY <2>3, CostValues DEF Paid
  <2>5. QED
    BY <2>1, <2>2, <2>4, FS_EmptySet
<1>2. QED
  BY <1>1, CostRest DEF TypeOK

(* What is lost with the cycle, the crash pays for.                        *)
LEMMA CostCrash ==
  ASSUME TypeOK, Booked, Costs, TypeOK', Booked', Crash PROVE Costs'
<1>1. AtRest' /\ UNCHANGED files /\ crashes' = crashes + 1
  BY DEF Crash, Exit, NoWork, AtRest
<1>2. ASSUME NEW t \in Tasks PROVE CostOnDisk(t) <= Paid(t)'
  <2>1. Workers(t)' = Workers(t)
    BY <1>1 DEF Workers, files
  <2>2. /\ Cardinality(Workers(t)) \in Nat /\ crashes \in Nat
        /\ CostOnDisk(t) \in Nat /\ Ahead(t) \in Nat
    BY CostNumbers, CostValues
  <2>3. Paid(t)' = 2 * Cardinality(Workers(t)) + 2 * (crashes + 1)
    BY <2>1, <1>1 DEF Paid
  <2>4. CostOnDisk(t) + Ahead(t) <= 2 * Cardinality(Workers(t)) + 2 * crashes + 2
    BY DEF Costs, Insured, Paid
  <2>5. QED
    BY <2>2, <2>3, <2>4, SMT
<1>3. QED
  BY <1>1, <1>2, CostRest DEF TypeOK

LEMMA CostQuiet ==
  ASSUME TypeOK, Booked, Costs, TypeOK', Booked', 
         \/ StartupFails \/ SkipHeld \/ NothingToDo \/ ActionTaken \/ CloseSession
         \/ StatesCompared \/ ReadState \/ WorkersApplied \/ PairsApplied \/ AllDone
  PROVE  Costs'
<1>1. AtRest
  BY DEF StartupFails, SkipHeld, NothingToDo, ActionTaken, CloseSession, StatesCompared,
         ReadState, WorkersApplied, PairsApplied, AllDone, Booked, StageWork
<1>2. AtRest'
  BY DEF StartupFails, SkipHeld, NothingToDo, ActionTaken, CloseSession, StatesCompared,
         ReadState, WorkersApplied, PairsApplied, AllDone, Exit, NoWork, AtRest
<1>3. UNCHANGED <<files, crashes>>
  BY DEF StartupFails, SkipHeld, NothingToDo, ActionTaken, CloseSession, StatesCompared,
         ReadState, WorkersApplied, PairsApplied, AllDone, world
<1>4. QED
  BY <1>1, <1>2, <1>3, CostRests

(* A stage that enqueues nothing.                                          *)
LEMMA CostMoves ==
  ASSUME TypeOK, Booked, Costs, AtRest, UNCHANGED <<files, crashes>>, work'.enq = {},
         \A t \in Tasks :
           /\ RoundsOf(t)' \in Nat
           /\ Cardinality((UnderWay(t) \ InHand)') \in Nat
           /\ 2 * RoundsOf(t)' + Cardinality((UnderWay(t) \ InHand)') + Weight(StageOf(t)')
                <= 2 * regs[t] + Cardinality(UnderWay(t)) + Weight(status[t])
  PROVE  Costs'
<1>1. ASSUME NEW t \in Tasks
      PROVE  /\ Cost(t)' \in Nat /\ Ahead(t)' \in Nat /\ Cardinality(Starting(t)') \in Nat
             /\ Cost(t)' <= CostOnDisk(t) + 2 * Cardinality(Starting(t)')
             /\ Ahead(t)' <= 2
  <2>1. Promised(t)' = {} /\ Starting(t)' = {} /\ Cardinality({}) = 0
    BY FS_EmptySet DEF Promised, Starting
  <2>2. Weight(StageOf(t)') \in {0, 2}
    BY WeightType
  <2>3. /\ Cost(t)' = 2 * RoundsOf(t)' + Cardinality((UnderWay(t) \ InHand)') + 0
                        + Weight(StageOf(t)')
        /\ CostOnDisk(t) = 2 * regs[t] + Cardinality(UnderWay(t)) + Weight(status[t])
    BY <2>1 DEF Cost, CostOnDisk
  <2>4. Ahead(t)' = 0 + 0 \/ Ahead(t)' = 2 + 0
    BY <2>1 DEF Ahead
  <2>5. CostOnDisk(t) \in Nat
    BY CostValues
  <2>6. Cost(t)' \in Nat /\ Cost(t)' <= CostOnDisk(t)
    BY <2>2, <2>3, SMT
  <2>7. QED
    BY <2>1, <2>4, <2>5, <2>6
<1>2. QED
  BY <1>1, CostPlan

(* Taking answers in hand never adds.                                      *)
LEMMA UnderWayLater ==
  ASSUME TypeOK, Booked, UNCHANGED files, NEW t \in Tasks
  PROVE  /\ UnderWay(t)' = UnderWay(t)
         /\ Cardinality((UnderWay(t) \ InHand)') \in Nat
         /\ Cardinality((UnderWay(t) \ InHand)') <= Cardinality(UnderWay(t))
<1>1. UnderWay(t)' = UnderWay(t)
  BY DEF UnderWay, Live, WasApplied, files
<1>2. (UnderWay(t) \ InHand)' \in SUBSET UnderWay(t) /\ IsFiniteSet(UnderWay(t))
  BY <1>1, CostNumbers
<1> DEFINE Z == (UnderWay(t) \ InHand)'
<1> HIDE DEF Z
<1>3. IsFiniteSet(Z) /\ Cardinality(Z) <= Cardinality(UnderWay(t))
  BY <1>2, FS_Subset DEF Z
<1>4. Cardinality(Z) \in Nat
  BY <1>3, FS_CardinalityType
<1>5. QED
  BY <1>1, <1>3, <1>4 DEF Z

LEMMA CostHeal ==
  ASSUME TypeOK, Booked, Costs, HealStale PROVE Costs'
<1>1. /\ pc = "idle" /\ UNCHANGED <<files, crashes>>
      /\ work'.to = "PENDING" /\ work'.flag = {} /\ work'.enq = {}
  BY DEF HealStale, Flips, NoWork
<1>2. AtRest
  BY <1>1 DEF Booked, StageWork
<1>3. ASSUME NEW t \in Tasks
      PROVE  /\ RoundsOf(t)' \in Nat
             /\ Cardinality((UnderWay(t) \ InHand)') \in Nat
             /\ 2 * RoundsOf(t)' + Cardinality((UnderWay(t) \ InHand)') + Weight(StageOf(t)')
                  <= 2 * regs[t] + Cardinality(UnderWay(t)) + Weight(status[t])
  <2>1. RoundsOf(t)' = regs[t] /\ regs[t] \in Nat
    BY <1>1, CostNumbers DEF RoundsOf, files
  <2>2. StageOf(t)' = "PENDING" \/ StageOf(t)' = status[t]
    BY <1>1 DEF StageOf, files
  <2>3. Weight(StageOf(t)') <= Weight(status[t]) /\ Weight(StageOf(t)') \in {0, 2}
        /\ Weight(status[t]) \in {0, 2}
    BY <2>2 DEF Weight
  <2>4. /\ Cardinality((UnderWay(t) \ InHand)') \in Nat /\ Cardinality(UnderWay(t)) \in Nat
        /\ Cardinality((UnderWay(t) \ InHand)') <= Cardinality(UnderWay(t))
    BY <1>1, UnderWayLater, CostNumbers
  <2>5. QED
    BY <2>1, <2>3, <2>4, SMT
<1>4. QED
  BY <1>1, <1>2, <1>3, CostMoves

LEMMA CostWorker ==
  ASSUME TypeOK, Booked, Costs, TypeOK', Booked', NEW r \in pend, ApplyWorkerResult(r)
  PROVE  Costs'
<1>1. /\ pc = "workers" /\ AtRest /\ UNCHANGED <<files, crashes>>
  BY DEF ApplyWorkerResult, world
<1>2. CASE UNCHANGED work
  <2>1. AtRest'
    BY <1>1, <1>2 DEF AtRest
  <2>2. QED
    BY <2>1, <1>1, CostRests
<1>3. CASE ~ UNCHANGED work
  <2>1. PICK t \in r.of.paths :
          /\ AppliesTo(t)
          /\ work' = [Flips(IF r.ans.verdict = "ok" THEN "REVIEW" ELSE "FAILED", {t})
                        EXCEPT !.mark = {r}]
    BY <1>3 DEF ApplyWorkerResult
  <2>2. /\ work'.to \in {"REVIEW", "FAILED"} /\ work'.flip = {t} /\ work'.flag = {}
        /\ work'.enq = {}
    BY <2>1 DEF Flips, NoWork
  <2>3. t \in Tasks /\ status[t] \in {"IN_PROGRESS", "REVIEW", "FAILED"}
    BY <2>1, <1>1 DEF AppliesTo, Booked, WorkersRan, TypeOK
  <2>4. ASSUME NEW u \in Tasks
        PROVE  /\ RoundsOf(u)' \in Nat
               /\ Cardinality((UnderWay(u) \ InHand)') \in Nat
               /\ 2 * RoundsOf(u)' + Cardinality((UnderWay(u) \ InHand)') + Weight(StageOf(u)')
                    <= 2 * regs[u] + Cardinality(UnderWay(u)) + Weight(status[u])
    <3>1. RoundsOf(u)' = regs[u] /\ regs[u] \in Nat
      BY <2>2, <1>1, CostNumbers DEF RoundsOf, files
    <3>2. \/ u = t /\ StageOf(u)' \in {"REVIEW", "FAILED"}
          \/ StageOf(u)' = status[u]
      BY <2>2, <1>1 DEF StageOf, files
    <3>3. Weight(StageOf(u)') = Weight(status[u]) /\ Weight(status[u]) \in {0, 2}
      BY <3>2, <2>3 DEF Weight
    <3>4. /\ Cardinality((UnderWay(u) \ InHand)') \in Nat /\ Cardinality(UnderWay(u)) \in Nat
          /\ Cardinality((UnderWay(u) \ InHand)') <= Cardinality(UnderWay(u))
      BY <1>1, UnderWayLater, CostNumbers
    <3>5. QED
      BY <3>1, <3>3, <3>4, SMT
  <2>5. QED
    BY <2>2, <2>4, <1>1, CostMoves
<1>4. QED
  BY <1>2, <1>3

(* Two answers leave every task of their gate two reviews fewer under way, *)
(* which pays for a round, or for what an opened gate was worth.           *)
LEMMA CostPair ==
  ASSUME TypeOK, Booked, Costs, TypeOK', Booked', NEW r \in pend, NEW q \in pend,
         \/ ApplyPairUnknown(r, q) \/ ApplyPairError(r, q)
         \/ ApplyPairApprove(r, q) \/ ApplyPairRevise(r, q)
  PROVE  Costs'
<1>1. Pair(r, q)
  BY DEF ApplyPairUnknown, ApplyPairError, ApplyPairApprove, ApplyPairRevise
<1>2. /\ pc = "pairs" /\ AtRest /\ UNCHANGED <<files, crashes>>
      /\ r.of.key = q.of.key /\ r # q
  BY <1>1 DEF Pair, Selected, world
<1>3. CASE ApplyPairUnknown(r, q)
  <2>1. AtRest'
    BY <1>2, <1>3 DEF ApplyPairUnknown, AtRest
  <2>2. QED
    BY <2>1, <1>2, CostRests
<1>4. CASE ~ ApplyPairUnknown(r, q)
  <2>1. /\ work'.enq = {} /\ work'.mark = {r, q} /\ work'.to \in {"REVIEW", "DONE"}
        /\ work'.flip \cup work'.flag \subseteq Batch(r, q)
    BY <1>4, PairWrites
  <2>2. /\ r.of \in Live /\ q.of \in Live /\ r.of # q.of
        /\ Batch(r, q) \subseteq r.of.key
    <3>1. /\ r \in results /\ q \in results /\ r.of \in intents /\ q.of \in intents
          /\ r.of.kind = "advisor" /\ q.of.kind = "advisor"
      BY <1>2 DEF Booked, AnsweredOnce, Answered, StageWork
    <3>2. r.of.paths \subseteq r.of.key /\ q.of.paths \subseteq q.of.key
      BY <3>1 DEF Booked, Keyed
    <3>3. ~ WasApplied(r.of) /\ ~ WasApplied(q.of) /\ r.of # q.of
      BY <3>1, <1>2 DEF Booked, AnsweredOnce
    <3>4. QED
      BY <3>1, <3>2, <3>3, <1>2 DEF Live, Batch
  <2>3. InHand' = {r.of, q.of}
    BY <2>1 DEF InHand
  <2>4. ASSUME NEW t \in Tasks
        PROVE  /\ RoundsOf(t)' \in Nat
               /\ Cardinality((UnderWay(t) \ InHand)') \in Nat
               /\ 2 * RoundsOf(t)' + Cardinality((UnderWay(t) \ InHand)') + Weight(StageOf(t)')
                    <= 2 * regs[t] + Cardinality(UnderWay(t)) + Weight(status[t])
    <3>1. /\ regs[t] \in Nat /\ Cardinality(UnderWay(t)) \in Nat
          /\ Weight(status[t]) \in {0, 2} /\ Weight(StageOf(t)') \in {0, 2}
      BY CostNumbers, WeightType
    <3>2. regs' = regs /\ status' = status
      BY <1>2 DEF files
    <3>3. /\ UnderWay(t)' = UnderWay(t)
          /\ Cardinality((UnderWay(t) \ InHand)') \in Nat
          /\ Cardinality((UnderWay(t) \ InHand)') <= Cardinality(UnderWay(t))
      BY <1>2, UnderWayLater
    <3>4. CASE t \in Batch(r, q)
      <4>1. r.of \in UnderWay(t) /\ q.of \in UnderWay(t)
        BY <2>2, <1>2, <3>4 DEF UnderWay
      <4> DEFINE Y == UnderWay(t) \ {r.of}
                 Z == Y \ {q.of}
      <4>2. IsFiniteSet(UnderWay(t)) /\ q.of \in Y
        BY <4>1, <2>2, CostNumbers
      <4>3. IsFiniteSet(Y) /\ Cardinality(Y) = Cardinality(UnderWay(t)) - 1
        BY <4>1, <4>2, FS_RemoveElement
      <4>4. Cardinality(Z) = Cardinality(UnderWay(t)) - 2
        <5> HIDE DEF Y
        <5>1. Cardinality(Y \ {q.of}) = Cardinality(Y) - 1
          BY <4>2, <4>3, FS_RemoveElement
        <5>2. QED
          BY <5>1, <4>3, <3>1
      <4>5. (UnderWay(t) \ InHand)' = Z
        BY <2>3, <3>3
      <4>6. /\ RoundsOf(t)' \in Nat
            /\ 2 * RoundsOf(t)' + Weight(StageOf(t)') <= 2 * regs[t] + 2
        <5>1. \/ RoundsOf(t)' = regs[t]
              \/ RoundsOf(t)' = regs[t] + 1 /\ StageOf(t)' = "PENDING"
          BY <3>2 DEF RoundsOf, StageOf
        <5>2. Weight("PENDING") = 0
          BY DEF Weight
        <5>3. QED
          BY <5>1, <5>2, <3>1
      <4>7. Cardinality((UnderWay(t) \ InHand)') = Cardinality(UnderWay(t)) - 2
        BY <4>4, <4>5
      <4> HIDE DEF Y, Z
      <4>8. QED
        BY <3>1, <3>3, <4>6, <4>7, SMT
    <3>5. CASE t \notin Batch(r, q)
      <4>1. RoundsOf(t)' = regs[t] /\ StageOf(t)' = status[t]
        BY <2>1, <3>2, <3>5 DEF RoundsOf, StageOf
      <4>2. QED
        BY <3>1, <3>3, <4>1, SMT
    <3>6. QED
      BY <3>4, <3>5
  <2>5. QED
    BY <2>1, <2>4, <1>2, CostMoves
<1>5. QED
  BY <1>3, <1>4

LEMMA CostWave == ASSUME TypeOK, DInv, Booked, Costs, DispatchWave PROVE Costs'
<1> DEFINE T == Decision.tasks
<1>1. /\ AtRest /\ UNCHANGED files
      /\ work'.to = "IN_PROGRESS" /\ work'.flip = T /\ work'.flag = {} /\ work'.mark = {}
      /\ T \subseteq Tasks /\ \A t \in T : status[t] = "PENDING"
      /\ \A t : Promised(t)' = {}
      /\ \A t : Starting(t)' = IF t \in T THEN {WorkerDraft(t)} ELSE {}
  BY WaveWrites
<1>2. UNCHANGED crashes
  BY DEF DispatchWave, world
<1> HIDE DEF T
<1>3. ASSUME NEW t \in Tasks
      PROVE  /\ Cost(t)' \in Nat /\ Ahead(t)' \in Nat /\ Cardinality(Starting(t)') \in Nat
             /\ Cost(t)' <= CostOnDisk(t) + 2 * Cardinality(Starting(t)')
             /\ Ahead(t)' <= 2
  <2>1. /\ RoundsOf(t)' = regs[t] /\ regs[t] \in Nat
        /\ StageOf(t)' = IF t \in T THEN "IN_PROGRESS" ELSE status[t]
        /\ InHand' = {} /\ UnderWay(t)' = UnderWay(t)
        /\ Cardinality(UnderWay(t)) \in Nat
    BY <1>1, CostNumbers, UnderWayLater DEF RoundsOf, StageOf, InHand, files
  <2>2. (UnderWay(t) \ InHand)' = UnderWay(t)
    BY <2>1
  <2>3. Cardinality(Promised(t)') = 0
    BY <1>1, FS_EmptySet
  <2>4. /\ Cost(t)' = 2 * regs[t] + Cardinality(UnderWay(t)) + 0 + Weight(StageOf(t)')
        /\ CostOnDisk(t) = 2 * regs[t] + Cardinality(UnderWay(t)) + Weight(status[t])
    BY <2>1, <2>2, <2>3 DEF Cost, CostOnDisk
  <2>5. Weight(status[t]) \in {0, 2} /\ Weight(StageOf(t)') \in {0, 2}
    BY WeightType
  <2>6. \/ Cardinality(Starting(t)') = 1
        \/ Cardinality(Starting(t)') = 0 /\ StageOf(t)' = status[t]
    <3>1. CASE t \in T
      BY <3>1, <1>1, FS_Singleton
    <3>2. CASE t \notin T
      BY <3>2, <2>1, <1>1, FS_EmptySet
    <3>3. QED
      BY <3>1, <3>2
  <2>7. Ahead(t)' = 0 + 0 \/ Ahead(t)' = 2 + 0
    BY <2>3 DEF Ahead
  <2>8. QED
    BY <2>1, <2>4, <2>5, <2>6, <2>7, SMT
<1>4. QED
  BY <1>1, <1>2, <1>3, CostPlan

(* Opening a gate turns what a task was worth into two reviews.            *)
LEMMA CostGate == ASSUME TypeOK, DInv, Booked, Costs, DispatchAdvisor PROVE Costs'
<1> DEFINE T == Decision.tasks
<1>1. /\ AtRest /\ UNCHANGED files
      /\ work'.to = "EXECUTING" /\ work'.flip = T /\ work'.flag = {} /\ work'.mark = {}
      /\ T \subseteq Tasks /\ \A t \in T : status[t] = "REVIEW"
      /\ \A t : Starting(t)' = {}
      /\ \A t : /\ IsFiniteSet(Promised(t)') /\ Cardinality(Promised(t)') \in 0 .. 2
                /\ t \notin T => Promised(t)' = {}
  BY GateWrites
<1>2. UNCHANGED crashes
  BY DEF DispatchAdvisor, world
<1> HIDE DEF T
<1>3. ASSUME NEW t \in Tasks
      PROVE  /\ Cost(t)' \in Nat /\ Ahead(t)' \in Nat /\ Cardinality(Starting(t)') \in Nat
             /\ Cost(t)' <= CostOnDisk(t) + 2 * Cardinality(Starting(t)')
             /\ Ahead(t)' <= 2
  <2>1. /\ RoundsOf(t)' = regs[t] /\ regs[t] \in Nat
        /\ StageOf(t)' = IF t \in T THEN "EXECUTING" ELSE status[t]
        /\ InHand' = {} /\ UnderWay(t)' = UnderWay(t)
        /\ Cardinality(UnderWay(t)) \in Nat
    BY <1>1, CostNumbers, UnderWayLater DEF RoundsOf, StageOf, InHand, files
  <2>2. (UnderWay(t) \ InHand)' = UnderWay(t)
    BY <2>1
  <2>3. Cardinality(Starting(t)') = 0
    BY <1>1, FS_EmptySet
  <2> DEFINE P == Cardinality(Promised(t)')
  <2>4. P \in 0 .. 2
    BY <1>1
  <2>5. /\ Cost(t)' = 2 * regs[t] + Cardinality(UnderWay(t)) + P + Weight(StageOf(t)')
        /\ CostOnDisk(t) = 2 * regs[t] + Cardinality(UnderWay(t)) + Weight(status[t])
    BY <2>1, <2>2 DEF Cost, CostOnDisk
  <2>6. \/ Weight(StageOf(t)') = 0 /\ Weight(status[t]) = 2
        \/ P = 0 /\ StageOf(t)' = status[t]
    <3>1. CASE t \in T
      BY <3>1, <2>1, <1>1 DEF Weight
    <3>2. CASE t \notin T
      BY <3>2, <2>1, <1>1, FS_EmptySet
    <3>3. QED
      BY <3>1, <3>2
  <2>7. Ahead(t)' = 0 + P
    BY <1>1 DEF Ahead
  <2>8. Weight(status[t]) \in {0, 2}
    BY WeightType
  <2> HIDE DEF P
  <2>9. QED
    BY <2>1, <2>3, <2>4, <2>5, <2>6, <2>7, <2>8, SMT
<1>4. QED
  BY <1>1, <1>2, <1>3, CostPlan

LEMMA CostElse ==
  ASSUME Costs, UNCHANGED <<status, regs, intents, applied, work, crashes>> PROVE Costs'
BY DEF Costs, PaidFor, Insured, Cost, CostOnDisk, Ahead, Paid, Promised, Starting, UnderWay,
       Live, InHand, WasApplied, Workers, StageOf, RoundsOf, OverLimit

LEMMA CostStep ==
  ASSUME TypeOK, DInv, Booked, Costs, TypeOK', Booked', [Next]_vars PROVE Costs'
<1>1. CASE Write
  BY <1>1, CostFlip, CostFlag, CostIntent, CostMark DEF Write
<1>2. CASE HealStale
  BY <1>2, CostHeal
<1>3. CASE \/ StartupFails \/ SkipHeld \/ NothingToDo \/ ActionTaken \/ CloseSession
           \/ StatesCompared \/ ReadState \/ WorkersApplied \/ PairsApplied \/ AllDone
  BY <1>3, CostQuiet
<1>4. CASE \E r \in pend : ApplyWorkerResult(r)
  BY <1>4, CostWorker
<1>5. CASE ApplyPair
  BY <1>5, CostPair DEF ApplyPair
<1>6. CASE DispatchWave \/ DispatchAdvisor
  BY <1>6, CostWave, CostGate
<1>7. CASE Crash
  BY <1>7, CostCrash
<1>8. CASE Session \/ UserHolds \/ (\E t \in Tasks : TaskFileEdited(t)) \/ UNCHANGED vars
  <2>1. UNCHANGED <<status, regs, intents, applied, work, crashes>>
    BY <1>8 DEF Session, SessionAnswers, UserHolds, TaskFileEdited, vars, files, locals, world
  <2>2. QED
    BY <2>1, CostElse
<1>9. QED
  BY <1>1, <1>2, <1>3, <1>4, <1>5, <1>6, <1>7, <1>8 DEF Next, Cycle, Closed

(* Who is given up has used all rounds, and been reviewed once more.       *)
LEMMA CostOfBlocked == ASSUME TypeOK, Booked, Costs PROVE BlockedAfterRounds
<1> SUFFICES ASSUME NEW t \in Tasks, status[t] = "BLOCKED"
             PROVE  Cardinality(Workers(t)) + crashes >= MaxReviseRounds + 1
  BY DEF BlockedAfterRounds
<1>1. /\ regs[t] = MaxReviseRounds /\ Starting(t) = {}
      /\ t \in work.flip => work.to \in {"REVIEW", "DONE"}
  BY DEF Booked, GivenUp
<1>2. OverLimit(t)
  BY <1>1, BoundAssumption DEF OverLimit, BoundAssumption
<1>3. RoundsOf(t) = MaxReviseRounds /\ Weight(StageOf(t)) = 2
  BY <1>1, <1>2 DEF RoundsOf, StageOf, Weight
<1>4. Cost(t) <= Paid(t) + 2 * 0
  BY <1>1, FS_EmptySet DEF Costs, PaidFor
<1> DEFINE H == Cardinality(UnderWay(t) \ InHand)
           P == Cardinality(Promised(t))
           W == Cardinality(Workers(t))
<1>5. /\ H \in Nat /\ P \in Nat /\ W \in Nat
      /\ crashes \in Nat /\ MaxReviseRounds \in Nat
  BY CostNumbers
<1>6. Cost(t) = 2 * MaxReviseRounds + H + P + 2 /\ Paid(t) = 2 * W + 2 * crashes
  BY <1>3 DEF Cost, Paid
<1>7. W + crashes >= MaxReviseRounds + 1
  <2> HIDE DEF H, P, W
  <2>1. QED
    BY <1>4, <1>5, <1>6, SMT
<1>8. QED
  BY <1>7

(* A cycle that stops between two writes costs a task one of its repairs   *)
(* at most: it is BLOCKED only after MAX_REVISE_ROUNDS repairs, less one   *)
(* for each such cycle, with cycles cut off wherever it may be, healing,   *)
(* failing exit codes, pauses and unreadable task files; when no answer is *)
(* repeated and guidance is free text (_revise_wave_batch).                *)
THEOREM CrashesCostARound ==
  ASSUME ReAnswer = FALSE, ExplicitLines \subseteq {FALSE} PROVE Spec => []BlockedAfterRounds
<1>1. TypeOK /\ DInv /\ Booked /\ [Next]_vars => Booked'
  BY BookedStep
<1>2. TypeOK /\ DInv /\ Booked /\ Costs /\ TypeOK' /\ Booked' /\ [Next]_vars => Costs'
  BY CostStep
<1>3. TypeOK /\ Booked /\ Costs => BlockedAfterRounds
  BY CostOfBlocked
<1>4. QED
  BY TypeInit, TypeStep, DispatchInit, DispatchStep, BookedInit, CostInit, <1>1, <1>2, <1>3,
     PTL DEF Spec
=============================================================================
