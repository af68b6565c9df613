--------------------------- MODULE BenchRun_proofs ---------------------------
(***************************************************************************)
(* Startup and the benchmark's loop for any plan, any options and any      *)
(* number of workers, mishaps and instances: what the benchmark reports of *)
(* an instance, and what healing and synchronising may do to its tasks.    *)
(***************************************************************************)
EXTENDS BenchRun, TLAPS

USE DEF disk, cycle, crew, loop

LEMMA Bounds ==
  StaleAfter \in Nat /\ MaxMishaps \in Nat /\ Instances \in Nat /\ Deadline \in Nat
BY LoopAssumption DEF LoopAssumption

LEMMA FreshTyped ==
  /\ Before \in [Tasks -> TaskState \cup {"torn"}] /\ Odd \subseteq Tasks
  /\ [t \in Tasks |-> NoFile] \in [Tasks -> 0 .. NoFile]
BY Bounds, BeforeAssumption DEF BeforeAssumption, NoFile, TaskState

LEMMA InitTyped == LoopInit => TypeOK
<1> SUFFICES ASSUME LoopInit PROVE TypeOK
  OBVIOUS
<1>1. /\ status \in [Tasks -> TaskState] /\ file \in [Tasks -> TaskState \cup {"torn"}]
      /\ odd \subseteq Tasks
  BY BeforeAssumption, FreshTyped DEF BeforeAssumption, LoopInit, Init
<1>2. opts \in Options
  BY DEF LoopInit, Init, NoOptions, Options
<1>3. /\ beat \in [Tasks -> 0 .. NoFile] /\ pulsed = {} /\ mishaps \in 0 .. MaxMishaps
      /\ worker \in [Tasks -> {"none", "queued", "running", "dead", "ok", "error"}]
  BY FreshTyped, Bounds DEF LoopInit, Init
<1>4. /\ hold = "no" /\ closed = FALSE /\ pc = "idle" /\ exit = 6
      /\ stale = {} /\ drifts = {} /\ writing = {} /\ fresh = {} /\ edited = {}
  BY DEF LoopInit, Init, NoExit
<1>5. /\ hold \in {"no", "held", "malformed"} /\ closed \in BOOLEAN
      /\ pc \in {"idle", "heal", "compare", "sync", "read", "decide"}
      /\ pulsed \subseteq {t \in Tasks : worker[t] = "running"}
      /\ stale \subseteq Tasks /\ drifts \subseteq Tasks /\ writing \subseteq Text
      /\ fresh \subseteq Tasks /\ edited \subseteq Tasks
  BY <1>3, <1>4
<1>6. exit \in 0 .. 6
  BY <1>4
<1>7. QED
  BY <1>1, <1>2, <1>3, <1>5, <1>6, Zenon DEF TypeOK

LEMMA ExitTyped ==
  ASSUME NEW code \in 0 .. 6, Exit(code)
  PROVE  /\ exit' \in 0 .. 6 /\ pc' = "idle" /\ opts' \in Options
         /\ stale' = {} /\ drifts' = {} /\ writing' = {} /\ fresh' = {} /\ edited' = {}
BY DEF Exit, NoOptions, Options

LEMMA StepTyped ==
  ASSUME TypeOK, Step PROVE TypeOK'
<1> USE DEF TypeOK, EXIT_ALL_DONE, EXIT_ACTION_TAKEN, EXIT_WAITING, EXIT_BLOCKED,
            EXIT_ERROR, EXIT_AUDIT_FAILED
<1>1. ASSUME NEW t \in Tasks, Heal(t) PROVE TypeOK'
  BY <1>1 DEF Heal, TaskState
<1>2. ASSUME NEW t \in Tasks, SyncRead(t) PROVE TypeOK'
  <2>1. PICK s \in Synced(t) :
          \/ writing' = {[task |-> t, state |-> s, odd |-> t \in odd]} /\ UNCHANGED drifts
          \/ drifts' = drifts \ {t} /\ UNCHANGED writing
    BY <1>2 DEF SyncRead
  <2>2. s \in TaskState \cup {"torn"}
    BY <2>1 DEF Synced
  <2>3. [task |-> t, state |-> s, odd |-> t \in odd] \in Text
    BY <2>2 DEF Text
  <2>4. writing' \subseteq Text /\ drifts' \subseteq Tasks
    BY <2>1, <2>3
  <2>5. QED BY <1>2, <2>4 DEF SyncRead
<1>15. CASE SyncWrite
  <2>1. PICK w \in writing : Put(w) /\ drifts' = drifts \ {w.task}
    BY <1>15 DEF SyncWrite
  <2>2. w.task \in Tasks /\ w.state \in TaskState \cup {"torn"}
    BY DEF Text
  <2>3. file' \in [Tasks -> TaskState \cup {"torn"}] /\ odd' \subseteq Tasks
    BY <2>1, <2>2 DEF Put
  <2>4. QED BY <1>15, <2>1, <2>3 DEF SyncWrite
<1>3. CASE FindFails
  BY <1>3, ExitTyped DEF FindFails
<1>4. CASE FindDrifts
  BY <1>4 DEF FindDrifts, Drifts, Listed
<1>5. CASE FindAgain
  BY <1>5 DEF FindAgain, Drifts, Listed
<1>6. CASE StrictFails
  BY <1>6, ExitTyped DEF StrictFails
<1>7. CASE StartupDone
  BY <1>7 DEF StartupDone, NoOptions, Options
<1>8. CASE SkipHeld
  BY <1>8, ExitTyped DEF SkipHeld
<1>9. CASE ApplyResults
  <2>1. status' \in [Tasks -> TaskState]
    <3>1. CASE opts.dry
      BY <1>9, <3>1 DEF ApplyResults
    <3>2. CASE ~ opts.dry
      <4>1. PICK v \in Verdicts :
              status' = [t \in Tasks |->
                           IF Answered(t) THEN IF worker[t] = "ok" THEN "REVIEW" ELSE "FAILED"
                           ELSE IF t \in Reviewed THEN v[t] ELSE status[t]]
        BY <1>9, <3>2 DEF ApplyResults
      <4>2. \A t \in Reviewed : v[t] \in TaskState
        BY DEF Verdicts, TaskState
      <4>3. QED BY <4>1, <4>2 DEF TaskState
    <3>3. QED BY <3>1, <3>2
  <2>2. /\ worker' \in [Tasks -> {"none", "queued", "running", "dead", "ok", "error"}]
        /\ \A t \in Tasks : worker[t] = "running" => worker'[t] = "running"
    BY <1>9 DEF ApplyResults, Answered
  <2>3. QED BY <1>9, <2>1, <2>2 DEF ApplyResults
<1>10. CASE DispatchWave
  BY <1>10, ExitTyped DEF DispatchWave, TaskState
<1>11. CASE DispatchAdvisor
  BY <1>11, ExitTyped DEF DispatchAdvisor, TaskState
<1>12. CASE AllDone
  <2>1. PICK code \in 0 .. 6 : Exit(code)
    BY <1>12 DEF AllDone
  <2>2. closed' \in BOOLEAN /\ UNCHANGED <<status, file, odd, hold, crew>>
    BY <1>12 DEF AllDone
  <2>3. QED BY <2>1, <2>2, ExitTyped
<1>13. CASE NothingToDo
  BY <1>13, ExitTyped DEF NothingToDo
<1>14. QED
  BY <1>1, <1>2, <1>3, <1>4, <1>5, <1>6, <1>7, <1>8, <1>9, <1>10, <1>11, <1>12, <1>13, <1>15
     DEF Step

LEMMA OutsideTyped ==
  ASSUME TypeOK, Outside PROVE TypeOK'
<1> USE Bounds DEF TypeOK, NoFile, Mishap
<1>1. ASSUME NEW t \in Tasks, StartWorker(t) PROVE TypeOK'
  BY <1>1 DEF StartWorker
<1>2. ASSUME NEW t \in Tasks, Beat(t) PROVE TypeOK'
  BY <1>2 DEF Beat
<1>3. ASSUME NEW t \in Tasks, EditFile(t) PROVE TypeOK'
  <2>1. odd' \subseteq Tasks /\ edited' \subseteq Tasks
    BY <1>3 DEF EditFile
  <2>2. file' \in [Tasks -> TaskState \cup {"torn"}]
    BY <1>3 DEF EditFile, TaskState
  <2>3. QED BY <1>3, <2>1, <2>2 DEF EditFile
<1>4. ASSUME NEW t \in Tasks, Answer(t) PROVE TypeOK'
  BY <1>4 DEF Answer, Ends
<1>5. ASSUME NEW t \in Tasks, WorkerDies(t) PROVE TypeOK'
  BY <1>5 DEF WorkerDies, Ends
<1>6. CASE UserHolds
  BY <1>6 DEF UserHolds
<1>7. QED BY <1>1, <1>2, <1>3, <1>4, <1>5, <1>6 DEF Outside, Crew

LEMMA NextTyped == TypeOK /\ [Next]_vars => TypeOK'
<1> SUFFICES ASSUME TypeOK, [Next]_vars PROVE TypeOK'
  OBVIOUS
<1>1. ASSUME NEW o \in Options, Start(o) PROVE TypeOK'
  BY <1>1 DEF Start, TypeOK, NoExit, Read, Listed
<1>2. CASE TimeIsUp
  BY <1>2 DEF TimeIsUp, TypeOK
<1>3. CASE ExitPolicy
  BY <1>3 DEF ExitPolicy, TypeOK, NoExit
<1>4. CASE EmitResult
  BY <1>4, BeforeAssumption, FreshTyped
     DEF BeforeAssumption, EmitResult, NewWorkspace, TypeOK
<1>5. CASE CycleKilled
  <2>1. PICK code \in 0 .. 6 : Exit(code)
    BY <1>5 DEF CycleKilled, EXIT_BLOCKED, EXIT_ERROR
  <2>2. \A w \in writing : w.task \in Tasks
    BY DEF TypeOK, Text
  <2>3. file' \in [Tasks -> TaskState \cup {"torn"}]
    BY <1>5, <2>2 DEF CycleKilled, TypeOK
  <2>4. mishaps' \in 0 .. MaxMishaps
    BY <1>5, Bounds DEF CycleKilled, Mishap, TypeOK
  <2>6. closed' = closed \/ closed' = TRUE
    BY <1>5, Zenon DEF CycleKilled
  <2>7. closed' \in BOOLEAN
    BY <2>6 DEF TypeOK
  <2>5. QED BY <1>5, <2>1, <2>3, <2>4, <2>7, ExitTyped DEF CycleKilled, TypeOK
<1>6. CASE Tick
  BY <1>6, Bounds DEF Tick, TimePasses, Grow, TypeOK, NoFile
<1>7. CASE UNCHANGED vars \/ AggregateResults \/ BatchRaises
  BY <1>7 DEF vars, TypeOK, AggregateResults, BatchRaises
<1>8. NoOptions \in Options
  BY DEF NoOptions, Options
<1>9. QED
  BY <1>1, <1>2, <1>3, <1>4, <1>5, <1>6, <1>7, <1>8, StepTyped, OutsideTyped
     DEF Next, Drive, SessionStarts, BenchStarts, Over

(* Whatever drives the cycles and whatever happens to them, the project's  *)
(* state stays well formed.                                                *)
THEOREM TypesHold == Spec => []TypeOK
BY InitTyped, NextTyped, PTL DEF Spec

-----------------------------------------------------------------------------
(* What the benchmark reports.                                             *)

(* A cycle that has exited is over, and so is the one the loop ended with; *)
(* nothing runs in the workspace until it is summed up.                    *)
OneAtATime ==
  /\ exit # NoExit => pc = "idle"
  /\ final # NoExit => pc = "idle" /\ exit = NoExit
  /\ driver = "session" => final = NoExit

(* The benchmark passes no --dry-run, so ALL_DONE means closed.            *)
DoneIsClosed ==
  driver = "bench" => /\ opts.dry = FALSE
                      /\ exit = EXIT_ALL_DONE \/ final = EXIT_ALL_DONE => closed = TRUE

(* The first error is retried, the second one is final.                    *)
Retries ==
  /\ errors \in {0, 1, 2}
  /\ errors = 2 <=> final = EXIT_ERROR
  /\ \/ has_retried = TRUE /\ errors # 0
     \/ has_retried = FALSE /\ errors = 0

Result == [status : {"pass", "fail", "retry_exhausted"}, closed : BOOLEAN, errors : 0 .. 2]

RInv == OneAtATime /\ DoneIsClosed /\ Retries /\ results \in Seq(Result) /\ ResultsTrue

USE DEF EXIT_ALL_DONE, EXIT_ACTION_TAKEN, EXIT_WAITING, EXIT_BLOCKED, EXIT_ERROR,
        EXIT_AUDIT_FAILED, NoExit

LEMMA InitReports == LoopInit => RInv
<1> SUFFICES ASSUME LoopInit PROVE RInv
  OBVIOUS
<1>1. results = <<>> /\ results \in Seq(Result) /\ Len(results) = 0
  BY DEF LoopInit
<1>2. ResultsTrue
  BY <1>1 DEF ResultsTrue
<1>3. OneAtATime
  BY DEF LoopInit, Init, OneAtATime
<1>4. DoneIsClosed
  BY DEF LoopInit, Init, NoOptions, DoneIsClosed
<1>5. Retries
  BY DEF LoopInit, Init, Retries
<1>6. QED BY <1>1, <1>2, <1>3, <1>4, <1>5 DEF RInv

(* What a step of the running cycle does to it: it goes on, or it exits,   *)
(* with ALL_DONE only if the project is closed or it ran dry.              *)
LEMMA StepRuns ==
  ASSUME TypeOK, Step
  PROVE  /\ pc # "idle"
         /\ \/ UNCHANGED <<exit, closed>> /\ opts'.dry = opts.dry
            \/ /\ pc' = "idle" /\ opts'.dry = FALSE
               /\ exit' = EXIT_ALL_DONE => closed' = TRUE \/ opts.dry = TRUE
<1> USE DEF TypeOK, Exit, NoOptions, Options
<1>1. ASSUME NEW t \in Tasks, Heal(t) \/ SyncRead(t)
      PROVE  pc # "idle" /\ UNCHANGED <<exit, closed, opts>>
  BY <1>1 DEF Heal, SyncRead
<1>2. CASE SyncWrite \/ FindFails \/ FindDrifts \/ FindAgain \/ StrictFails
  BY <1>2 DEF SyncWrite, FindFails, FindDrifts, FindAgain, StrictFails
<1>3. CASE StartupDone
  BY <1>3 DEF StartupDone
<1>4. CASE SkipHeld \/ ApplyResults \/ DispatchWave \/ DispatchAdvisor
  BY <1>4 DEF SkipHeld, ApplyResults, DispatchWave, DispatchAdvisor
<1>5. CASE AllDone
  BY <1>5 DEF AllDone
<1>6. CASE NothingToDo
  BY <1>6 DEF NothingToDo
<1>7. QED BY <1>1, <1>2, <1>3, <1>4, <1>5, <1>6 DEF Step

LEMMA EmitReports ==
  ASSUME TypeOK, RInv, EmitResult PROVE RInv'
<1> DEFINE r == [status |-> Classified(final), closed |-> closed, errors |-> errors]
<1>1. /\ driver = "bench" /\ final # NoExit /\ results' = Append(results, r)
      /\ final' = NoExit /\ errors' = 0 /\ has_retried' = FALSE
      /\ UNCHANGED <<cycle, driver>>
  BY DEF EmitResult
<1>2. r \in Result
  BY DEF RInv, Retries, Result, TypeOK, Classified, Status, RetryPolicy
<1>3. /\ r.status = "pass" => r.closed
      /\ r.status = "retry_exhausted" <=> r.errors = 2
      /\ r.errors <= 2
  BY <1>1 DEF RInv, Retries, DoneIsClosed, TypeOK, Classified, Status, RetryPolicy
<1> HIDE DEF r
<1>4. results' \in Seq(Result) /\ Len(results') = Len(results) + 1
  BY <1>1, <1>2 DEF RInv
<1>5. ASSUME NEW i \in 1 .. Len(results')
      PROVE  results'[i] = IF i = Len(results) + 1 THEN r ELSE results[i]
  BY <1>1, <1>2, <1>4 DEF RInv
<1>6. ResultsTrue'
  BY <1>3, <1>4, <1>5 DEF RInv, ResultsTrue
<1>7. exit = NoExit /\ pc = "idle" /\ opts.dry = FALSE
  BY <1>1 DEF RInv, OneAtATime, DoneIsClosed
<1>8. OneAtATime' /\ DoneIsClosed'
  BY <1>1, <1>7 DEF OneAtATime, DoneIsClosed
<1>9. Retries'
  BY <1>1 DEF Retries
<1>10. QED BY <1>4, <1>6, <1>8, <1>9 DEF RInv

LEMMA NextReports ==
  ASSUME TypeOK, RInv, [Next]_vars PROVE RInv'
<1> DEFINE Rest == UNCHANGED results => RInv'
<1>1. ASSUME UNCHANGED results, OneAtATime', DoneIsClosed', Retries' PROVE RInv'
  BY <1>1 DEF RInv, ResultsTrue
<1> USE DEF OneAtATime, DoneIsClosed, Retries
<1>2. CASE SessionStarts
  BY <1>1, <1>2 DEF SessionStarts, Start, RInv
<1>3. CASE BenchStarts
  BY <1>1, <1>3 DEF BenchStarts, Start, Looping, NoOptions, RInv
<1>4. CASE TimeIsUp
  <2>1. UNCHANGED <<pc, opts, exit, closed, driver, has_retried, errors, results>>
    BY <1>4 DEF TimeIsUp
  <2>2. driver = "bench" /\ final = NoExit /\ final' = 3 /\ exit = NoExit /\ pc = "idle"
    BY <1>4 DEF TimeIsUp, Looping
  <2>3. OneAtATime' /\ DoneIsClosed'
    BY <2>1, <2>2 DEF RInv
  <2>4. Retries'
    BY <2>1, <2>2 DEF RInv
  <2>5. QED BY <1>1, <2>1, <2>3, <2>4
<1>5. CASE ExitPolicy
  <2>1. UNCHANGED <<pc, opts, closed, driver, results>> /\ exit' = NoExit
    BY <1>5 DEF ExitPolicy
  <2>2. /\ driver = "bench" /\ final = NoExit /\ exit # NoExit
        /\ final' = NoExit \/ final' = exit
    BY <1>5 DEF ExitPolicy, Looping
  <2>3. OneAtATime' /\ DoneIsClosed'
    BY <2>1, <2>2 DEF RInv
  <2>4. CASE exit = EXIT_ERROR /\ has_retried = TRUE
    <3>1. ~ Continues(exit)
      BY <2>4 DEF Continues, RetryPolicy
    <3>2. final' = EXIT_ERROR /\ errors' = errors + 1
      BY <1>5, <2>4, <3>1 DEF ExitPolicy
    <3>3. has_retried' = TRUE
      BY <1>5, <2>4, <3>1, Zenon DEF ExitPolicy
    <3>4. Retries'
      BY <2>2, <2>4, <3>2, <3>3 DEF RInv
    <3>5. QED BY <1>1, <2>1, <2>3, <3>4
  <2>5. CASE exit = EXIT_ERROR /\ has_retried = FALSE
    <3>1. Continues(exit)
      BY <2>5 DEF Continues, RetryPolicy
    <3>2. final' = NoExit /\ errors' = errors + 1
      BY <1>5, <2>5, <3>1 DEF ExitPolicy
    <3>3. has_retried' = TRUE
      BY <1>5, <2>5, <3>1, Zenon DEF ExitPolicy
    <3>4. Retries'
      BY <2>2, <2>5, <3>2, <3>3 DEF RInv
    <3>5. QED BY <1>1, <2>1, <2>3, <3>4
  <2>6. CASE exit # EXIT_ERROR
    <3>1. UNCHANGED errors
      BY <1>5, <2>6 DEF ExitPolicy
    <3>2. has_retried' = (has_retried \/ FALSE)
      BY <1>5, <2>6, Zenon DEF ExitPolicy
    <3>3. UNCHANGED has_retried
      BY <3>2, Zenon DEF RInv, Retries
    <3>4. Retries'
      BY <2>2, <2>6, <3>1, <3>3 DEF RInv
    <3>5. QED BY <1>1, <2>1, <2>3, <3>4
  <2>7. QED BY <2>4, <2>5, <2>6 DEF RInv
<1>6. CASE CycleKilled
  <2>1. /\ pc # "idle" /\ pc' = "idle" /\ exit' # EXIT_ALL_DONE /\ opts'.dry = FALSE
        /\ UNCHANGED <<driver, has_retried, final, errors, results>>
    BY <1>6 DEF CycleKilled, Mishap, Exit, NoOptions
  <2>2. closed' = closed \/ closed' = TRUE
    BY <1>6, Zenon DEF CycleKilled
  <2>3. final = NoExit
    BY <2>1 DEF RInv
  <2>4. OneAtATime' /\ Retries'
    BY <2>1, <2>3 DEF RInv
  <2>5. DoneIsClosed'
    BY <2>1, <2>3
  <2>6. QED BY <1>1, <2>1, <2>4, <2>5
<1>7. CASE Tick
  BY <1>1, <1>7 DEF Tick, RInv
<1>8. CASE Step /\ UNCHANGED loop
  <2>1. pc # "idle" /\ UNCHANGED loop /\ final = NoExit /\ exit = NoExit
    BY <1>8, StepRuns DEF RInv
  <2>2. OneAtATime' /\ Retries'
    BY <1>8, <2>1, StepRuns DEF RInv
  <2>3. ASSUME driver = "bench" PROVE DoneIsClosed'
    <3>1. opts.dry = FALSE
      BY <2>3 DEF RInv
    <3>2. CASE UNCHANGED <<exit, closed>> /\ opts'.dry = opts.dry
      BY <2>1, <3>1, <3>2
    <3>3. CASE opts'.dry = FALSE /\ (exit' = EXIT_ALL_DONE => closed' = TRUE \/ opts.dry = TRUE)
      BY <2>1, <3>1, <3>3
    <3>4. QED BY <1>8, <3>2, <3>3, StepRuns
  <2>4. QED BY <1>1, <2>1, <2>2, <2>3
<1>9. CASE Outside /\ UNCHANGED loop
  <2>1. UNCHANGED <<pc, opts, exit, closed>>
    BY <1>9 DEF Outside, Crew, StartWorker, Beat, EditFile, Answer, WorkerDies, UserHolds
  <2>2. QED BY <1>1, <1>9, <2>1 DEF RInv
<1>10. CASE UNCHANGED vars \/ AggregateResults \/ BatchRaises
  BY <1>1, <1>10 DEF vars, RInv, AggregateResults, BatchRaises
<1>11. QED
  BY <1>2, <1>3, <1>4, <1>5, <1>6, <1>7, <1>8, <1>9, <1>10, EmitReports DEF Next, Drive, Over

(* The benchmark's results are true of its instances, whatever the cycles, *)
(* their workers and the clock did: a pass was closed by session_close.py, *)
(* retries are exhausted by the second error, not before and not later.    *)
THEOREM ReportsAreTrue == Spec => []ResultsTrue
<1>1. RInv => ResultsTrue
  BY DEF RInv
<1>2. TypeOK /\ RInv /\ [Next]_vars => RInv'
  BY NextReports
<1>3. QED BY InitReports, TypesHold, <1>1, <1>2, PTL DEF Spec

-----------------------------------------------------------------------------
(* Healing.                                                                *)

(* Time cannot pass a worker that beats, so none of these is too old; and  *)
(* nobody the cycle found beating is among those it found stale.           *)
HInv ==
  /\ \A t \in pulsed : beat[t] <= StaleAfter
  /\ pc = "heal" => stale \cap fresh = {}
  /\ pc # "heal" => fresh = {}

LEMMA InitHealing == LoopInit => HInv
BY DEF LoopInit, Init, HInv

LEMMA StepHealing ==
  ASSUME TypeOK, HInv, Step
  PROVE  /\ HInv'
         /\ \A t \in Tasks : status[t] = "IN_PROGRESS" /\ status'[t] = "PENDING" => t \notin fresh
<1> DEFINE Safe ==
      /\ HInv'
      /\ \A t \in Tasks : status[t] = "IN_PROGRESS" /\ status'[t] = "PENDING" => t \notin fresh
<1> USE DEF TypeOK, HInv, Exit
<1>1. ASSUME NEW u \in Tasks, Heal(u) PROVE Safe
  BY <1>1 DEF Heal
<1>2. ASSUME NEW u \in Tasks, SyncRead(u) PROVE Safe
  BY <1>2 DEF SyncRead
<1>3. CASE SyncWrite \/ FindFails \/ FindDrifts \/ FindAgain \/ StrictFails \/ StartupDone
  BY <1>3 DEF SyncWrite, FindFails, FindDrifts, FindAgain, StrictFails, StartupDone
<1>4. CASE SkipHeld \/ ApplyResults \/ DispatchWave \/ DispatchAdvisor \/ AllDone \/ NothingToDo
  <2>1. pc \in {"read", "decide"} /\ pc' # "heal" /\ fresh' = {} /\ UNCHANGED <<beat, pulsed>>
    BY <1>4 DEF SkipHeld, ApplyResults, DispatchWave, DispatchAdvisor, AllDone, NothingToDo
  <2>2. QED BY <2>1
<1>5. QED BY <1>1, <1>2, <1>3, <1>4 DEF Step

LEMMA OutsideHealing ==
  ASSUME TypeOK, HInv, Outside PROVE HInv' /\ UNCHANGED status
<1> USE Bounds DEF TypeOK, HInv
<1>1. ASSUME NEW t \in Tasks, Beat(t) PROVE HInv' /\ UNCHANGED status
  BY <1>1 DEF Beat
<1>2. ASSUME NEW t \in Tasks, StartWorker(t) \/ EditFile(t) \/ Answer(t) \/ WorkerDies(t)
      PROVE  HInv' /\ UNCHANGED status
  BY <1>2 DEF StartWorker, EditFile, Answer, WorkerDies, Ends
<1>3. CASE UserHolds
  BY <1>3 DEF UserHolds
<1>4. QED BY <1>1, <1>2, <1>3 DEF Outside, Crew

LEMMA NextHealing ==
  ASSUME TypeOK, RInv, HInv, [Next]_vars
  PROVE  /\ HInv'
         /\ \A t \in Tasks : status[t] = "IN_PROGRESS" /\ status'[t] = "PENDING" => t \notin fresh
<1> DEFINE Safe ==
      /\ HInv'
      /\ \A t \in Tasks : status[t] = "IN_PROGRESS" /\ status'[t] = "PENDING" => t \notin fresh
<1> USE DEF TypeOK, HInv
<1>1. ASSUME NEW o \in Options, Start(o) PROVE Safe
  <2>1. \A t \in pulsed : beat[t] \in 0 .. NoFile /\ beat[t] <= StaleAfter
    OBVIOUS
  <2>2. \A t \in stale' : beat[t] > StaleAfter
    BY <1>1 DEF Start, Stale
  <2>3. stale' \cap pulsed = {}
    BY <2>1, <2>2, Bounds DEF NoFile
  <2>4. QED BY <1>1, <2>3 DEF Start
<1>2. CASE TimeIsUp
  BY <1>2 DEF TimeIsUp
<1>3. CASE ExitPolicy
  BY <1>3 DEF ExitPolicy
<1>4. CASE EmitResult
  BY <1>4 DEF EmitResult, NewWorkspace
<1>5. CASE CycleKilled
  BY <1>5 DEF CycleKilled, Exit
<1>6. CASE Tick
  BY <1>6, Bounds DEF Tick, TimePasses, Grow, NoFile
<1>7. CASE UNCHANGED vars \/ AggregateResults \/ BatchRaises
  BY <1>7 DEF vars, AggregateResults, BatchRaises
<1>8. NoOptions \in Options
  BY DEF NoOptions, Options
<1>9. CASE Step
  BY <1>9, StepHealing
<1>10. CASE Outside
  BY <1>10, OutsideHealing
<1>11. QED
  BY <1>1, <1>2, <1>3, <1>4, <1>5, <1>6, <1>7, <1>8, <1>9, <1>10
     DEF Next, Drive, SessionStarts, BenchStarts, Over

(* Whatever the options, the clock and the number of workers: a cycle      *)
(* gives up no worker whose heartbeat it could see when it looked.         *)
THEOREM BeatingIsNotGivenUp == Spec => BeatingNotRestarted
<1>1. TypeOK /\ RInv /\ HInv /\ [Next]_vars => HInv'
  BY NextHealing
<1>2. TypeOK /\ RInv /\ HInv /\ [Next]_vars
        => [\A t \in Tasks :
              status[t] = "IN_PROGRESS" /\ status'[t] = "PENDING" => t \notin fresh]_vars
  BY NextHealing
<1>3. TypeOK /\ RInv /\ [Next]_vars => RInv'
  BY NextReports
<1>4. QED
  BY InitHealing, InitReports, TypesHold, <1>1, <1>2, <1>3, PTL DEF Spec, BeatingNotRestarted

-----------------------------------------------------------------------------
(* Synchronising.                                                          *)

(* A file is ordinary if its state line has the form the sync looks for    *)
(* and nobody wrote it under the cycle.                                    *)
Ordinary == Listed \ (odd \cup edited)

(* Of a cycle that synchronises: the ordinary files that differ from       *)
(* MAP.md are on its list, what it is about to write to one brings it in   *)
(* line, and none differs when it compares again.                          *)
SInv ==
  /\ \A w \in writing : pc = "sync" /\ w.task \in drifts
  /\ opts.sync = TRUE =>
       /\ pc = "sync" =>
            /\ drifts \subseteq Listed
            /\ \A t \in Ordinary : file[t] # "torn" /\ (file[t] # status[t] => t \in drifts)
            /\ \A w \in writing :
                 \/ w.task \in edited
                 \/ w.task \in odd /\ w.odd = TRUE
                 \/ w.task \notin odd /\ ~ w.odd /\ w.state = status[w.task]
       /\ pc = "compare" =>
            /\ \A t \in Ordinary : file[t] = status[t]
            /\ drifts \subseteq odd \cup edited

(* A cycle that synchronises fails only by a mishap, or over files that    *)
(* are not ordinary.                                                       *)
Fails ==
  exit' = EXIT_ERROR =>
    \/ mishaps' = mishaps + 1
    \/ odd \cup edited # {} /\ \A t \in Ordinary : file[t] = status[t]

LEMMA InitSyncs == LoopInit => SInv
BY DEF LoopInit, Init, SInv

LEMMA ReadSyncs ==
  ASSUME TypeOK, SInv, NEW t \in Tasks, SyncRead(t) PROVE SInv'
<1>1. /\ pc = "sync" /\ writing = {} /\ t \in drifts
      /\ UNCHANGED <<status, file, odd, closed, pc, opts, edited>>
  BY DEF SyncRead
<1>2. PICK s \in Synced(t) :
        \/ writing' = {[task |-> t, state |-> s, odd |-> t \in odd]} /\ UNCHANGED drifts
        \/ s = file[t] /\ drifts' = drifts \ {t} /\ UNCHANGED writing
  BY DEF SyncRead
<1>3. \A w \in writing' : w.task \in drifts'
  <2>1. CASE writing' = {[task |-> t, state |-> s, odd |-> t \in odd]} /\ UNCHANGED drifts
    <3>1. \A w \in writing' : w.task = t
      BY <2>1
    <3>2. QED BY <1>1, <2>1, <3>1
  <2>2. CASE UNCHANGED writing
    BY <1>1, <2>2
  <2>3. QED BY <1>2, <2>1, <2>2
<1>9. SUFFICES ASSUME opts.sync = TRUE
               PROVE  /\ drifts' \subseteq Listed
                      /\ \A u \in Ordinary : file[u] # "torn" /\ (file[u] # status[u] => u \in drifts')
                      /\ \A w \in writing' :
                           \/ w.task \in edited
                           \/ w.task \in odd /\ w.odd = TRUE
                           \/ w.task \notin odd /\ ~ w.odd /\ w.state = status[w.task]
  BY <1>1, <1>3 DEF SInv, Ordinary, Listed
<1>4. /\ drifts \subseteq Listed
      /\ \A u \in Ordinary : file[u] # "torn" /\ (file[u] # status[u] => u \in drifts)
  BY <1>1, <1>9 DEF SInv
<1>5. t \notin odd /\ t \notin edited => s = status[t]
  BY <1>1, <1>2, <1>4 DEF Synced, Ordinary
<1>6. CASE writing' = {[task |-> t, state |-> s, odd |-> t \in odd]} /\ UNCHANGED drifts
  <2>1. ASSUME NEW w \in writing'
        PROVE  \/ w.task \in edited
               \/ w.task \in odd /\ w.odd = TRUE
               \/ w.task \notin odd /\ ~ w.odd /\ w.state = status[w.task]
    <3>1. w = [task |-> t, state |-> s, odd |-> t \in odd]
      BY <1>6, <2>1
    <3>2. w.task = t /\ w.state = s /\ w.odd = (t \in odd)
      BY <3>1
    <3>3. CASE t \in odd
      <4>1. w.odd = TRUE
        BY <3>2, <3>3, Zenon
      <4>2. QED BY <1>1, <1>6, <3>2, <3>3, <4>1
    <3>4. CASE t \notin odd
      <4>1. ~ w.odd
        BY <3>2, <3>4, Zenon
      <4>2. QED BY <1>1, <1>5, <1>6, <3>2, <3>4, <4>1
    <3>5. QED BY <3>3, <3>4
  <2>2. QED BY <1>4, <1>6, <2>1
<1>7. CASE s = file[t] /\ drifts' = drifts \ {t} /\ UNCHANGED writing
  <2>1. t \in Ordinary => file[t] = status[t]
    BY <1>5, <1>7 DEF Ordinary
  <2>2. QED BY <1>1, <1>4, <1>7, <2>1
<1>8. QED BY <1>2, <1>6, <1>7

LEMMA WriteSyncs ==
  ASSUME TypeOK, SInv, SyncWrite PROVE SInv'
<1>1. /\ pc = "sync" /\ writing' = {}
      /\ UNCHANGED <<status, closed, pc, opts, edited>>
  BY DEF SyncWrite
<1>2. PICK w \in writing : Put(w) /\ drifts' = drifts \ {w.task}
  BY DEF SyncWrite
<1>3. w.task \in Tasks /\ file' = [file EXCEPT ![w.task] = w.state]
  BY <1>2 DEF Put, TypeOK, Text
<1>4. SUFFICES ASSUME opts.sync = TRUE
               PROVE  /\ drifts' \subseteq Listed
                      /\ \A u \in Ordinary' :
                           file'[u] # "torn" /\ (file'[u] # status[u] => u \in drifts')
  BY <1>1 DEF SInv, Listed
<1>5. /\ drifts \subseteq Listed
      /\ \A u \in Ordinary : file[u] # "torn" /\ (file[u] # status[u] => u \in drifts)
      /\ \/ w.task \in edited
         \/ w.task \in odd /\ w.odd = TRUE
         \/ w.task \notin odd /\ ~ w.odd /\ w.state = status[w.task]
  BY <1>1, <1>2, <1>4 DEF SInv
<1>6. ASSUME NEW u \in Ordinary'
      PROVE  file'[u] # "torn" /\ (file'[u] # status[u] => u \in drifts')
  <2>1. u \in Listed /\ u \notin odd' /\ u \notin edited /\ u \in Tasks
    BY <1>1, <1>6 DEF Ordinary, Listed
  <2>2. CASE u = w.task
    <3>1. w.odd # TRUE
      BY <1>2, <2>1, <2>2 DEF Put
    <3>2. w.state = status[u]
      BY <1>5, <2>1, <2>2, <3>1
    <3>3. file'[u] = status[u] /\ status[u] # "torn"
      BY <1>3, <2>1, <2>2, <3>2 DEF TypeOK, TaskState
    <3>4. QED BY <3>3
  <2>3. CASE u # w.task
    <3>1. u \notin odd
      BY <1>2, <2>1, <2>3 DEF Put
    <3>2. u \in Ordinary
      BY <2>1, <3>1 DEF Ordinary
    <3>3. file'[u] = file[u]
      BY <1>3, <2>1, <2>3 DEF TypeOK
    <3>4. QED BY <1>2, <1>5, <2>3, <3>2, <3>3
  <2>4. QED BY <2>2, <2>3
<1>7. QED BY <1>2, <1>5, <1>6

LEMMA StepSyncs ==
  ASSUME TypeOK, RInv, SInv, Step
  PROVE  SInv' /\ (opts.sync = TRUE /\ pc \in {"sync", "compare"} => Fails)
<1> DEFINE Safe == SInv' /\ (opts.sync = TRUE /\ pc \in {"sync", "compare"} => Fails)
<1>0. pc # "idle" => exit = NoExit
  BY DEF RInv, OneAtATime
<1>1. ASSUME NEW t \in Tasks, Heal(t) PROVE Safe
  BY <1>1 DEF Heal, SInv
<1>2. ASSUME NEW t \in Tasks, SyncRead(t) PROVE Safe
  <2>1. exit' = NoExit
    BY <1>0, <1>2 DEF SyncRead
  <2>2. QED BY <1>2, <2>1, ReadSyncs DEF Fails
<1>3. CASE SyncWrite
  <2>1. exit' = NoExit
    BY <1>0, <1>3 DEF SyncWrite
  <2>2. QED BY <1>3, <2>1, WriteSyncs DEF Fails
<1>4. CASE FindFails
  <2>1. SInv'
    BY <1>4 DEF FindFails, Exit, SInv
  <2>2. ASSUME opts.sync = TRUE, pc = "sync"
        PROVE  odd \cup edited # {} /\ \A t \in Ordinary : file[t] = status[t]
    <3>1. drifts = {} /\ \E t \in Listed : file[t] = "torn"
      BY <1>4, <2>2 DEF FindFails
    <3>2. \A t \in Ordinary : file[t] # "torn" /\ (file[t] # status[t] => t \in drifts)
      BY <2>2 DEF SInv
    <3>3. QED BY <3>1, <3>2 DEF Ordinary
  <2>3. pc # "compare"
    BY <1>4 DEF FindFails
  <2>4. QED BY <2>1, <2>2, <2>3 DEF Fails
<1>5. CASE FindDrifts
  <2>1. drifts' = Drifts /\ edited' = {} /\ UNCHANGED <<status, file, odd, closed, writing, exit, opts>>
    BY <1>5 DEF FindDrifts
  <2>2. writing' = {} /\ pc = "heal"
    BY <1>5, <2>1 DEF FindDrifts, SInv
  <2>3. \A t \in Listed : file[t] # "torn"
    BY <1>5 DEF FindDrifts, CanFind
  <2>4. opts.sync = TRUE /\ pc' = "compare" => Drifts = {}
    BY <1>5 DEF FindDrifts
  <2>5. SInv'
    BY <2>1, <2>2, <2>3, <2>4 DEF SInv, Drifts, Ordinary, Listed
  <2>6. QED BY <2>2, <2>5
<1>6. CASE FindAgain
  <2>1. pc = "sync" /\ pc' = "compare" /\ drifts = {} /\ drifts' = Drifts
        /\ UNCHANGED <<status, file, odd, closed, writing, edited, exit, opts>>
    BY <1>6 DEF FindAgain
  <2>2. ASSUME opts.sync = TRUE
        PROVE  /\ \A t \in Ordinary : file[t] = status[t]
               /\ Drifts \subseteq odd \cup edited
    <3>1. \A t \in Ordinary : file[t] # status[t] => t \in drifts
      BY <2>1, <2>2 DEF SInv
    <3>2. QED BY <2>1, <3>1 DEF Drifts, Ordinary
  <2>3. writing' = {}
    BY <2>1 DEF SInv
  <2>4. SInv'
    BY <2>1, <2>2, <2>3 DEF SInv, Ordinary, Listed
  <2>5. exit' = NoExit
    BY <1>0, <2>1
  <2>6. QED BY <2>4, <2>5 DEF Fails
<1>7. CASE StrictFails
  <2>1. SInv'
    BY <1>7 DEF StrictFails, Exit, SInv
  <2>2. pc = "compare" /\ drifts # {}
    BY <1>7 DEF StrictFails
  <2>3. QED BY <2>1, <2>2 DEF Fails, SInv
<1>8. CASE StartupDone
  BY <1>0, <1>8 DEF StartupDone, SInv, Fails
<1>9. CASE SkipHeld \/ ApplyResults \/ DispatchWave \/ DispatchAdvisor \/ AllDone \/ NothingToDo
  <2>1. /\ pc \in {"read", "decide"} /\ pc' \notin {"sync", "compare"}
        /\ writing' = {} \/ writing' = writing
    BY <1>9 DEF SkipHeld, ApplyResults, DispatchWave, DispatchAdvisor, AllDone, NothingToDo, Exit
  <2>2. QED BY <2>1 DEF SInv
<1>10. QED
  BY <1>1, <1>2, <1>3, <1>4, <1>5, <1>6, <1>7, <1>8, <1>9 DEF Step

LEMMA NextSyncs ==
  ASSUME TypeOK, RInv, SInv, [Next]_vars
  PROVE  SInv' /\ (opts.sync /\ pc \in {"sync", "compare"} => Fails)
<1> DEFINE Safe == SInv' /\ (opts.sync = TRUE /\ pc \in {"sync", "compare"} => Fails)
<1> SUFFICES Safe
  OBVIOUS
<1>0. pc # "idle" => exit = NoExit
  BY DEF RInv, OneAtATime
<1>1. ASSUME NEW o \in Options, Start(o) PROVE Safe
  BY <1>1 DEF Start, SInv
<1>2. ASSUME UNCHANGED <<status, file, odd, closed, pc, opts, drifts, writing, edited>>
      PROVE  SInv'
  BY <1>2 DEF SInv, Ordinary, Listed
<1>3. CASE TimeIsUp \/ ExitPolicy
  <2>1. pc # "sync" /\ pc # "compare"
    BY <1>0, <1>3 DEF TimeIsUp, ExitPolicy, RInv, OneAtATime
  <2>2. UNCHANGED <<status, file, odd, closed, pc, opts, drifts, writing, edited>>
    BY <1>3 DEF TimeIsUp, ExitPolicy
  <2>3. QED BY <1>2, <2>1, <2>2
<1>4. CASE EmitResult
  <2>1. pc = "idle" /\ pc' = "idle" /\ UNCHANGED writing
    BY <1>4 DEF EmitResult
  <2>2. QED BY <2>1 DEF SInv
<1>5. CASE CycleKilled
  BY <1>5 DEF CycleKilled, Mishap, Exit, SInv, Fails
<1>6. CASE Tick \/ AggregateResults \/ BatchRaises \/ UNCHANGED vars
  <2>1. UNCHANGED <<status, file, odd, closed, pc, opts, drifts, writing, edited, exit>>
    BY <1>6 DEF Tick, AggregateResults, BatchRaises, vars
  <2>2. QED BY <1>0, <1>2, <2>1 DEF Fails
<1>8. NoOptions \in Options
  BY DEF NoOptions, Options
<1>9. CASE Step
  BY <1>9, StepSyncs
<1>10. CASE Outside
  <2>1. ASSUME NEW t \in Tasks, EditFile(t) PROVE Safe
    <3>1. UNCHANGED <<status, closed, pc, opts, drifts, writing, exit>>
      BY <2>1 DEF EditFile
    <3>2. /\ \A u \in Tasks : u # t => file'[u] = file[u] /\ (u \in odd' <=> u \in odd)
          /\ pc \in {"sync", "compare"} => edited' = edited \cup {t}
      BY <2>1 DEF EditFile, TypeOK
    <3>3. ASSUME pc \in {"sync", "compare"}
          PROVE  Ordinary' \subseteq Ordinary /\ \A u \in Ordinary' : file'[u] = file[u]
      BY <3>1, <3>2, <3>3 DEF Ordinary, Listed
    <3>4. ASSUME opts.sync = TRUE, pc = "sync", NEW w \in writing
          PROVE  \/ w.task \in edited'
                 \/ w.task \in odd' /\ w.odd = TRUE
                 \/ w.task \notin odd' /\ ~ w.odd /\ w.state = status[w.task]
      <4>1. \/ w.task \in edited
            \/ w.task \in odd /\ w.odd = TRUE
            \/ w.task \notin odd /\ ~ w.odd /\ w.state = status[w.task]
        BY <3>4 DEF SInv
      <4>2. w.task \in Tasks
        BY DEF TypeOK, Text
      <4>3. QED BY <3>2, <3>4, <4>1, <4>2
    <3>5. ASSUME opts.sync = TRUE, pc = "sync" PROVE SInv'
      BY <3>1, <3>3, <3>4, <3>5 DEF SInv, Listed
    <3>6. ASSUME opts.sync = TRUE, pc = "compare" PROVE SInv'
      <4>1. drifts \subseteq odd' \cup edited'
        BY <3>2, <3>6 DEF SInv, TypeOK
      <4>2. QED BY <3>1, <3>3, <3>6, <4>1 DEF SInv
    <3>7. SInv'
      BY <3>1, <3>5, <3>6 DEF SInv
    <3>8. QED BY <1>0, <3>1, <3>7 DEF Fails
  <2>2. ASSUME \/ \E t \in Tasks : StartWorker(t) \/ Beat(t) \/ Answer(t) \/ WorkerDies(t)
               \/ UserHolds
        PROVE  Safe
    <3>1. UNCHANGED <<status, file, odd, closed, pc, opts, drifts, writing, edited, exit>>
      BY <2>2 DEF StartWorker, Beat, Answer, WorkerDies, UserHolds
    <3>2. QED BY <1>0, <1>2, <3>1 DEF Fails
  <2>3. QED BY <1>10, <2>1, <2>2 DEF Outside, Crew
<1>11. QED
  BY <1>1, <1>3, <1>4, <1>5, <1>6, <1>8, <1>9, <1>10
     DEF Next, Drive, SessionStarts, BenchStarts, Over

(* Whatever drifted, and whatever stopped an earlier cycle half way:       *)
(* --sync-task-state-to-map leaves nothing for --strict-map-task-state to  *)
(* fail on, but files whose state line it does not hit and what is written *)
(* under the cycle.                                                        *)
THEOREM SyncingSuffices == Spec => SyncSuffices
<1>1. TypeOK /\ RInv /\ SInv /\ [Next]_vars => SInv'
  BY NextSyncs
<1>2. TypeOK /\ RInv /\ SInv /\ [Next]_vars
        => [opts.sync /\ pc \in {"sync", "compare"} /\ exit' = EXIT_ERROR =>
              \/ mishaps' = mishaps + 1
              \/ /\ odd \cup edited # {}
                 /\ \A t \in Listed \ (odd \cup edited) : file[t] = status[t]]_vars
  BY NextSyncs DEF Fails, Ordinary
<1>3. TypeOK /\ RInv /\ [Next]_vars => RInv'
  BY NextReports
<1>4. QED
  BY InitSyncs, InitReports, TypesHold, <1>1, <1>2, <1>3, PTL DEF Spec, SyncSuffices
=============================================================================
