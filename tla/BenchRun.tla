------------------------------ MODULE BenchRun ------------------------------
(***************************************************************************)
(* Who runs orchestrate.py: a Claude session, again and again with any     *)
(* options, or the benchmark (src/bench/run_one.py, src/bench/runner.py),  *)
(* which loops it without options for each instance until an exit code is  *)
(* final or the instance's time is up, and sums the instances up.          *)
(***************************************************************************)
EXTENDS Startup, Sequences

CONSTANTS
  Instances,   \* the instances of the manifest
  Deadline     \* BENCH_INSTANCE_TIMEOUT_SECONDS, in ticks

ASSUME LoopAssumption ==
  {StaleAfter, MaxMishaps, Instances, Deadline} \subseteq Nat

VARIABLES
  driver,      \* "session" or "bench"
  left,        \* ticks to the deadline of the instance
  has_retried,
  final,       \* exit code the loop of the instance ended with
  errors,      \* cycles of the instance that exited with EXIT_ERROR
  results,     \* of the instances so far
  batch        \* "running", "written" or "aborted"

loop == <<driver, left, has_retried, final, errors, results, batch>>
vars == <<disk, cycle, crew, hold, loop>>

LoopInit ==
  /\ Init
  /\ left = Deadline /\ has_retried = FALSE /\ final = NoExit /\ errors = 0
  /\ driver \in {"session", "bench"}
  /\ results = <<>> /\ batch = "running"

-----------------------------------------------------------------------------
(* The session may use any options; it is over when the project is closed. *)
SessionStarts ==
  /\ driver = "session" /\ ~ closed
  /\ \E o \in Options : Start(o)
  /\ UNCHANGED loop

Looping == driver = "bench" /\ batch = "running" /\ final = NoExit /\ Len(results) < Instances

(* mutant: the loop does not look at the time *)
TimeLeftAlways == TRUE

TimeLeft == left > 0

BenchStarts ==
  /\ Looping /\ exit = NoExit /\ TimeLeft
  /\ Start(NoOptions)
  /\ UNCHANGED loop

(* The loop looks at its own time only between two cycles.                 *)
TimeIsUp ==
  /\ Looping /\ pc = "idle" /\ exit = NoExit /\ ~ TimeLeft
  /\ final' = EXIT_BLOCKED
  /\ UNCHANGED <<disk, cycle, crew, hold, driver, left, has_retried, errors, results,
                 batch>>

RetryPolicy(code) ==
  IF code = EXIT_ALL_DONE THEN "pass"
  ELSE IF code = EXIT_ERROR THEN "retry_once"
  ELSE "fail"

Continues(code) ==
  \/ code \in {EXIT_ACTION_TAKEN, EXIT_WAITING}
  \/ RetryPolicy(code) = "retry_once" /\ ~ has_retried

ExitPolicy ==
  /\ Looping /\ exit # NoExit
  /\ exit' = NoExit
  /\ final' = IF Continues(exit) THEN NoExit ELSE exit
  /\ has_retried' = (has_retried \/ (exit = EXIT_ERROR /\ Continues(exit)))
  /\ errors' = IF exit = EXIT_ERROR THEN errors + 1 ELSE errors
  /\ UNCHANGED <<disk, pc, opts, stale, drifts, writing, fresh, edited, crew, hold,
                 driver, left, results, batch>>

(* A cycle killed at its timeout counts as BLOCKED, one that could not be  *)
(* started or waited for as an error.  A session's cycle just dies.  The   *)
(* kill may catch a task file half written, or session_close.py when it    *)
(* has reset the project.                                                  *)
CycleKilled ==
  /\ pc # "idle" /\ Mishap
  /\ \E code \in {EXIT_BLOCKED, EXIT_ERROR} : Exit(code)
  /\ \/ UNCHANGED file
     \/ \E w \in writing : file' = [file EXCEPT ![w.task] = "torn"]
  /\ \/ UNCHANGED closed
     \/ pc = "decide" /\ Decision.kind = "all_done" /\ ~ opts.dry /\ closed' = TRUE
  /\ UNCHANGED <<status, odd, hold, beat, worker, pulsed, loop>>

-----------------------------------------------------------------------------
(* The results.                                                            *)

(* mutant: every exit code that is not fatal passes *)
StatusLoose(code) == IF code \in {EXIT_BLOCKED, EXIT_AUDIT_FAILED} THEN "fail" ELSE "pass"

Status(code) == IF RetryPolicy(code) = "pass" THEN "pass" ELSE "fail"

Classified(code) ==
  IF RetryPolicy(code) = "retry_once" /\ Status(code) = "fail"
    THEN "retry_exhausted" ELSE Status(code)

(* One instance is summed up and the next one starts in a workspace of its *)
(* own.                                                                    *)
EmitResult ==
  /\ driver = "bench" /\ batch = "running" /\ final # NoExit /\ pc = "idle"
  /\ results' = Append(results,
       [status |-> Classified(final), closed |-> closed, errors |-> errors])
  /\ NewWorkspace
  /\ left' = Deadline /\ has_retried' = FALSE /\ final' = NoExit /\ errors' = 0
  /\ UNCHANGED <<cycle, mishaps, driver, batch>>

AggregateResults ==
  /\ driver = "bench" /\ batch = "running" /\ Len(results) = Instances
  /\ batch' = "written"
  /\ UNCHANGED <<disk, cycle, crew, hold, driver, left, has_retried, final, errors, results>>

(* Summing an instance up takes the lock of MAP.md and writes a file, as   *)
(* does the aggregate, and nobody catches what they raise: the batch ends  *)
(* with what it has.                                                       *)
BatchRaises ==
  /\ driver = "bench" /\ batch = "running"
  /\ (final # NoExit /\ pc = "idle") \/ Len(results) = Instances
  /\ batch' = "aborted"
  /\ UNCHANGED <<disk, cycle, crew, hold, driver, left, has_retried, final, errors, results>>

Tick ==
  /\ TimePasses
  /\ left' = IF driver = "bench" /\ left > 0 THEN left - 1 ELSE left
  /\ UNCHANGED <<disk, hold, cycle, worker, pulsed, mishaps, driver, has_retried,
                 final, errors, results, batch>>

Over ==
  /\ pc = "idle"
  /\ IF driver = "session" THEN closed ELSE batch # "running"
  /\ UNCHANGED vars

Drive ==
  \/ SessionStarts \/ BenchStarts \/ TimeIsUp \/ ExitPolicy
  \/ EmitResult \/ AggregateResults

Outside == Crew \/ UserHolds

Next ==
  \/ Drive \/ BatchRaises \/ CycleKilled \/ Tick \/ Over
  \/ (Step /\ UNCHANGED loop) \/ (Outside /\ UNCHANGED loop)

Spec == LoopInit /\ [][Next]_vars

(* The loop goes on and its cycles end, time passes, and a worker that     *)
(* beats keeps beating.  Nobody owes an answer, a hold or its end.         *)
FairSpec ==
  /\ Spec
  /\ WF_vars(Drive) /\ WF_vars(Step /\ UNCHANGED loop) /\ WF_vars(Tick)
  /\ \A t \in Tasks : WF_vars(t \in pulsed /\ Beat(t) /\ UNCHANGED loop)

-----------------------------------------------------------------------------
(* A worker that shows a heartbeat when a cycle looks for it is not given  *)
(* up by that cycle (_is_stale, _flip_one_task).                           *)
BeatingNotRestarted ==
  [][\A t \in Tasks :
       status[t] = "IN_PROGRESS" /\ status'[t] = "PENDING" => t \notin fresh]_vars

(* --sync-task-state-to-map is enough for --strict-map-task-state wherever *)
(* the state line has the form the sync looks for: a cycle with both that  *)
(* gives up was killed, or met a file of another form or one written under *)
(* it, and every other file agrees with MAP.md by then.                    *)
SyncSuffices ==
  [][opts.sync /\ pc \in {"sync", "compare"} /\ exit' = EXIT_ERROR =>
       \/ mishaps' = mishaps + 1
       \/ /\ odd \cup edited # {}
          /\ \A t \in Listed \ (odd \cup edited) : file[t] = status[t]]_vars

(* What the benchmark reports of an instance is what happened to it: a     *)
(* pass was closed by session_close.py, and retries are exhausted by the   *)
(* second failing cycle, not before and not later.                         *)
ResultsTrue ==
  \A i \in 1 .. Len(results) :
    /\ results[i].status = "pass" => results[i].closed
    /\ results[i].status = "retry_exhausted" <=> results[i].errors = 2
    /\ results[i].errors <= 2

(* A task whose worker died does not stay IN_PROGRESS, as long as its file *)
(* can be read and cycles are run, under whatever options, holds and       *)
(* drifts.                                                                 *)
DeadHealed ==
  \A t \in Tasks :
    status[t] = "IN_PROGRESS" /\ worker[t] = "dead" /\ file[t] # "torn"
      ~> \/ status[t] # "IN_PROGRESS" \/ file[t] = "torn"
         \/ closed \/ batch = "aborted"

(* A benchmark run ends, whatever its workers do or leave undone: with the *)
(* results of all its instances, or because summing one up raised.         *)
BatchEnds ==
  (driver = "bench")
    ~> (batch = "written" /\ Len(results) = Instances) \/ batch = "aborted"
=============================================================================
