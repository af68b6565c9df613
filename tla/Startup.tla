------------------------------- MODULE Startup -------------------------------
(***************************************************************************)
(* One cycle of orchestrate.py seen from its startup checks: heal the      *)
(* tasks whose worker shows no heartbeat, compare every task file's state  *)
(* line with MAP.md, bring them in line or give up, ask whether dispatch   *)
(* is held, and exit with a code.  Time is here, and the age of the        *)
(* heartbeat files.  What a cycle does after its startup is reduced to the *)
(* statuses it leaves and its exit code; Orchestrator has it write by      *)
(* write.                                                                  *)
(***************************************************************************)
EXTENDS ActionDecider

CONSTANTS
  Before,      \* MAP.md and the state lines as an earlier session left them
  Odd,         \* files whose state line _STATE_LINE_RE does not hit
  StaleAfter,  \* WORKER_HEARTBEAT_STALE_SECONDS, in ticks
  MaxMishaps   \* bound on kills, holds and edits of task files

ASSUME BeforeAssumption == Before \in [Tasks -> TaskState] /\ Odd \subseteq Tasks

VARIABLES
  status,   \* MAP.md: the status of every task
  file,     \* the state every task file parses to, or "torn"
  odd,      \* files whose state line _STATE_LINE_RE does not hit
  beat,     \* the age of every heartbeat file
  worker,   \* the worker of every task's last intent
  pulsed,   \* running workers that have written a heartbeat themselves
  hold,     \* what .checkpoint_pending and session_state.json say
  closed,   \* session_close.py has reset the project
  pc,       \* stage of the running cycle
  opts,     \* its command line
  stale,    \* tasks it found stale and has still to flip
  drifts,   \* tasks it found drifted and has still to rewrite
  writing,  \* the file it has read and is to write, rewritten
  fresh,    \* workers that were beating when it looked
  edited,   \* tasks whose file a worker wrote since it compared them
  exit,     \* exit code of the last cycle
  mishaps

disk == <<status, file, odd, closed>>
cycle == <<pc, opts, stale, drifts, writing, fresh, edited, exit>>
crew == <<beat, worker, pulsed, mishaps>>

EXIT_ALL_DONE == 0
EXIT_ACTION_TAKEN == 1
EXIT_WAITING == 2
EXIT_BLOCKED == 3
EXIT_ERROR == 4
EXIT_AUDIT_FAILED == 5
NoExit == 6

(* What a heartbeat file that is not there counts as.                      *)
NoFile == StaleAfter + 2

Options == [dry : BOOLEAN, sync : BOOLEAN, strict : BOOLEAN]

(* A task file as read and rewritten, before it is written.                *)
Text == [task : Tasks, state : TaskState \cup {"torn"}, odd : BOOLEAN]

NoOptions == [dry |-> FALSE, sync |-> FALSE, strict |-> FALSE]

TypeOK ==
  /\ status \in [Tasks -> TaskState]
  /\ file \in [Tasks -> TaskState \cup {"torn"}] /\ odd \subseteq Tasks
  /\ beat \in [Tasks -> 0 .. NoFile]
  /\ worker \in [Tasks -> {"none", "queued", "running", "dead", "ok", "error"}]
  /\ pulsed \subseteq {t \in Tasks : worker[t] = "running"}
  /\ hold \in {"no", "held", "malformed"} /\ closed \in BOOLEAN
  /\ pc \in {"idle", "heal", "compare", "sync", "read", "decide"}
  /\ opts \in Options
  /\ stale \subseteq Tasks /\ drifts \subseteq Tasks
  /\ writing \subseteq Text
  /\ fresh \subseteq Tasks /\ edited \subseteq Tasks
  /\ exit \in 0 .. 6 /\ mishaps \in 0 .. MaxMishaps

Init ==
  /\ status = Before /\ file = Before /\ odd = Odd
  /\ beat = [t \in Tasks |-> NoFile]
  /\ worker = [t \in Tasks |-> "none"]
  /\ pulsed = {} /\ hold = "no" /\ closed = FALSE
  /\ pc = "idle" /\ opts = NoOptions
  /\ stale = {} /\ drifts = {} /\ writing = {} /\ fresh = {} /\ edited = {}
  /\ exit = NoExit /\ mishaps = 0

(* Another workspace, as prepared for a benchmark instance.                *)
NewWorkspace ==
  /\ status' = Before /\ file' = Before /\ odd' = Odd
  /\ beat' = [t \in Tasks |-> NoFile]
  /\ worker' = [t \in Tasks |-> "none"]
  /\ pulsed' = {} /\ hold' = "no" /\ closed' = FALSE

(* A closed project's MAP.md lists no task.                                *)
Listed == IF closed THEN {} ELSE Tasks

Read == [t \in {u \in Listed : file[u] # "torn"} |-> status[t]]

(* The process ends.                                                       *)
Exit(code) ==
  /\ exit' = code /\ pc' = "idle" /\ opts' = NoOptions
  /\ stale' = {} /\ drifts' = {} /\ writing' = {} /\ fresh' = {} /\ edited' = {}

-----------------------------------------------------------------------------
(* Startup.                                                                *)

(* mutant: a heartbeat of the limit's age is stale already *)
StaleEarly(t) == beat[t] >= StaleAfter
(* mutant: a heartbeat that was never written is not stale *)
StaleIfWritten(t) == beat[t] > StaleAfter /\ beat[t] # NoFile

Stale(t) == beat[t] > StaleAfter

(* The options do not matter to healing, nor does a hold.                  *)
Start(o) ==
  /\ pc = "idle"
  /\ pc' = "heal" /\ opts' = o /\ exit' = NoExit
  /\ stale' = {t \in DOMAIN Read : status[t] = "IN_PROGRESS" /\ Stale(t)}
  /\ fresh' = pulsed
  /\ UNCHANGED <<disk, drifts, writing, edited, hold, crew>>

Heal(t) ==
  /\ pc = "heal" /\ t \in stale
  /\ status' = [status EXCEPT ![t] = "PENDING"]
  /\ stale' = stale \ {t}
  /\ UNCHANGED <<file, odd, closed, pc, opts, drifts, writing, fresh, edited, exit,
                 hold, crew>>

Drifts == {t \in Listed : file[t] # status[t]}

(* find_state_drifts: a task file that does not parse ends the cycle.      *)
FindFails ==
  /\ pc \in {"heal", "sync"} /\ stale = {} /\ (pc = "sync" => drifts = {})
  /\ \E t \in Listed : file[t] = "torn"
  /\ Exit(EXIT_ERROR)
  /\ UNCHANGED <<disk, hold, crew>>

CanFind ==
  /\ stale = {} /\ \A t \in Listed : file[t] # "torn"

FindDrifts ==
  /\ pc = "heal" /\ CanFind
  /\ drifts' = Drifts /\ edited' = {} /\ fresh' = {}
  /\ pc' = IF Drifts # {} /\ opts.sync THEN "sync" ELSE "compare"
  /\ UNCHANGED <<disk, opts, stale, writing, exit, hold, crew>>

(* mutant: the state line is looked for and not replaced *)
SyncedNot(t) == {file[t]}

(* What a drifted file may parse to once _rewrite_state_line has been over *)
(* it.  Its regular expression wants one unindented "state: value" line;   *)
(* of an indented key, a space before the colon or a repeated key it       *)
(* changes nothing, or a line the parser does not take the state from, and *)
(* of an empty value the next line goes with it.                           *)
Synced(t) ==
  IF file[t] = "torn" THEN {"torn"}
  ELSE IF t \in odd THEN {file[t], status[t], "torn"}
  ELSE {status[t]}

(* A file is read, and written if the rewriting changed anything.          *)
SyncRead(t) ==
  /\ pc = "sync" /\ writing = {} /\ t \in drifts
  /\ \E s \in Synced(t) :
       \/ writing' = {[task |-> t, state |-> s, odd |-> t \in odd]} /\ UNCHANGED drifts
       \/ s = file[t] /\ drifts' = drifts \ {t} /\ UNCHANGED writing
  /\ UNCHANGED <<disk, pc, opts, stale, fresh, edited, exit, hold, crew>>

Put(w) ==
  /\ file' = [file EXCEPT ![w.task] = w.state]
  /\ odd' = IF w.odd THEN odd \cup {w.task} ELSE odd \ {w.task}

(* What was written to the file since it was read is lost.                 *)
SyncWrite ==
  /\ pc = "sync"
  /\ \E w \in writing : Put(w) /\ drifts' = drifts \ {w.task}
  /\ writing' = {}
  /\ UNCHANGED <<status, closed, pc, opts, stale, fresh, edited, exit, hold, crew>>

FindAgain ==
  /\ pc = "sync" /\ drifts = {} /\ CanFind
  /\ drifts' = Drifts /\ pc' = "compare"
  /\ UNCHANGED <<disk, opts, stale, writing, fresh, edited, exit, hold, crew>>

StrictFails ==
  /\ pc = "compare" /\ drifts # {} /\ opts.strict
  /\ Exit(EXIT_ERROR)
  /\ UNCHANGED <<disk, hold, crew>>

StartupDone ==
  /\ pc = "compare" /\ ~ (drifts # {} /\ opts.strict)
  /\ pc' = "read" /\ drifts' = {} /\ edited' = {}
  /\ opts' = [NoOptions EXCEPT !.dry = opts.dry]
  /\ UNCHANGED <<disk, stale, writing, fresh, exit, hold, crew>>

-----------------------------------------------------------------------------
(* The rest of the cycle.  A session_state.json that is not valid raises.  *)

SkipHeld ==
  /\ pc \in {"read", "decide"} /\ hold # "no"
  /\ Exit(IF hold = "held" THEN EXIT_WAITING ELSE EXIT_ERROR)
  /\ UNCHANGED <<disk, hold, crew>>

Answered(t) ==
  t \in DOMAIN Read /\ status[t] = "IN_PROGRESS" /\ worker[t] \in {"ok", "error"}

Reviewed == {t \in DOMAIN Read : status[t] = "EXECUTING"}

(* What the two scanners may make of the tasks under review: all DONE, or  *)
(* each back in REVIEW, PENDING for a repair, or BLOCKED; or no answer yet.*)
Verdicts ==
  {[t \in Reviewed |-> "EXECUTING"], [t \in Reviewed |-> "DONE"]}
    \cup [Reviewed -> {"REVIEW", "PENDING", "BLOCKED"}]

ApplyResults ==
  /\ pc = "read" /\ hold = "no"
  /\ \/ opts.dry /\ UNCHANGED <<status, worker>>
     \/ /\ ~ opts.dry
        /\ \E v \in Verdicts :
             status' = [t \in Tasks |->
                          IF Answered(t) THEN IF worker[t] = "ok" THEN "REVIEW" ELSE "FAILED"
                          ELSE IF t \in Reviewed THEN v[t] ELSE status[t]]
        /\ worker' = [t \in Tasks |-> IF Answered(t) THEN "none" ELSE worker[t]]
  /\ pc' = "decide"
  /\ UNCHANGED <<file, odd, closed, opts, stale, drifts, writing, fresh, edited, exit,
                 hold, beat, pulsed, mishaps>>

Decision == Decide(Read, {})

(* A worker of an earlier dispatch that still runs, or has answered, is    *)
(* not replaced: its answer will count for the new one.                    *)
DispatchWave ==
  /\ pc = "decide" /\ hold = "no" /\ Decision.kind = "dispatch_wave"
  /\ \/ opts.dry /\ UNCHANGED <<status, worker>>
     \/ /\ ~ opts.dry
        /\ status' = [t \in Tasks |->
                        IF t \in Decision.tasks THEN "IN_PROGRESS" ELSE status[t]]
        /\ worker' = [t \in Tasks |->
                        IF t \in Decision.tasks /\ worker[t] \in {"none", "dead"}
                          THEN "queued" ELSE worker[t]]
  /\ Exit(EXIT_ACTION_TAKEN)
  /\ UNCHANGED <<file, odd, closed, hold, beat, pulsed, mishaps>>

DispatchAdvisor ==
  /\ pc = "decide" /\ hold = "no" /\ Decision.kind = "dispatch_advisor"
  /\ \/ opts.dry /\ UNCHANGED status
     \/ /\ ~ opts.dry
        /\ status' = [t \in Tasks |->
                        IF t \in Decision.tasks THEN "EXECUTING" ELSE status[t]]
  /\ Exit(EXIT_ACTION_TAKEN)
  /\ UNCHANGED <<file, odd, closed, hold, crew>>

(* The audits fail; or session_close.py fails, or is killed at its timeout *)
(* before or after it has reset the project; or the project is closed.     *)
AllDone ==
  /\ pc = "decide" /\ hold = "no" /\ Decision.kind = "all_done"
  /\ \/ opts.dry /\ Exit(EXIT_ALL_DONE) /\ UNCHANGED closed
     \/ ~ opts.dry /\ Exit(EXIT_AUDIT_FAILED) /\ UNCHANGED closed
     \/ ~ opts.dry /\ Exit(EXIT_ERROR) /\ closed' \in BOOLEAN
     \/ ~ opts.dry /\ Exit(EXIT_ALL_DONE) /\ closed' = TRUE
  /\ UNCHANGED <<status, file, odd, hold, crew>>

NothingToDo ==
  /\ pc = "decide" /\ hold = "no"
  /\ \/ Decision.kind = "error_no_tasks" /\ Exit(EXIT_ERROR)
     \/ Decision.kind = "escalate_blocked" /\ Exit(EXIT_BLOCKED)
     \/ Decision.kind = "waiting" /\ Exit(EXIT_WAITING)
  /\ UNCHANGED <<disk, hold, crew>>

Step ==
  \/ \E t \in Tasks : Heal(t) \/ SyncRead(t)
  \/ SyncWrite
  \/ FindFails \/ FindDrifts \/ FindAgain \/ StrictFails \/ StartupDone
  \/ SkipHeld \/ ApplyResults
  \/ DispatchWave \/ DispatchAdvisor \/ AllDone \/ NothingToDo

-----------------------------------------------------------------------------
(* The workers the Claude session runs, the user, and time.                *)

Mishap == mishaps < MaxMishaps /\ mishaps' = mishaps + 1

StartWorker(t) ==
  /\ worker[t] = "queued"
  /\ worker' = [worker EXCEPT ![t] = "running"]
  /\ UNCHANGED <<disk, hold, cycle, beat, pulsed, mishaps>>

(* write_heartbeat.                                                        *)
Beat(t) ==
  /\ worker[t] = "running"
  /\ beat' = [beat EXCEPT ![t] = 0]
  /\ pulsed' = pulsed \cup {t}
  /\ UNCHANGED <<disk, hold, cycle, worker, mishaps>>

(* A worker, a repair or a person writes the file, its state line with it, *)
(* however it looks, and may be seen half way.  EXECUTING stands for any   *)
(* state, one that agrees with MAP.md or does not.                         *)
EditFile(t) ==
  /\ ~ closed /\ Mishap
  /\ \/ file' = [file EXCEPT ![t] = "EXECUTING"] /\ odd' \in {odd \cup {t}, odd \ {t}}
     \/ file' = [file EXCEPT ![t] = "torn"] /\ UNCHANGED odd
  /\ edited' = IF pc \in {"sync", "compare"} THEN edited \cup {t} ELSE edited
  /\ UNCHANGED <<status, closed, hold, pc, opts, stale, drifts, writing, fresh, exit,
                 beat, worker, pulsed>>

Ends(t, how) ==
  /\ worker[t] = "running"
  /\ worker' = [worker EXCEPT ![t] = how]
  /\ pulsed' = pulsed \ {t}

Answer(t) ==
  /\ Ends(t, "ok") \/ Ends(t, "error")
  /\ UNCHANGED <<disk, hold, cycle, beat, mishaps>>

WorkerDies(t) ==
  /\ Mishap
  /\ Ends(t, "dead")
  /\ UNCHANGED <<disk, hold, cycle, beat>>

(* A checkpoint waits, the session is paused, has skipped a checkpoint, or *)
(* its state is not valid; or none of it any more.                         *)
UserHolds ==
  /\ Mishap
  /\ hold' \in {"no", "held", "malformed"} \ {hold}
  /\ UNCHANGED <<disk, cycle, beat, worker, pulsed>>

(* A worker that beats does so again before its heartbeat is too old.      *)
Grow(age) == IF age > StaleAfter THEN age ELSE age + 1

TimePasses ==
  /\ \A t \in pulsed : beat[t] < StaleAfter
  /\ beat' = [t \in Tasks |-> Grow(beat[t])]

Crew ==
  \E t \in Tasks :
    StartWorker(t) \/ Beat(t) \/ EditFile(t) \/ Answer(t) \/ WorkerDies(t)
=============================================================================
