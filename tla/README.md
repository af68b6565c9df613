# Verification of the FSM workflow orchestrator

TLA+ models, TLC runs and TLAPS proofs for the orchestrator in this repository: the dispatch
loop that drives a build plan through workers, paired bug scanners, an audit and a reset, with
all of its state in files. Paths below are relative to the repository root.

## 1. The system

A *session* builds a plan. The plan is `MAP.md` (a status per task) and one `task_NNN_*.md` per
task (frontmatter with `wave` and `depends`, and a `## Registers` section). `scripts/orchestrate.py`
runs **one cycle per invocation** and keeps nothing in memory between two; the Claude session
calls it in a loop, runs what it asks for as subagents, and leaves their answers on disk.

| part | state it keeps | operations | how it meets the others |
|---|---|---|---|
| Dispatch loop `scripts/orchestrate.py` | none between cycles | one cycle: heal, check for a hold, read, apply results, decide, act | reads and writes all files below |
| Decision cascade `src/fsm_core/action_decider.py` | none, pure | `decide_action` | called once per cycle on the task list just read |
| Session backend `claude_session_backend.py`, driver `scripts/claude_session_driver.py` | `.fsm-intents/`, `.fsm-results/`, `.fsm-results/applied/` | enqueue, list pending, write a result, read results, mark applied | the only channel between the loop and the session |
| Verdict parser `advisor_parser.py` | REVISE entries in the task files | parse a verdict, flag tasks, count rounds | used when a scanner pair is applied |
| Healing `auto_heal.py`, `worker_heartbeat.py` | `.fsm-worker-hb/` | put stale IN_PROGRESS tasks back to PENDING | first thing of every cycle |
| `map_io.py`, `map_lock.py` | `MAP.md`, `MAP.md.lock`, `MAP.md.tmp` | update one status under the lock | every status change |
| Reader `map_reader.py`, `frontmatter.py` | none | task list from `MAP.md` and frontmatter | skips tasks whose file is missing or unparseable |
| Audit gate and `scripts/session_close.py` | `.audit_clean` | audit, test, delete task files, reset `MAP.md` | after ALL_DONE |
| Checkpoints `session_state.py` | `.checkpoint_pending`, `session_state.json` | hold and resume dispatch | looked at twice per cycle |
| Drift checks `startup_checks.py` | none | compare the state lines of the task files with `MAP.md`, rewrite them | after healing, before a cycle looks for a hold |
| Planning `dag_waves.py` | none, pure | waves of a task list, or the tasks on a cycle | before the loop |
| Atomizer `scripts/atomize_task.py` | task files, `MAP.md` | split a task into a chain of sub-tasks, roll back | before the loop |
| Repository map `src/repo_map/` | `.claude/repo-map.json` | hooks before and after Read, Edit and Grep, at session start and stop | every tool call of an agent, its own process each |
| Benchmark `bench/` | workspaces, results | loop the script per instance, retry, classify, aggregate | a second driver of the loop, by its exit codes |
| `orchestrate_lock.py`, `wave_deterministic_gate.py`, `advisor_cache.py`, `trace.py` | small files of their own | a second lock, a gate, a cache, logging | no caller in the loop |
| Hooks `hooks/`, audit scripts, installer | none | gate edits and dispatches, static checks, copying | around the loop |

What is hard here is not any single function but the order of disk writes and of the actors that
make them: a cycle may stop between any two writes (killed, an exception, a lock timeout) and the
next starts from whatever is there; the session answers while a cycle runs, in any order; a
running worker may be given up on while its answer arrives; a scanner gate is answered by two
envelopes that become one decision; several processes may want `MAP.md`; and a gate that was
passed once is remembered by a file that knows nothing of what it was passed by.

Correct means, by part:

* dispatch: a task starts only on satisfied dependencies; but for workers that startup gave up, it
  has at most one dispatch alive, and no worker runs in a wave under review;
* gates: DONE only on two APPROVEs given after the task's last dispatch; every gate is acted upon;
  no task is left in one; BLOCKED only after all repair rounds, and DONE and BLOCKED are final;
* updates of `MAP.md`: exclusive, none lost, every call ends;
* closing: only when all is DONE and the code passes audits and tests *now*; nothing is carried
  into the next session and what is done can be closed;
* healing: a worker that shows a heartbeat is left alone, one that died is not waited for for ever;
* planning: waves layer the dependencies, splitting a task keeps them, a call that fails leaves
  nothing behind and no step of a program is ever lost;
* the repository map tells no agent anything stale, nor that it has read what it has not;
* a benchmark ends and reports what happened.

## 2. Modules

| module | models | state and actions against the code |
|---|---|---|
| `ActionDecider` | `action_decider.py` | operators on a function `st` from tasks to statuses. `Decide` is the cascade in its order; `GateReached`, `Checkpoint`, `DepsSatisfied`, `Ready`, `EveryDone` are its rules. |
| `Orchestrator` | one cycle of `orchestrate.py`, the session backend, healing, the reader, the session | see below |
| `ReviewPipeline` | what the loop promises of its tasks | a wave is started, put under review and judged in one step each; `stage`, `rounds`, `gates`, `votes` |
| `MapLock` | `map_lock.py` and `update_map_status` | one step per file operation, each of which may fail; any number of processes |
| `AtomicMap` | what callers rely on | each update reaches `MAP.md` in one step and is never undone |
| `AtomicClose` | what the session relies on at its end | from all DONE and clean to closed in one step |
| `SessionClose` | audit gate and `session_close.py` | one step per script, file deleted, reset; any number of processes, some of which outlive their parent |
| `ReviseRegister` | `_flag_one_for_revise` on the text of a task file | the file is a sequence of lines by kind |
| `Startup` | a cycle seen from its startup checks: `auto_heal.py`, `startup_checks.py`, options, holds, exit codes; heartbeats with ages | one step per flip and per task file read and written, the rest of the cycle by the statuses it leaves |
| `BenchRun` | who loops the cycle: a session, or `bench/run_one.py` and `bench/runner.py` | one step per cycle started, exit code looked at, instance summed up, aggregate written |
| `Atomizer` | `atomize_task.py` | one step per file written, failing and rolled-back calls |
| `RepoMap` | `src/repo_map/` and its hooks | one step per load, text read, stat and save of each hook |
| `Waves` | `dag_waves.py` | one step per wave peeled and node popped |
| `MCOrchestrator`, `MCReviseRegister`, `MCBenchRun`, `MCRepoMap` | instances for TLC | plans, task files, guidance, symmetry |
| `Orchestrator_proofs`, `MapLock_proofs`, `SessionClose_proofs`, `ReviseRegister_proofs`, `RepoMap_proofs`, `Waves_proofs`, `Atomizer_proofs`, `BenchRun_proofs` | theorems | section 5 |

`Orchestrator` EXTENDS `ActionDecider`. `Orchestrator` takes `update_map_status` as one atomic write
of one status (`WriteFlip`); that this is right is what `MapLock` checks and proves against
`AtomicMap`, and where it is not, section 4 says so. `Orchestrator` counts REVISE rounds as a number
per task; `ReviseRegister` shows when the file text is such a counter. `Orchestrator` ends in
`CloseSession`, one step; `SessionClose` is that step in detail, with the loop before it reduced to
tasks that become DONE, and is shown to implement `AtomicClose` where nothing of what section 4 lists
gets in between. `Orchestrator` implements `ReviewPipeline`: while it flips one status, writes one
entry or one intent after another, a reader of the pipeline sees the whole wave move at once.
`BenchRun` EXTENDS `Startup`, which EXTENDS `ActionDecider`: the same decisions as in `Orchestrator`,
with verdicts and answers reduced to what they make of the statuses, so that time, options and exit
codes can be looked at instead. In `Orchestrator` the startup checks are steps that change no file but
by healing (`HealStale`, `StatesCompared`, `StartupFails`). `Waves` and `Atomizer` prepare the plan
the loop starts from.

**The cycle.** `pc` is its stage: `idle`, `check` (startup healing done), `workers`
(`_apply_single_results`), `pairs` (`_apply_pair_groups`), `decide`, `act`, `close`. A stage never
changes files itself: it sets `work`, the writes it is about to make — flips to one status, REVISE
flags, envelopes, results to move — and `Write` makes them one at a time in the code's order. So
`Crash` between any two steps is a crash between any two writes. `snap` is the task list as read,
`pend` the results as read, `dirty` whether any was applied. `Exit` forgets all of these, as the
process does. The session (`SessionAnswers`), the user (`UserHolds`) and in-place edits of task
files (`TaskFileEdited`) interleave with every step.

Abstractions: task lists are sets (no rule looks at the order); an envelope is a record of what the
loop reads back; stdout is a verdict with the tasks it names and the form it names them in; which
heartbeats are stale is any subset of the running tasks, and `heals` counts how often each was given
up; the uuid of an intent is a number. The
confirmation flag of a task is never seen by the cascade because `_build_pipeline_state` does not
copy it (`ConfirmSeen`). VERIFY and PARTIAL, legal in `MAP.md`, are written by no part of the loop
and matched by no rule, and are left out; so is the legacy single-advisor path
(`_apply_advisor_result`), for which nothing enqueues an intent any more.

**The lock.** `lock` is the pid in the lockfile, `stale` whether it has aged beyond
`stale_lock_seconds`; testing staleness and unlinking are two steps, and unlinking removes whatever
file has the name by then, as `os.unlink` does. After an exception the handler unlinks, and the
`finally` clause again. `tmp` is the one `MAP.md.tmp` all share. `AcquireRaises` is an OS error of
the open, of the write of the pid - after which the file is there and stays - or of the stat;
`UnlinkFails` one of an unlink, which is logged and the call goes on. `failed` remembers whose own
lockfile that left. `Ages`, `MayRaise`, `MayCrash` and `OSErrors` switch the faults.

**The close.** `passes` and `green` are the verdicts the audit scripts and the tests would give of the
code on disk now; workers (`FinishTask`) and repairs change them, the scripts do not. `todo[p]` is the
list of files a process took when it started to delete; a file another process deleted first is
skipped or, in the window between `is_file` and `unlink`, ends the script. The audit runs under
`map_lock` for far longer than `stale_lock_seconds`, so its lockfile may be taken over at any moment:
`TakeLock` lets a second process in, or lets its call time out. `Seen` is what the reader makes of
`MAP.md`: a task without a file, or with one that does not parse (`torn`), is dropped, and the rest
may then be all there is. When `orchestrate.py` is killed its `session_close.py` goes on (`Orphaned`
moves it to a place of its own), beside the cycles and the session that follow; `Killed` is the end of
either script. Three histories tell how a close can go wrong without any mistake in the order of its
steps: `edited` (the code was last changed while a sentinel stood for it or a close was past its
gate), `overtaken` (a session was planned before a close of the one before it was over) and `dropped`
(the unfinished tasks a close of this session did not see). The properties name them as exceptions.

**The registers.** `ReadRegisters` ends at the first `##` anywhere, `AppendReviseEntry` before the
next *line* that begins with `##`: the lines "revise##" and "inline" are those where the two differ.
Guidance that has one of them where it is read back (`Cuts`) ends the section for the reader and not
for the writer. `bug-scanner.md:30` has the scanner's report begin with the heading `## Bug Scan`, so
such guidance is the documented case. `cut` is the round that brought the first of them.

**Startup and its drivers.** `Start` is the scan of `_scan_stale`, `Heal` one flip, `FindDrifts`,
`SyncRead`, `SyncWrite` and `FindAgain` are `_run_startup_checks`. `_rewrite_state_line` wants one
unindented `state: value` line, the parser takes others too (an indented or repeated key, `state :`,
an empty value); files that have such a line are in `odd`, and of one of them the sync may make
anything from no change to a file that does not parse (`Synced`). Workers may write a file between its
read and its write, and a kill may leave it half written. A heartbeat is an age, capped one tick above
the limit; a missing file counts as the oldest (`NoFile`), as `_is_stale` has it. `pulsed` are the
running workers that beat: they promise to do so before the limit, so time waits for them
(`TimePasses`). `EditFile` is a worker's or a person's write to a task file at any moment, its state
line or half a file. `exit` is the process's exit code; `ExitPolicy` is what `run_one.py` makes of it.
A cycle that is killed while `session_close.py` runs may leave the project closed (`CycleKilled`).
`EmitResult` sums an instance up; that takes the lock of `MAP.md` and writes a file, as does
`AggregateResults`, and what they raise nobody catches: `BatchRaises` ends the batch.

**The atomizer.** A task file is the list of what it depends on, a program the number of its steps.
Sub-task `i` of `t` is `<<t, i>>`. `request` is the order of the command line; the four steps that
may raise are in `Faults`; a call that failed or was killed is repeated as it was. The two loops of
the rollback are a step each, which a kill may cut short after any file (`CutShort`). `MAP.md` spells
references in two ways (`short`), and each is rewritten by a pattern of its own.

**The repository map.** The content of a file is the time of its last change, which is its mtime
too. `call[c].map` is the copy a hook process loaded; it is saved whole. `context` is the truth
`agent_seen` claims to know: the lines of the present content the agent has read. `raced` marks
files that changed between the two halves of a hook's work, for which nothing can be promised. The
hooks that clear `agent_seen` load and save as well (`Stop`, `SessionStart`, `SaveCleared`), and what
other hooks save in between is lost or brought back; `Stop` may run beside tool calls of agents in the
background, a session's first hook runs before its first call.

**Waves.** The graph is any function from listed tasks to dependencies, unknown ones and self-loops
included. `probe` is one depth-first search; the order in which Python's sets are visited is open.

## 3. Runs that pass

Small instances suffice because every rule looks at one wave, one gate and pairs of tasks: two
tasks are the least with a dependency, a sharded pair and a flagged and an unflagged one; the third
is there for a second wave. One REVISE round shows counting, over-counting and the limit. The
bounds `MaxIntents`, `MaxHeals` (per task), `MaxErrors`, `MaxCrashes` stop only unbounded counters; a
dispatch beyond `MaxIntents` ends its cycle without a write, and in the liveness run the bound is
larger than what the other bounds let a behaviour use, otherwise it would fail. What a bound on heals
and errors would hide from a liveness property is a condition of the property instead: `Settles` says
itself that healing stops and that no worker fails.

| run | instance | shows |
|---|---|---|
| `Orchestrator_core` | two dependent tasks, a REVISE round, a task file that breaks and mends at any time | `ReviewsAreAtomic`, `DoneIsReviewed`, `NoneStranded`, `BlockedAfterRounds`, `FinalIsFinal` |
| `Orchestrator_faults` | three tasks in two waves, two side by side and one building on the first; a REVISE round, a crash anywhere, a stale heartbeat of every task, holds | `DispatchRespectsDeps` across waves (within one: the theorem `DispatchIsSafe`), `ReviewIsolation`, `OneLiveDispatch`, `ClosedMeansDone` |
| `Orchestrator_live` | two dependent tasks, a heal of each and a failing exit code, no repair round left, fair session | `GatesOpen`, `Settles` |
| `MapLock_core` | three processes, kills, OS errors | `TypeOK`, `Mutex`, `AtomicUpdates` |
| `MapLock_faults` | ... with stale lockfiles and exceptions, fair processes | `CallsEnd`, `NoLockLeft` |
| `SessionClose_core` | two places for a close, one of them also for an orphan, two sessions of one or two tasks, one file that may not parse, a repair, a kill | `OnlyDoneDeleted`, `ClosedCodeIsClean`, `ClosesAtomically`, `NothingCarriedOver`, `StillClosable`, `SessionsClose`, each with the exceptions it names |
| `ReviseRegister_all` | three layouts of the file, nine shapes of guidance, headed ones among them, three rounds | `RoundsLimited`, `NothingLost` |
| `Atomizer_faults` | every plan of three tasks, programs of up to three steps (two are allowed), every request, two calls, all four faults, kills between any two writes of a call or its rollback | `TypeOK`, `OrderKept`, `MapAgrees`, `FailureUndone`, `NoStepLost` |
| `RepoMap_parallel` | two files, one of them large, two tool calls at a time or one and a clearing hook, a change of a file by anyone | `StampVouches`, `SeenIsTrue`, `AnswersAreTrue` |
| `Waves_all` | every dependency relation over up to three tasks, unknown dependencies included | `WavesLayered`, `CyclesNamed`, `AlwaysReturns` |
| `BenchRun_all` | two tasks, one already DONE and with a state line the sync does not hit, two mishaps (a death, a kill, an edit, a hold), a benchmark of two instances that may be aborted or a session with all options | `BeatingNotRestarted`, `SyncSuffices`, `ResultsTrue`, `DeadHealed`, `BatchEnds` |

The largest, `Orchestrator_faults`, has about 6 million states, `RepoMap_parallel` 3.2 million,
`Orchestrator_core` 1.8 million, `Atomizer_faults` 1.5 million.

Why these bounds: a sidecar is lost or brought back by two hooks, one copy older than the other, and
a third would only repeat that; one change tells an old content from a new one; three tasks are the
least with a chain through a split task and a task beside it, and the least graph with a cycle and a
task that leads into it; the limit of sub-tasks is one below the longest program. Two mishaps let a
worker die and a cycle be killed, or a file break and mend; a second error after a retry is the
second failing cycle; a second instance shows that nothing is carried over. A second session is
what a close of the first can overtake, and one orphan beside one close is two that delete.

The type invariants of `Orchestrator`, `SessionClose`, `RepoMap`, `Waves` and `Startup` are stated in
the modules and proved (section 5); no run lists them, the other properties read the same variables.
`ReviseRegister` states none: what its variables hold is part of `CInv` in its proofs.

Deadlock is checked except where the program ends: `Atomizer_faults` (calls are used up) and
`Waves_all` (the function returns). A closed session, ended calls, a cycle with nothing to do, a
finished benchmark and a blocked task stutter explicitly. Each property has a mutant of the code it is
about (an operator next to the definition it mutates, marked `mutant`) under which the same run fails.

**Fairness.** `Orchestrator`: weak fairness of `Write \/ Cycle` (the session loops the script, and a
running process goes on) and of `Session` (it answers what is listed, some day); crashes, heals,
holds and edits are owed by nobody and bounded. `MapLock`: each caller is a running process, weak
fairness of its steps; nothing makes a lockfile age. `SessionClose`: processes step, orphans too,
and tasks end; repairs are not owed, so `SessionsClose` is conditional on code that ends up passing
everything and on files that end up parsing.
`BenchRun`: the driver goes on, a running cycle goes on, time passes, and a worker that has started
to beat keeps beating - each weakly fair; nobody owes an answer, a hold or its end, and mishaps are
bounded. `Waves`: the function runs.

## 4. Where code and documentation disagree

One run ends in a violation, a disagreement between what the repository says and what the code does,
with TLC's trace: `Orchestrator_half_pair` violates `DoneIsReviewed`. A cycle stops between the two
renames of an applied pair; the other half joins a later gate's answer and a task is DONE on one
fresh APPROVE (`orchestrate.py:436-438`), where `README.md:181` says that both must approve.

More of them were met while modelling. They have no run of their own: the named passing run ends in the
trace when its `.cfg`, or the property, is changed as the row says. Where a property has an exception,
the row without it shows what the exception is for.

| property | change | what happens | where |
|---|---|---|---|
| `NoneStranded` | `Orchestrator_core`, `ExplicitLines = {TRUE, FALSE}` | two REVISEs, one with a `FAILING TASKS:` line, one in free text: a task only the second names stays EXECUTING, though `fsm-workflow-phases.md:41` says the union is flagged | `orchestrate.py:383-402`, `advisor_parser.py:71-76` |
| `ReviewIsolation` without `crashes = 0 =>` | `Orchestrator_faults`, `MaxHeals = 0`, `MaxIntents = 10` | a half of a pair left by a crash joins the next gate's answer of the same index; the two halves cover one shard, so of the wave one task goes on in EXECUTING while the other is dispatched again | `orchestrate.py:426-439` |
| `ReviewIsolation` with `AtWork(u) = {}` | `Orchestrator_faults`, `MaxCrashes = 0` | the startup healing gives up a worker that is at work; its successor's answer opens the gate, and the scanners read files the first still writes | `auto_heal.py:53` |
| `FinalIsFinal`, `BlockedAfterRounds` | `Orchestrator_core`, `ReAnswer = TRUE`, `Breakable = {}` | applied intents are listed as pending; answered again, they revive DONE and BLOCKED tasks and use up repairs | `claude_session_backend.py:187-199` |
| `Mutex` | `MapLock_core`, `Ages = "dead"` | two waiters reclaim one stale lockfile, the second the first's new one | `map_lock.py:119-121` |
| `RoundsLimited` with `rounds` for `counted` | `ReviseRegister_all` | guidance that begins with a heading, as `bug-scanner.md:30` has it, hides all later entries: the task is repaired for ever and never BLOCKED, where `README.md:181` and `fsm-workflow-phases.md:27` allow three rounds | `orchestrate.py:820` |
| `NoneStranded` | `Orchestrator_core`, `MaxCrashes = 1` | crash between EXECUTING and the intents: no intent, no heal, no rule touches the tasks again | `orchestrate.py:754-757` |
| `BlockedAfterRounds` without `+ crashes` | `Orchestrator_core`, `MaxCrashes = 1` | crash after a REVISE entry: the same verdict counts twice; that it costs no more than that is the theorem `CrashesCostARound` | `orchestrate.py:789-803` |
| `AnsweredNotRestarted` | `Orchestrator_core`, `MaxHeals = 1` | healing runs before results are applied and takes a missing heartbeat for a stale one; nothing but tests writes heartbeats | `auto_heal.py:53`, `orchestrate.py:254` |
| `HeldIsNoOp` | `Orchestrator_faults` | a held cycle still heals | `orchestrate.py:250-256` |
| `ClosedMeansDone` for all `Tasks` | `Orchestrator_core`, added to its invariants | a task file that does not parse is dropped and the rest closed | `map_reader.py:72-75` |
| `Settles` without `NobodyFails` | `Orchestrator_live` | a FAILED task: no rule names it, its wave never reaches its gate, the loop goes on for ever with nothing to do | `action_decider.py:127` |
| `AtomicUpdates` | `MapLock_core`, `MayRaise = TRUE` | an exception releases twice and removes another's lock | `map_lock.py:106-110` |
| `ClosedCodeIsClean` without `~ edited` | `SessionClose_core` | `.audit_clean` outlives the code it was given for | `orchestrate.py:640` |
| `NothingCarriedOver` without `NoKill` | `SessionClose_core` | stop between reset and sentinel: the next session is not audited | `session_close.py:110-112` |
| `StillClosable` without `NoKill` | `SessionClose_core` | stop between deletion and reset: `error_no_tasks` for ever | `session_close.py:110-112` |
| `OnlyDoneDeleted` without `dropped` | `SessionClose_core` | the file of an unfinished task does not parse, the task is dropped, the others are DONE: its file is deleted with theirs | `map_reader.py:73-75`, `session_close.py:78` |
| `OnlyDoneDeleted` without `~ overtaken` | `SessionClose_core` | a close that is slow, or whose parent was killed at its timeout, deletes the next session's task files | `session_close.py:76-82`, `run_one.py:154` |
| `RoundsLimited` | `ReviseRegister_all`, `Guidance <- QuotingGuidance` | guidance that quotes an entry is counted | `advisor_parser.py:46-49` |
| `OrderKept` without `InOrder` | `Atomizer_faults` | a task that comes before what it depends on, or is not in the request, keeps the id of a parent that is gone and is never ready; `fsm-workflow-phases.md:59` says references are rewritten | `atomize_task.py:477` |
| `OrderKept` | `Atomizer_faults`, `Verbatim = {}` | a `depends:` line spelled in another way than `[a, b]` is not rewritten, silently | `atomize_task.py:461-465` |
| `FailureUndone` without its exception | `Atomizer_faults` | a failure among a task's own sub-task files leaves them behind, and every retry ends in "already exist" | `atomize_task.py:324`, `:558` |
| `NoStepLost` without its exception | `Atomizer_faults` | a rollback removes the sub-tasks before it restores the parents: killed in between, both are gone | `atomize_task.py:587-594` |
| `StampVouches` without `raced` | `RepoMap_parallel` | the mtime is taken after the text was read: an old index may carry the new mtime | `indexer.py:48-55` |
| `ResultsTrue` with `closed <=> pass` | `BenchRun_all` | a cycle is killed at its timeout while its close resets `MAP.md`: a closed project is reported as anything but a pass | `run_one.py:154`, `orchestrate.py:626` |
| `SyncSuffices` without `odd` | `BenchRun_all` | the sync's regular expression misses the state line that the parser reads: the file is written back as it was and the cycle ends with the drift it was asked to mend | `startup_checks.py:54-59` |
| `BatchEnds` without `batch = "aborted"` | `BenchRun_all` | summing an instance up takes the lock of `MAP.md` and writes a file; what they raise ends the batch, and no aggregate is written for the instances before it | `run_one.py:60`, `runner.py:41-46` |

These bound what the passing runs may assume: `DoneIsReviewed`, `NoneStranded` and `ReviewsAreAtomic`
are checked without crashes, and so is `BlockedAfterRounds`, whose crashes are left to the theorem;
`FinalIsFinal` with one answer to each intent; `Mutex` and `AtomicUpdates` without stale lockfiles and
without a body that raises. There the assumption is a constant of the module. All else is an exception
that the property itself states, over steps the run does take: a crash or a heal in `ReviewIsolation`
and `OneLiveDispatch`, a file that does not parse, a change of the code, a second session or a kill in
those of `SessionClose`, guidance with a heading in `RoundsLimited`, an odd file in `SyncSuffices`.

Three more are visible without a trace. `write_heartbeat` has no caller but its tests: with the
code as it is every running task is stale at every cycle, `auto_heal.py` restarts it, and a benchmark
dispatches it again and again (`README.md:201` speaks of a heartbeat timeout). `Settles` therefore
promises an end only if `HealingStops`, which in the run is so by the bound `MaxHeals`. `Beat` stands
for workers that do call it, and `BeatingNotRestarted` promises nothing to those that have not yet.
`has_user_confirmation` is not copied into the pipeline state, so the wave checkpoint of
`fsm-workflow-phases.md:27` is never written. And a Python traceback before `main`'s `try`, as an
import error, exits with 1, which is EXIT_ACTION_TAKEN: the benchmark loops on it to its deadline.

## 5. Theorems

Checked by `tlapm`, for every plan, number of processes and bound that the modules' ASSUMEs allow.

The constants' ASSUMEs are what the code and a plan give: types and bounds, a finite task list, `None`
is not an index, `Before` is a status per task. What a theorem needs beyond them stands in its ASSUME,
and section 4 or the entry below shows for each such hypothesis what happens without it. Every
property of a run is stated by a theorem but the liveness properties.

**`Orchestrator_proofs`.**
* `TypesHold`: `Spec => []TypeOK`. The range `0 .. MaxReviseRounds` of `regs` is the part with
  content: the limit is compared before an entry is written.
* `DispatchIsSafe`: `Spec => DispatchRespectsDeps`, with crashes, heals, holds, re-answered intents
  and unreadable files all allowed. A dispatch is decided on `snap` and written later, so the
  invariant `DInv` has to carry the decision to the write: `ListInSync` (until a result is applied,
  what the list says of a task is what `MAP.md` says), `DecidesInSync` (a decision is taken on a list
  in sync, with nothing left to write), `StartsOnlyInAct` and `StartsStartable` (the flips to
  IN_PROGRESS still to be made are of PENDING tasks with satisfied dependencies; each flip changes
  no status that another's dependencies look at, because a started task was PENDING and satisfies
  nobody's dependency).
* `ClosesOnlyWhenDone`: `Spec => []ClosedMeansDone`, likewise with everything allowed; the property
  itself leaves out the tasks whose file may not parse. `CInv` adds that the others are all on the list
  and that nothing is written between the decision and the close.

The rest of the module but its last theorem is under `Orderly`: no cycle is cut off (`MaxCrashes = 0`)
and the session answers an intent once (`ReAnswer = FALSE`). Heals, holds, errors and unreadable files
are allowed.
* `DoneOnlyReviewed`, `BlockedOnlyAfterRounds`, `FinalStaysFinal`: `DoneIsReviewed`,
  `BlockedAfterRounds` and `FinalIsFinal`, from one invariant `RInv`. Its heart is that gates do not
  mix although an envelope is only paired with another by its key: `OneGate` (a task is in one gate
  of at most two live intents), `UnderReview` (what a live gate covers is EXECUTING and no write is
  about to change that) and `GateDrafts` (the intents about to be written are the only ones of their
  tasks), kept by `LegalMoves` (each flip still to be made is a legal move of its task *now*, not of
  the list it was decided on) and `ListAged` (how far a list may be behind what the cycle wrote).
  `PairWork` ties the writes of a pair to its two envelopes, and `AnsweredOnce` an envelope to its
  intent, so that an APPROVE is used once; `Numbered` makes "after the last dispatch" an order.
* `NobodyStranded`: without `FAILING TASKS:` lines in the guidance (`ExplicitLines \subseteq {FALSE}`),
  `NoneStranded`. `SInv` adds what becomes of every task of a gate being applied.
* `OneWorkerAtATime`: `OneLiveDispatch`, with any number of heals. `Account` counts: a task waits for
  one answer per worker given up, and for one more only while `MAP.md` says that it is being worked on.
* `ReviewIsolated`: without `FAILING TASKS:` lines, `ReviewIsolation`, heals and unreadable files
  included. `WaveRests`: a gate is only decided when of its wave all tasks whose file always parses are
  at rest, and nothing of that wave is started while it is out; what is still at work there is, by
  `Account`, a worker that was given up.
* `LoopIsPipeline`: without `FAILING TASKS:` lines, `Spec => ReviewsAreAtomic`, that is, `Orchestrator`
  implements `ReviewPipeline`. The refinement mapping looks ahead by the writes a stage has planned:
  `StageOf` and `RoundsOf` are the status and the rounds of a task once the cycle's writes are made,
  `OpenGates` the gates whose intents are out or about to be, minus those being applied, and
  `CastVotes` the answers to them not yet applied. So the step that plans the writes is the step of
  the pipeline and each `Write` is a stutter (`PipeFlip`, `PipeFlag`, `PipeIntent`, `PipeMark`).
  It takes all that was proved before: `DInv` for what is started, `RInv` for gates that do not mix,
  `SInv` for the tasks flagged by the union of two verdicts being those sent back, and `OneWorker`, or
  else a heal, for a task that is answered once. Error results, any number of tasks and rounds, and
  heals, which the run's instance does not have, are covered.
* `CrashesCostARound`: `BlockedAfterRounds` with any number of crashes between any two writes, and with
  heals, holds, errors and unreadable files, if no answer is repeated and guidance is free text. `RInv`
  is lost there: a half of a pair that a crash leaves joins the next gate, and two whole gates of one
  task may be out at once. What remains is an account. `Cost(t)` counts two for each round a task has
  used, one for each review of it that is out or promised, and two for a task that was dispatched and is
  not in a gate yet (`Weight`); a worker's intent brings in two, and so does a crash. `PaidFor` says
  that the cost never exceeds this income: opening a gate turns the two of the task into two reviews, and
  judging it turns two reviews into a round, whichever gates the two are from. `Insured` bounds what
  stands on disk and what the planned writes will yet add (`CostOnDisk`, `Ahead`) by the income and two,
  so at any write the cycle may stop and the crash pays for it. `Booked` has the facts about envelopes
  that still hold. A BLOCKED task has used all its rounds and been reviewed once more, which is the bound.
  With `FAILING TASKS:` lines a task may be put back to REVIEW and flagged in one stage, so that a crash
  in between loses two rounds: with three gates, the first of them judged three times after two such
  crashes, and the file of another task that at times does not parse, a task is BLOCKED with two
  dispatches and two crashes where `MaxReviseRounds = 4`.

**`MapLock_proofs`.**
* `TypesHold`, with all faults.
* `WhoLeavesLocks`: `Spec => []NoLockLeft`, with all faults, failed writes and unlinks included.
  `Held`: whoever the lockfile names has still to unlink it, is dead, or could not write or unlink it.
* `LockExcludes` and `UpdatesAreAtomic`: while no lockfile ages and no body raises — kills and errors
  of the operating system are allowed —
  the lock excludes and `MapLock` refines `AtomicMap`. `IInv` says that a process in the body owns
  the lockfile, that the paths only a fault leads to are not taken, and that what a process has read
  is still what `MAP.md` holds; it is the last part, inductive only with the first, that makes a
  replacement a single `Commit`.

**`SessionClose_proofs`**, for any plan and any number of processes, orphans, sessions, repairs and
kills. Nothing is assumed: what a property needs, it says itself, and section 4 has a row for each of
these exceptions.
* `TypesHold`.
* `KeepsWork`: `Spec => OnlyDoneDeleted`. `OwnSession` carries what was seen DONE at the decision, and
  what was dropped there, through audit and tests to the deletion, whoever deletes.
* `VerdictsAgeByEdits`: `Spec => ClosedCodeIsClean`. `Judged`: while the code is not changed behind a
  verdict, a sentinel and every step past an audit or the tests stand for the code as it is, whichever
  process or session got them there and whatever was killed.
* `LeavesNothing` and `CanClose`: `NothingCarriedOver` and `StillClosable`. Several closers delete the
  same files, each may be ended by a file that another has just removed, and yet one gets through: by
  `InOrder` (files go in one order) and `Ahead` the closer that is ahead of all the others holds on its
  list exactly the files that are left, and so cannot fail. `GreenBehind` says that those who come
  after it find the code as green as it did, and `SentinelGoing` names, for a sentinel without a
  session, a process that will remove it. All this is `MInv`, as long as nothing was killed and no
  close has run into the next session (`Undisturbed`).
* `CloseIsAtomic`: `SessionClose` implements `AtomicClose` as long as it is `Undisturbed`, every task
  was seen and the code stays as it was judged. The abstract `Close` is the green test run after which
  the first process deletes: from there to the last reset the session is mapped to none (`Deleting`).
  It takes the three invariants together: behind that step nothing is planned or worked on, and a
  process about to fail on a file that is gone is not the last that deletes.

**`ReviseRegister_proofs`**, for files, guidance, limits and numbers of flags of any size.
* `RepairsLimited`: `Spec => []RoundsLimited`, if `NothingFaked`: sections have no entries to begin
  with, and guidance shows nothing that looks like an entry where it would be read back. Guidance with
  headings is allowed, and `RoundsLimited` says up to which round it is counted. `CInv` is that the
  number of entries read back equals `rounds`, or `cut` once guidance has cut what is read. Its step is
  a bijection between the indices of the entries before and after: those in front of the inserted lines
  stay, those behind move by their number, and one is new (`FirstAfter` is the CHOSEn end of the
  section), unless the section was cut before.
* `EntriesLoseNothing`: `Spec => NothingLost` without any assumption: in each of the three branches of
  `_append_revise_entry` the old lines are a prefix and a suffix of the new, around the entry; only
  the line "— empty —" goes.

**`RepoMap_proofs`**, for any files, lines, tool calls and number of changes. `TInv` are types and
what a call has in memory at its stage; `HInv` extends the properties of the sidecar to every copy
of it that a call has loaded and may still save (`MapsHonest`) and to what a call has read or been
told and not yet saved (`CallsHonest`), `ClearingHonest` to the copy of a hook that clears: a save can
  then bring back an older map but not a false one.
* `StampsVouch`, `SeenIsTold` and `NothingStaleIsTold`: `StampVouches`, `SeenIsTrue` and the action
  property `AnswersAreTrue`; a race between two reads of a hook is excepted by the properties.

**`Waves_proofs`**, for every finite task list, unknown dependencies included.
* `WavesAreLayers`: `WavesLayered`. `Peeled`: a task that is left waits for exactly those of its
  dependencies that are left, and for one of the last wave.
* `CyclesAreNamed`: `CyclesNamed`. If tasks are left but none is free then one of them is on a cycle
  (`CycleLeft`): of the sets `Below(t)` take one that is minimal, which in a finite list there is
  (the well-founded order of finite sets under strict inclusion); the tasks in it all lead to one
  another. `Probing` says that a search has found all that its start leads to when it ends.

**`Atomizer_proofs`**, for every plan, request, program and sequence of calls, faults and kills.
* `AtomizerTyped`, `FailuresUndone` and `StepsSurvive`: `TypeOK`, `FailureUndone` and `NoStepLost`,
  the exceptions those the properties name; a kill may come inside a rollback too. `AInv` describes
  the disk at every stage of a call by what the call found: `OnDisk` (minus the parents gone, plus the
  files created, plus the part of a split that is not finished), `Kept` and `Backed` (whatever is not
  backed up is as it was, and the backups are what was there), `Apart` (no file created was there
  before, so the rollback removes nothing it should not), `Whole` (a call that begins finds every
  program whole).
* `PlanOrderKept` and `MapAgreesAlways`: `OrderKept` and `MapAgrees`, if the script can read every
  `depends:` line (`Verbatim = Tasks`). `BInv` adds `Retried`: a call that succeeds has found the
  planner's own files. After a call that was killed or has failed half way, the request comes to a
  task that is split already or has a sub-task file, and raises. `Ordered` and `MapDone` then say
  what a call that began with the planner's files has written so far.

**`BenchRun_proofs`**, for any plan, options, workers, mishaps and instances. `TypesHold` is the
type invariant of `Startup` under either driver.
* `ReportsAreTrue`: `ResultsTrue`. `RInv`: a cycle that has exited is over and nothing runs in the
  workspace before it is summed up, ALL_DONE without `--dry-run` means closed, the error count and
  `has_retried` agree.
* `BeatingIsNotGivenUp`: the action property `BeatingNotRestarted`. `HInv`: a cycle's list of stale
  tasks and of those it saw beating have nothing in common, because no beating worker is older than
  the limit.
* `SyncingSuffices`: `SyncSuffices`. `SInv`: of the ordinary files - those whose state line the sync's
  expression hits, and that nobody writes under the cycle - whichever differs from `MAP.md` is still on
  the list to be rewritten, and what is about to be written to it is what `MAP.md` says.

**Model-checked only.** The liveness properties `GatesOpen`, `Settles`, `CallsEnd`, `SessionsClose`,
`DeadHealed`, `BatchEnds` and `AlwaysReturns`: fairness and ENABLED are out of the prover's reach.

## 6. Not modelled

`PROJECT.json` lists every part with its status.

* `orchestrate_lock.py`, `wave_deterministic_gate.py` and `advisor_cache.py` are called by nothing but
  tests, although `README.md:16` calls the latter two gates of the pipeline: there is no composition
  to model. The gate by itself could not do what it says: it passes touched *files* to
  `audit_discipline.py` and `check_deps.py`, which walk *directories*, so that on a file argument
  both find nothing and exit 0.
* The hooks in `hooks/` test one event each. Their transition table (`validate_map_transition.py:13-23`)
  holds for edits of an agent only: the loop's own moves REVIEW to EXECUTING, EXECUTING to DONE,
  REVIEW, PENDING or BLOCKED, and IN_PROGRESS to PENDING are not in it.
* The audit scripts are static checks of syntax trees: their verdict is an input of `SessionClose`.
* What an index of the repository map holds, deleted files and the JavaScript indexer; patches and
  scores of the benchmark; the atomizer's `--dry-run` (it writes nothing), nested sub-task ids, a path
  given twice, in-place writes cut in half, and a loop that runs beside it.
* One agent's context: the sidecar of the repository map is shared by agents that run side by side, so
  that `agent_seen` may tell one what another was shown; and the hook at the start of a session runs
  before any tool call. A cycle of the benchmark that was killed during the close leaves the project
  open, closed or a file torn, but what its `session_close.py` may still delete in later cycles is in
  `SessionClose` only.
* The text of `MAP.md` (it is a function of the tasks), the prompts of a checkpoint, the legacy
  single-advisor path, a result file read while it is being written.
* `trace.py` (append-only logging), the installer, templates and agent texts.

The agents themselves are the nondeterminism of `SessionAnswers`, `FinishTask`, `Repair`,
`PlanSession`, `StartWorker`, `EditFile` and `Answer`.

## 7. Plan

Done: every module of section 2, and a theorem for every safety and action property that a run checks.

Worth doing next, in this order:
1. What else a crash may cost: `CrashesCostARound` bounds the repairs lost; the tasks a crash may leave
   in EXECUTING, and the DONEs that half a pair may decide, have no such bound yet.
2. The checkpoint of a wave, once `_build_pipeline_state` copies the confirmation flag.

The modules are written for that: no RECURSIVE operator, bounds as constants, type invariants stated.
