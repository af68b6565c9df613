---------------------------- MODULE SessionClose ----------------------------
(***************************************************************************)
(* The end of a session: the audit gate of orchestrate.py and              *)
(* session_close.py, run by every cycle that finds all tasks DONE.         *)
(*                                                                         *)
(* The dispatch loop before it is reduced to tasks that become DONE; the   *)
(* two audits and the test suite to whether the code on disk passes them   *)
(* at the moment they run.  The scripts write no source code, so only the  *)
(* session's workers and repairs change the verdicts - at any moment.      *)
(***************************************************************************)
EXTENDS FiniteSets, Naturals

CONSTANTS
  Procs,         \* places for orchestrate.py and the session_close.py it runs
  Orphans,       \* places for a session_close.py whose parent was killed
  Tasks,         \* the tasks of a session, in the order a directory lists them
  Breakable,     \* those whose file may stop to parse while it is edited
  MaxSessions,   \* bound on the sessions
  MaxRepairs,    \* bound on the repairs
  MaxKills       \* bound on the closes cut short

ASSUME CloseAssumption ==
  /\ Tasks \subseteq Nat /\ IsFiniteSet(Tasks) /\ Tasks # {}
  /\ Breakable \subseteq Tasks
  /\ MaxSessions \in Nat /\ MaxRepairs \in Nat /\ MaxKills \in Nat

Audits == {"discipline", "deps"}
Closers == Procs \cup Orphans

VARIABLES
  listed,    \* MAP.md: the tasks it lists
  done,      \* MAP.md: those whose status is DONE
  taskFiles, \* the task_*.md files on disk
  torn,      \* the tasks whose file, if there is one, does not parse
  sentinel,  \* does .audit_clean exist?
  lock,      \* does MAP.md.lock exist?
  passes,    \* the audits the code on disk passes
  green,     \* does the code on disk pass its tests?
  pc,        \* next step of each process
  todo,      \* the task files a process has listed and not deleted yet
  sessions, repairs, kills,
  edited,    \* history: was the code last changed behind a verdict on it?
  dropped,   \* history: unfinished tasks of this session that a close overlooks
  overtaken  \* history: was a session planned before a close was over?

disk == <<listed, done, taskFiles, sentinel>>
code == <<passes, green>>
counts == <<sessions, repairs, kills>>
history == <<edited, dropped, overtaken>>
vars == <<disk, torn, lock, code, pc, todo, counts, history>>

Audit == {"gate", "discipline", "deps", "touch"}
Cleanup == {"delete", "reset", "unmark"}
Stage == {"idle", "lock", "tests"} \cup Audit \cup Cleanup

TypeOK ==
  /\ listed \subseteq Tasks /\ done \subseteq listed /\ taskFiles \subseteq Tasks
  /\ torn \subseteq Tasks
  /\ sentinel \in BOOLEAN /\ lock \in BOOLEAN /\ green \in BOOLEAN
  /\ passes \subseteq Audits
  /\ pc \in [Closers -> Stage]
  /\ todo \in [Closers -> SUBSET Tasks]
  /\ sessions \in 0 .. MaxSessions
  /\ repairs \in 0 .. MaxRepairs /\ kills \in 0 .. MaxKills
  /\ edited \in BOOLEAN /\ overtaken \in BOOLEAN /\ dropped \subseteq Tasks

Init ==
  /\ listed = {} /\ done = {} /\ taskFiles = {} /\ torn = {}
  /\ sentinel = FALSE /\ lock = FALSE
  /\ passes \in SUBSET Audits /\ green \in BOOLEAN
  /\ pc = [p \in Closers |-> "idle"]
  /\ todo = [p \in Closers |-> {}]
  /\ sessions = 0 /\ repairs = 0 /\ kills = 0
  /\ edited = FALSE /\ dropped = {} /\ overtaken = FALSE

Quiet == \A p \in Closers : pc[p] = "idle"

-----------------------------------------------------------------------------
(* The session around the loop.                                            *)

(* A close of this session that has still something to do to the next.     *)
CloseAhead == \E p \in Closers : pc[p] \notin {"idle", "unmark"}

(* The planner writes MAP.md and the task files of a new session.          *)
PlanSession ==
  /\ listed = {} /\ sessions < MaxSessions
  /\ \E T \in (SUBSET Tasks) \ {{}} : listed' = T /\ taskFiles' = taskFiles \cup T
  /\ sessions' = sessions + 1
  /\ dropped' = {} /\ overtaken' = (overtaken \/ CloseAhead)
  /\ UNCHANGED <<done, torn, sentinel, lock, code, pc, todo, repairs, kills, edited>>

(* Some process or sentinel holds a verdict, or is about to have one.      *)
VerdictsOut == sentinel \/ \E p \in Closers : pc[p] \notin {"idle", "lock", "gate"}

EditCode ==
  /\ passes' \in SUBSET Audits /\ green' \in BOOLEAN
  /\ edited' = VerdictsOut

(* A worker's edits pass review; they may break or mend anything.          *)
FinishTask(t) ==
  /\ t \in listed \ done
  /\ done' = done \cup {t}
  /\ EditCode
  /\ UNCHANGED <<listed, taskFiles, torn, sentinel, lock, pc, todo, counts, dropped, overtaken>>

(* An audit or the tests failed: the code is mended, or people go on.      *)
Repair ==
  /\ listed # {} /\ listed = done /\ repairs < MaxRepairs
  /\ EditCode
  /\ repairs' = repairs + 1
  /\ UNCHANGED <<disk, torn, lock, pc, todo, sessions, kills, dropped, overtaken>>

(* Task files are edited in place, and do not parse in between.            *)
EditTaskFile ==
  /\ torn' \in SUBSET Breakable /\ torn' # torn
  /\ UNCHANGED <<disk, lock, code, pc, todo, counts, history>>

-----------------------------------------------------------------------------
(* The audit gate.                                                         *)

Goto(p, s) == pc' = [pc EXCEPT ![p] = s]

(* The reader skips a listed task that has no file, or one that does not   *)
(* parse.                                                                  *)
Seen == (listed \cap taskFiles) \ torn

(* mutant: any instead of all *)
AllTasksDoneAny == Seen \cap done # {}

(* An empty list is an error and not the end.                              *)
AllTasksDone == Seen # {} /\ Seen \subseteq done

Begin(p) ==
  /\ pc[p] = "idle" /\ AllTasksDone
  /\ Goto(p, "lock")
  /\ dropped' = dropped \cup ((listed \cap taskFiles \cap torn) \ done)
  /\ UNCHANGED <<disk, torn, lock, code, todo, counts, edited, overtaken>>

(* map_lock: the lockfile is made if there is none.  One that is older     *)
(* than stale_lock_seconds is replaced - which it is while its process     *)
(* audits, who then no longer has the lock, and when its process was       *)
(* killed.  A younger one makes the call time out.                         *)
TakeLock(p) ==
  /\ pc[p] = "lock"
  /\ \/ lock' = TRUE /\ Goto(p, "gate")
     \/ lock /\ UNCHANGED lock /\ Goto(p, "idle")
  /\ UNCHANGED <<disk, torn, code, todo, counts, history>>

(* Leaving unlinks whatever lockfile there is.                             *)
Leave(p, s) == lock' = FALSE /\ Goto(p, s)

Gate(p) ==
  /\ pc[p] = "gate"
  /\ \/ sentinel /\ Leave(p, "tests")
     \/ ~ sentinel /\ Goto(p, "discipline") /\ UNCHANGED lock
  /\ UNCHANGED <<disk, torn, code, todo, counts, history>>

(* A script that fails, or is stopped at its timeout, ends the cycle.      *)
RunAudit(p, a, next) ==
  /\ pc[p] = a
  /\ \/ a \in passes /\ Goto(p, next) /\ UNCHANGED lock
     \/ a \notin passes /\ Leave(p, "idle")
  /\ UNCHANGED <<disk, torn, code, todo, counts, history>>

(* mutant: check_deps.py is never run *)
RunAuditScriptsFirst(p) == RunAudit(p, "discipline", "touch")

RunAuditScripts(p) ==
  RunAudit(p, "discipline", "deps") \/ RunAudit(p, "deps", "touch")

WriteSentinel(p) ==
  /\ pc[p] = "touch"
  /\ sentinel' = TRUE
  /\ Leave(p, "tests")
  /\ UNCHANGED <<listed, done, taskFiles, torn, code, todo, counts, history>>

-----------------------------------------------------------------------------
(* session_close.py                                                        *)

(* The list of files to delete is taken when the tests have passed.        *)
RunTests(p) ==
  /\ pc[p] = "tests"
  /\ \/ green /\ todo' = [todo EXCEPT ![p] = taskFiles] /\ Goto(p, "delete")
     \/ ~ green /\ UNCHANGED todo /\ Goto(p, "idle")
  /\ UNCHANGED <<disk, torn, lock, code, counts, history>>

(* mutant: every process deletes in an order of its own *)
DeleteTaskFileAnyOrder(p) ==
  /\ pc[p] = "delete"
  /\ \/ \E t \in todo[p] :
          /\ taskFiles' = taskFiles \ {t}
          /\ \/ todo' = [todo EXCEPT ![p] = @ \ {t}] /\ UNCHANGED pc
             \/ t \notin taskFiles /\ todo' = [todo EXCEPT ![p] = {}] /\ Goto(p, "idle")
     \/ todo[p] = {} /\ Goto(p, "reset") /\ UNCHANGED <<taskFiles, todo>>
  /\ UNCHANGED <<listed, done, sentinel, torn, lock, code, counts, history>>

(* A file that is gone is skipped; if it goes between the test and the     *)
(* unlink, the exception ends the script.                                  *)
DeleteTaskFile(p) ==
  /\ pc[p] = "delete"
  /\ \/ \E t \in todo[p] :
          /\ \A u \in todo[p] : t <= u
          /\ taskFiles' = taskFiles \ {t}
          /\ \/ todo' = [todo EXCEPT ![p] = @ \ {t}] /\ UNCHANGED pc
             \/ t \notin taskFiles /\ todo' = [todo EXCEPT ![p] = {}] /\ Goto(p, "idle")
     \/ todo[p] = {} /\ Goto(p, "reset") /\ UNCHANGED <<taskFiles, todo>>
  /\ UNCHANGED <<listed, done, sentinel, torn, lock, code, counts, history>>

(* mutant: the template still lists the tasks *)
ResetMapKeeps(p) ==
  /\ pc[p] = "reset"
  /\ Goto(p, "unmark")
  /\ UNCHANGED <<disk, torn, lock, code, todo, counts, history>>

ResetMap(p) ==
  /\ pc[p] = "reset"
  /\ listed' = {} /\ done' = {}
  /\ Goto(p, "unmark")
  /\ UNCHANGED <<taskFiles, sentinel, torn, lock, code, todo, counts, history>>

(* mutant: the sentinel stays *)
DeleteSentinelKeeps(p) ==
  /\ pc[p] = "unmark"
  /\ Goto(p, "idle")
  /\ UNCHANGED <<disk, torn, lock, code, todo, counts, history>>

DeleteSentinel(p) ==
  /\ pc[p] = "unmark"
  /\ sentinel' = FALSE
  /\ Goto(p, "idle")
  /\ UNCHANGED <<listed, done, taskFiles, torn, lock, code, todo, counts, history>>

(* session_close.py is killed, alone - its caller gives it no longer than  *)
(* it gives the tests - or with its parent; or orchestrate.py before it.   *)
Killed(p) ==
  /\ pc[p] # "idle" /\ kills < MaxKills
  /\ kills' = kills + 1
  /\ Goto(p, "idle") /\ todo' = [todo EXCEPT ![p] = {}]
  /\ UNCHANGED <<disk, torn, lock, code, sessions, repairs, history>>

(* orchestrate.py alone is killed, as the benchmark does at its timeout    *)
(* (run_one.py:151): the session_close.py it has started goes on, beside   *)
(* the cycles that follow.                                                 *)
Orphaned(p, o) ==
  /\ pc[p] \in {"tests"} \cup Cleanup /\ pc[o] = "idle"
  /\ pc' = [pc EXCEPT ![p] = "idle", ![o] = pc[p]]
  /\ todo' = [todo EXCEPT ![p] = {}, ![o] = todo[p]]
  /\ UNCHANGED <<disk, torn, lock, code, counts, history>>

Orchestrate(p) ==
  Begin(p) \/ TakeLock(p) \/ Gate(p) \/ RunAuditScripts(p) \/ WriteSentinel(p)

RunClose(p) == RunTests(p) \/ DeleteTaskFile(p) \/ ResetMap(p) \/ DeleteSentinel(p)

(* A cycle that does not find all tasks DONE leaves all this alone.        *)
OtherCycle(p) == pc[p] = "idle" /\ ~ AllTasksDone /\ UNCHANGED vars

Next ==
  \/ PlanSession \/ (\E t \in Tasks : FinishTask(t)) \/ Repair \/ EditTaskFile
  \/ \E p \in Procs : Orchestrate(p) \/ OtherCycle(p) \/ \E o \in Orphans : Orphaned(p, o)
  \/ \E p \in Closers : RunClose(p) \/ Killed(p)

Spec == Init /\ [][Next]_vars

(* The session loops orchestrate.py, and its tasks end.                    *)
FairSpec ==
  /\ Spec
  /\ \A p \in Procs : WF_vars(Orchestrate(p) \/ RunClose(p))
  /\ \A o \in Orphans : WF_vars(RunClose(o))
  /\ WF_vars(\E t \in Tasks : FinishTask(t))

-----------------------------------------------------------------------------
(* What goes wrong in other ways than by the order of the steps is told    *)
(* apart: a close that is cut short leaves the rest, and one that is slow  *)
(* ends the session that was planned meanwhile.                            *)
NoKill == kills = 0
Undisturbed == NoKill /\ ~ overtaken

(* Verdicts go stale in one way only: task files are deleted when the code *)
(* on disk, as it is then, passes both audits and its tests, unless it was *)
(* changed while a sentinel stood for it or a close was past its gate -    *)
(* whoever audited it, in whichever session, and whatever was killed.      *)
ClosedCodeIsClean ==
  [][~ edited /\ taskFiles' # taskFiles /\ taskFiles' \subseteq taskFiles
       => passes = Audits /\ green]_vars

(* Work is thrown away in two ways only: the file of a task that MAP.md    *)
(* lists and does not call DONE is deleted only if the file did not parse  *)
(* when a close of this session looked, or by a close of an earlier one.   *)
OnlyDoneDeleted ==
  [][~ overtaken => \A t \in taskFiles \ taskFiles' :
                      t \in listed => t \in done \cup dropped]_vars

(* A session starts from nothing: no sentinel and no task file outlives    *)
(* the session that made it, if the code stays as it was judged.           *)
NothingCarriedOver ==
  Undisturbed /\ ~ edited /\ listed = {} /\ Quiet => ~ sentinel /\ taskFiles = {}

(* What is DONE can always be closed: between cycles some listed task      *)
(* still has the file without which the reader does not see it.            *)
StillClosable == Undisturbed /\ Quiet /\ listed # {} => listed \cap taskFiles # {}

(* The close is one step, AtomicClose: from the first step that deletes    *)
(* task files the session counts as over, and it is closed once, however   *)
(* many processes are at it, however many of them fail on the way and      *)
(* whether or not their parents live - where every task was seen and the   *)
(* code stays as it was judged.                                            *)
Deleting == \E p \in Closers : pc[p] \in {"delete", "reset"}

Atomic == INSTANCE AtomicClose WITH
  listed <- IF Deleting THEN {} ELSE listed,
  done <- IF Deleting THEN {} ELSE done

ClosesAtomically ==
  Atomic!AInit /\ [][(Undisturbed /\ ~ edited /\ dropped = {})' => Atomic!AStep]_vars

(* A session whose code ends up passing everything is closed in the end:   *)
(* no lock and no failed audit or test run of an earlier cycle holds it    *)
(* up.                                                                     *)
SessionsClose ==
  []Undisturbed /\ <>[](passes = Audits /\ green /\ torn = {})
    => (listed # {} ~> listed = {})
=============================================================================
