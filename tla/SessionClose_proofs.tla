------------------------ MODULE SessionClose_proofs ------------------------
(***************************************************************************)
(* What holds of the end of a session, for every set of tasks and every    *)
(* number of processes, orphans, sessions, repairs and kills.  Nothing is  *)
(* assumed: each property names what it excepts.                           *)
(***************************************************************************)
EXTENDS SessionClose, TLAPS

USE DEF Goto, Leave, RunAudit, EditCode

LEMMA InitTyped == Init => TypeOK
<1> SUFFICES ASSUME Init PROVE TypeOK
  OBVIOUS
<1>1. pc \in [Closers -> Stage] /\ todo \in [Closers -> SUBSET Tasks]
  BY DEF Init, Stage
<1>2. sessions \in 0 .. MaxSessions /\ repairs \in 0 .. MaxRepairs /\ kills \in 0 .. MaxKills
  BY CloseAssumption DEF Init
<1>3. QED BY <1>1, <1>2 DEF Init, TypeOK

LEMMA NextTyped == TypeOK /\ [Next]_vars => TypeOK'
<1> SUFFICES ASSUME TypeOK, [Next]_vars PROVE TypeOK'
  OBVIOUS
<1> USE CloseAssumption DEF TypeOK, Stage, Audit, Cleanup, disk, code, counts, history
<1>1. CASE PlanSession
  BY <1>1 DEF PlanSession, CloseAhead
<1>2. ASSUME NEW t \in Tasks, FinishTask(t) PROVE TypeOK'
  BY <1>2 DEF FinishTask, VerdictsOut
<1>3. CASE Repair
  BY <1>3 DEF Repair, VerdictsOut
<1>4. CASE EditTaskFile
  BY <1>4 DEF EditTaskFile
<1>5. ASSUME NEW p \in Procs, Orchestrate(p) PROVE TypeOK'
  <2> p \in Closers
    BY DEF Closers
  <2>1. CASE Begin(p)
    BY <2>1 DEF Begin
  <2>2. CASE TakeLock(p)
    BY <2>2 DEF TakeLock
  <2>3. CASE Gate(p)
    BY <2>3 DEF Gate
  <2>4. CASE RunAuditScripts(p)
    BY <2>4 DEF RunAuditScripts
  <2>5. CASE WriteSentinel(p)
    BY <2>5 DEF WriteSentinel
  <2>6. QED BY <1>5, <2>1, <2>2, <2>3, <2>4, <2>5 DEF Orchestrate
<1>6. ASSUME NEW p \in Closers, RunClose(p) PROVE TypeOK'
  <2>1. CASE RunTests(p)
    BY <2>1 DEF RunTests
  <2>2. CASE DeleteTaskFile(p)
    BY <2>2 DEF DeleteTaskFile
  <2>3. CASE ResetMap(p)
    BY <2>3 DEF ResetMap
  <2>4. CASE DeleteSentinel(p)
    BY <2>4 DEF DeleteSentinel
  <2>5. QED BY <1>6, <2>1, <2>2, <2>3, <2>4 DEF RunClose
<1>7. ASSUME NEW p \in Procs, NEW o \in Orphans, Orphaned(p, o) PROVE TypeOK'
  BY <1>7 DEF Orphaned, Closers
<1>8. ASSUME NEW p \in Closers, Killed(p) PROVE TypeOK'
  BY <1>8 DEF Killed
<1>9. CASE UNCHANGED vars
  BY <1>9 DEF vars
<1>10. QED
  BY <1>1, <1>2, <1>3, <1>4, <1>5, <1>6, <1>7, <1>8, <1>9 DEF Next, OtherCycle

(* Whatever runs, dies or is repaired, MAP.md never calls a task DONE that *)
(* it does not list, and every process is at a step of the two scripts.    *)
THEOREM TypesHold == Spec => []TypeOK
BY InitTyped, NextTyped, PTL DEF Spec

-----------------------------------------------------------------------------
(* The work of a session.                                                  *)

(* From the decision on, what the session still has to do is in the tasks  *)
(* that the close overlooks - as long as it is its own session.            *)
OwnSession ==
  ~ overtaken =>
    \A p \in Closers :
      pc[p] \notin {"idle", "unmark"} => listed \cap taskFiles \subseteq done \cup dropped

LEMMA InitWork == Init => OwnSession
BY DEF Init, OwnSession

LEMMA NextWork ==
  ASSUME TypeOK, OwnSession, [Next]_vars
  PROVE  /\ OwnSession'
         /\ ~ overtaken => \A t \in taskFiles \ taskFiles' : t \in listed => t \in done \cup dropped
<1> DEFINE Safe ==
      /\ OwnSession'
      /\ ~ overtaken => \A t \in taskFiles \ taskFiles' : t \in listed => t \in done \cup dropped
<1> USE DEF TypeOK, OwnSession, disk, code, counts, history
<1>1. CASE PlanSession
  BY <1>1 DEF PlanSession, CloseAhead
<1>2. ASSUME NEW t \in Tasks, FinishTask(t) PROVE Safe
  BY <1>2 DEF FinishTask
<1>3. CASE Repair \/ EditTaskFile \/ UNCHANGED vars
  BY <1>3 DEF Repair, EditTaskFile, vars
<1>4. ASSUME NEW p \in Procs, Begin(p) PROVE Safe
  <2>1. listed \cap taskFiles \subseteq done \cup dropped'
    BY <1>4 DEF Begin, AllTasksDone, Seen
  <2>2. QED BY <1>4, <2>1 DEF Begin
<1>5. ASSUME NEW p \in Procs, Orchestrate(p), ~ Begin(p) PROVE Safe
  <2>1. /\ pc[p] \notin {"idle", "unmark"}
        /\ \A q \in Closers : pc'[q] = pc[q] \/ q = p
        /\ UNCHANGED <<listed, done, taskFiles, dropped, overtaken>>
    BY <1>5 DEF Orchestrate, TakeLock, Gate, RunAuditScripts, WriteSentinel, Closers
  <2>2. QED BY <2>1 DEF Closers
<1>6. ASSUME NEW p \in Closers, RunClose(p) PROVE Safe
  <2>1. CASE RunTests(p)
    BY <2>1 DEF RunTests
  <2>2. CASE DeleteTaskFile(p)
    BY <2>2 DEF DeleteTaskFile
  <2>3. CASE ResetMap(p)
    BY <2>3 DEF ResetMap
  <2>4. CASE DeleteSentinel(p)
    BY <2>4 DEF DeleteSentinel
  <2>5. QED BY <1>6, <2>1, <2>2, <2>3, <2>4 DEF RunClose
<1>7. ASSUME NEW p \in Procs, NEW o \in Orphans, Orphaned(p, o) PROVE Safe
  BY <1>7 DEF Orphaned, Closers
<1>8. ASSUME NEW p \in Closers, Killed(p) PROVE Safe
  BY <1>8 DEF Killed
<1>9. QED
  BY <1>1, <1>2, <1>3, <1>4, <1>5, <1>6, <1>7, <1>8 DEF Next, OtherCycle

(* However many closes overlap, fail, are killed or outlive their parents, *)
(* and although session_close.py never reads MAP.md: the file of a listed  *)
(* task that is not DONE is deleted only if it did not parse when a close  *)
(* of its session looked, or if the session was planned under a close.     *)
THEOREM KeepsWork == Spec => OnlyDoneDeleted
<1>1. TypeOK /\ OwnSession /\ [Next]_vars => OwnSession'
  BY NextWork
<1>2. TypeOK /\ OwnSession /\ [Next]_vars
        => [~ overtaken => \A t \in taskFiles \ taskFiles' :
                             t \in listed => t \in done \cup dropped]_vars
  BY NextWork
<1>3. QED BY InitWork, TypesHold, <1>1, <1>2, PTL DEF Spec, OnlyDoneDeleted

-----------------------------------------------------------------------------
(* The verdicts on the code.                                               *)

(* As long as the code is not changed behind them, a sentinel and every    *)
(* step of a close stand for the code as it is, whoever got them there.    *)
Judged ==
  ~ edited =>
    /\ sentinel => passes = Audits
    /\ \A p \in Closers :
         /\ pc[p] = "deps" => "discipline" \in passes
         /\ pc[p] \in {"touch", "tests", "delete", "reset"} => passes = Audits
         /\ pc[p] \in {"delete", "reset"} => green

LEMMA InitJudged == Init => Judged
BY DEF Init, Judged

LEMMA NextJudged ==
  ASSUME TypeOK, Judged, [Next]_vars
  PROVE  /\ Judged'
         /\ ~ edited /\ taskFiles' # taskFiles /\ taskFiles' \subseteq taskFiles
              => passes = Audits /\ green
<1> DEFINE Safe ==
      /\ Judged'
      /\ ~ edited /\ taskFiles' # taskFiles /\ taskFiles' \subseteq taskFiles
           => passes = Audits /\ green
<1> USE DEF TypeOK, Judged, disk, code, counts, history
<1>1. CASE PlanSession
  BY <1>1 DEF PlanSession
<1>2. ASSUME ~ VerdictsOut \/ edited', UNCHANGED <<sentinel, taskFiles, pc>> PROVE Safe
  BY <1>2 DEF VerdictsOut
<1>3. ASSUME NEW t \in Tasks, FinishTask(t) PROVE Safe
  BY <1>2, <1>3 DEF FinishTask
<1>4. CASE Repair
  BY <1>2, <1>4 DEF Repair
<1>5. CASE EditTaskFile \/ UNCHANGED vars
  BY <1>5 DEF EditTaskFile, vars
<1>6. ASSUME NEW p \in Procs, Orchestrate(p) PROVE Safe
  <2> p \in Closers
    BY DEF Closers
  <2>1. CASE Begin(p)
    BY <2>1 DEF Begin
  <2>2. CASE TakeLock(p)
    BY <2>2 DEF TakeLock
  <2>3. CASE Gate(p)
    BY <2>3 DEF Gate
  <2>4. CASE RunAuditScripts(p)
    <3>1. UNCHANGED <<taskFiles, sentinel, passes, green, edited>>
      BY <2>4 DEF RunAuditScripts
    <3>2. CASE pc[p] = "discipline" /\ "discipline" \in passes /\ pc' = [pc EXCEPT ![p] = "deps"]
      BY <3>1, <3>2
    <3>3. CASE pc[p] = "deps" /\ "deps" \in passes /\ pc' = [pc EXCEPT ![p] = "touch"]
      <4>1. ~ edited => passes = Audits
        BY <3>3 DEF Audits
      <4>2. QED BY <3>1, <3>3, <4>1
    <3>4. CASE pc' = [pc EXCEPT ![p] = "idle"]
      BY <3>1, <3>4
    <3>5. QED BY <2>4, <3>2, <3>3, <3>4 DEF RunAuditScripts
  <2>5. CASE WriteSentinel(p)
    BY <2>5 DEF WriteSentinel
  <2>6. QED BY <1>6, <2>1, <2>2, <2>3, <2>4, <2>5 DEF Orchestrate
<1>7. ASSUME NEW p \in Closers, RunClose(p) PROVE Safe
  <2>1. CASE RunTests(p)
    BY <2>1 DEF RunTests
  <2>2. CASE DeleteTaskFile(p)
    BY <2>2 DEF DeleteTaskFile
  <2>3. CASE ResetMap(p)
    BY <2>3 DEF ResetMap
  <2>4. CASE DeleteSentinel(p)
    BY <2>4 DEF DeleteSentinel
  <2>5. QED BY <1>7, <2>1, <2>2, <2>3, <2>4 DEF RunClose
<1>8. ASSUME NEW p \in Procs, NEW o \in Orphans, Orphaned(p, o) PROVE Safe
  BY <1>8 DEF Orphaned, Closers
<1>9. ASSUME NEW p \in Closers, Killed(p) PROVE Safe
  BY <1>9 DEF Killed
<1>10. QED
  BY <1>1, <1>3, <1>4, <1>5, <1>6, <1>7, <1>8, <1>9 DEF Next, OtherCycle

(* A sentinel or a test run goes stale by an edit only: with any number of *)
(* closes, kills, orphans and sessions, the code is clean when task files  *)
(* are deleted, unless it was changed after a verdict that was used.       *)
THEOREM VerdictsAgeByEdits == Spec => ClosedCodeIsClean
<1>1. TypeOK /\ Judged /\ [Next]_vars => Judged'
  BY NextJudged
<1>2. TypeOK /\ Judged /\ [Next]_vars
        => [~ edited /\ taskFiles' # taskFiles /\ taskFiles' \subseteq taskFiles
              => passes = Audits /\ green]_vars
  BY NextJudged
<1>3. QED BY InitJudged, TypesHold, <1>1, <1>2, PTL DEF Spec, ClosedCodeIsClean

-----------------------------------------------------------------------------
(* What a close leaves, as long as none is cut short or overtaken.         *)

(* A file that is gone comes before every file that is there: each process *)
(* deletes in order, and none starts after another has begun.              *)
InOrder ==
  /\ taskFiles \subseteq listed
  /\ \A x \in listed \ taskFiles, y \in taskFiles : x < y

(* A process that skips or deletes a file has all those that are there on  *)
(* its list, and the one that is ahead has no others: it cannot fail.      *)
Ahead ==
  /\ \A p \in Closers :
       /\ pc[p] = "delete" =>
            taskFiles \subseteq todo[p] /\ (listed # {} => todo[p] \subseteq listed)
       /\ pc[p] = "reset" => taskFiles = {}
  /\ taskFiles # listed =>
       \E p \in Closers : pc[p] = "reset" \/ (pc[p] = "delete" /\ todo[p] = taskFiles)

(* Who comes after the reset finds the code as green as the one who reset. *)
GreenBehind == ~ edited /\ listed = {} /\ CloseAhead => green

(* A sentinel without a session has a process that will remove it.         *)
SentinelGoing ==
  ~ edited /\ sentinel /\ listed = {} =>
    \E p \in Closers : \/ pc[p] \in {"tests", "reset", "unmark"}
                       \/ pc[p] = "delete" /\ todo[p] = {}

CloseGoesOn == InOrder /\ Ahead /\ GreenBehind /\ SentinelGoing

MInv == Undisturbed => CloseGoesOn

LEMMA InitOver == Init => MInv
BY DEF Init, MInv, CloseGoesOn, InOrder, Ahead, GreenBehind, SentinelGoing, CloseAhead

LEMMA NextOver ==
  ASSUME TypeOK, Judged, Undisturbed', CloseGoesOn, [Next]_vars
  PROVE  CloseGoesOn'
<1> USE DEF TypeOK, Stage, Audit, Cleanup, CloseGoesOn, InOrder, Ahead, GreenBehind,
            SentinelGoing, CloseAhead, disk, code, counts, history
<1>1. CASE PlanSession
  BY <1>1 DEF PlanSession, Undisturbed
<1>2. ASSUME NEW t \in Tasks, FinishTask(t) PROVE CloseGoesOn'
  BY <1>2 DEF FinishTask
<1>3. CASE Repair
  BY <1>3 DEF Repair
<1>4. CASE EditTaskFile \/ UNCHANGED vars
  BY <1>4 DEF EditTaskFile, vars
<1>5. ASSUME NEW p \in Procs, Orchestrate(p) PROVE CloseGoesOn'
  <2> p \in Closers
    BY DEF Closers
  <2>1. CASE Begin(p)
    BY <2>1 DEF Begin, AllTasksDone, Seen
  <2>2. CASE TakeLock(p)
    BY <2>2 DEF TakeLock
  <2>3. CASE Gate(p)
    BY <2>3 DEF Gate
  <2>4. CASE RunAuditScripts(p)
    <3>1. /\ pc[p] \in {"discipline", "deps"}
          /\ UNCHANGED <<listed, done, taskFiles, sentinel, passes, green, todo, edited>>
      BY <2>4 DEF RunAuditScripts
    <3>2. CASE pc' = [pc EXCEPT ![p] = "deps"] \/ pc' = [pc EXCEPT ![p] = "touch"]
      BY <3>1, <3>2
    <3>3. CASE pc' = [pc EXCEPT ![p] = "idle"]
      BY <3>1, <3>3
    <3>4. QED BY <2>4, <3>2, <3>3 DEF RunAuditScripts
  <2>5. CASE WriteSentinel(p)
    BY <2>5 DEF WriteSentinel
  <2>6. QED BY <1>5, <2>1, <2>2, <2>3, <2>4, <2>5 DEF Orchestrate
<1>6. ASSUME NEW p \in Closers, RunClose(p) PROVE CloseGoesOn'
  <2>1. CASE RunTests(p)
    <3>1. CASE green
      BY <2>1, <3>1 DEF RunTests
    <3>2. CASE ~ green
      <4>1. edited \/ listed # {}
        BY <2>1, <3>2 DEF RunTests
      <4>2. QED BY <2>1, <3>2, <4>1 DEF RunTests
    <3>3. QED BY <3>1, <3>2
  <2>2. CASE DeleteTaskFile(p)
    <3>0. /\ pc[p] = "delete" /\ taskFiles \subseteq todo[p]
          /\ UNCHANGED <<listed, done, sentinel, lock, passes, green, edited>>
      BY <2>2 DEF DeleteTaskFile
    <3>1. CASE todo[p] = {} /\ pc' = [pc EXCEPT ![p] = "reset"] /\ UNCHANGED <<taskFiles, todo>>
      BY <3>0, <3>1
    <3>2. ASSUME NEW t \in todo[p], \A u \in todo[p] : t <= u, taskFiles' = taskFiles \ {t},
                 t \in taskFiles, todo' = [todo EXCEPT ![p] = @ \ {t}], UNCHANGED pc
          PROVE  CloseGoesOn'
      <4>1. listed # {} /\ t \in listed /\ todo[p] \subseteq listed
        BY <3>0, <3>2
      <4>2. todo[p] = taskFiles
        <5>1. SUFFICES ASSUME NEW x \in todo[p], x \notin taskFiles PROVE FALSE
          BY <3>0
        <5>2. x < t /\ t <= x
          BY <3>2, <4>1, <5>1
        <5>3. x \in Nat /\ t \in Nat
          BY <3>2, <5>1, CloseAssumption
        <5>4. QED BY <5>2, <5>3
      <4>3. todo'[p] = taskFiles' /\ \A q \in Closers \ {p} : todo'[q] = todo[q]
        BY <3>2, <4>2
      <4>4. InOrder'
        BY <3>0, <3>2, <4>2, CloseAssumption
      <4>5. Ahead'
        BY <3>0, <3>2, <4>1, <4>2, <4>3
      <4>6. SentinelGoing' /\ GreenBehind'
        BY <3>0, <3>2, <4>1
      <4>7. QED BY <4>4, <4>5, <4>6
    <3>3. ASSUME NEW t \in todo[p], \A u \in todo[p] : t <= u, t \notin taskFiles,
                 UNCHANGED taskFiles, todo' = [todo EXCEPT ![p] = @ \ {t}], UNCHANGED pc
          PROVE  CloseGoesOn'
      <4>1. todo[p] # taskFiles /\ todo[p] # {}
        BY <3>3
      <4>2. \A q \in Closers \ {p} : todo'[q] = todo[q]
        BY <3>3
      <4>3. todo'[p] \subseteq todo[p] /\ taskFiles \subseteq todo'[p]
        BY <3>0, <3>3
      <4>4. Ahead'
        BY <3>0, <3>3, <4>1, <4>2, <4>3
      <4>5. SentinelGoing'
        BY <3>0, <3>3, <4>1, <4>2
      <4>6. QED BY <3>0, <3>3, <4>4, <4>5
    <3>4. ASSUME NEW t \in todo[p], t \notin taskFiles, UNCHANGED taskFiles,
                 todo' = [todo EXCEPT ![p] = {}], pc' = [pc EXCEPT ![p] = "idle"]
          PROVE  CloseGoesOn'
      <4>1. todo[p] # taskFiles /\ todo[p] # {}
        BY <3>4
      <4>2. \A q \in Closers \ {p} : todo'[q] = todo[q] /\ pc'[q] = pc[q]
        BY <3>4
      <4>3. Ahead'
        BY <3>0, <3>4, <4>1, <4>2
      <4>4. SentinelGoing' /\ GreenBehind'
        BY <3>0, <3>4, <4>1, <4>2
      <4>5. QED BY <3>0, <3>4, <4>3, <4>4
    <3>5. QED
      <4>1. CASE todo[p] = {}
        BY <2>2, <3>1, <4>1 DEF DeleteTaskFile
      <4>2. CASE todo[p] # {}
        <5>1. PICK t \in todo[p] :
                /\ \A u \in todo[p] : t <= u
                /\ taskFiles' = taskFiles \ {t}
                /\ \/ todo' = [todo EXCEPT ![p] = @ \ {t}] /\ UNCHANGED pc
                   \/ /\ t \notin taskFiles /\ todo' = [todo EXCEPT ![p] = {}]
                      /\ pc' = [pc EXCEPT ![p] = "idle"]
          BY <2>2, <4>2 DEF DeleteTaskFile
        <5>2. t \notin taskFiles => UNCHANGED taskFiles
          BY <5>1
        <5>3. QED BY <5>1, <5>2, <3>2, <3>3, <3>4
      <4>3. QED BY <4>1, <4>2
  <2>3. CASE ResetMap(p)
    <3>1. ~ edited => green
      BY <2>3 DEF ResetMap, Judged
    <3>2. QED BY <2>3, <3>1 DEF ResetMap
  <2>4. CASE DeleteSentinel(p)
    BY <2>4 DEF DeleteSentinel
  <2>5. QED BY <1>6, <2>1, <2>2, <2>3, <2>4 DEF RunClose
<1>7. ASSUME NEW p \in Procs, NEW o \in Orphans, Orphaned(p, o) PROVE CloseGoesOn'
  <2>1. /\ p \in Closers /\ o \in Closers /\ o # p /\ pc[o] = "idle"
        /\ pc'[o] = pc[p] /\ pc'[p] = "idle" /\ todo'[o] = todo[p] /\ todo'[p] = {}
        /\ \A q \in Closers \ {p, o} : pc'[q] = pc[q] /\ todo'[q] = todo[q]
        /\ UNCHANGED <<listed, done, taskFiles, sentinel, green, edited>>
    BY <1>7 DEF Orphaned, Closers
  <2>2. QED BY <2>1
<1>8. ASSUME NEW p \in Closers, Killed(p) PROVE CloseGoesOn'
  BY <1>8, CloseAssumption DEF Killed, Undisturbed, NoKill
<1>9. QED
  BY <1>1, <1>2, <1>3, <1>4, <1>5, <1>6, <1>7, <1>8 DEF Next, OtherCycle

LEMMA DisturbedStays == TypeOK /\ [Next]_vars /\ Undisturbed' => Undisturbed
<1> SUFFICES ASSUME TypeOK, [Next]_vars, Undisturbed' PROVE Undisturbed
  OBVIOUS
<1> USE CloseAssumption DEF TypeOK, Undisturbed, NoKill, counts, history
<1>1. UNCHANGED overtaken \/ PlanSession
  BY DEF Next, Orchestrate, RunClose, FinishTask, Repair, EditTaskFile, Begin, TakeLock, Gate,
         RunAuditScripts, WriteSentinel, RunTests, DeleteTaskFile, ResetMap,
         DeleteSentinel, OtherCycle, Orphaned, Killed, vars
<1>2. UNCHANGED kills \/ (\E p \in Closers : Killed(p))
  BY DEF Next, Orchestrate, RunClose, PlanSession, FinishTask, Repair, EditTaskFile, Begin,
         TakeLock, Gate, RunAuditScripts, WriteSentinel, RunTests, DeleteTaskFile, ResetMap,
         DeleteSentinel, OtherCycle, Orphaned, vars
<1>3. QED BY <1>1, <1>2 DEF Killed, PlanSession

LEMMA ClosesGoOn == Spec => [](TypeOK /\ OwnSession /\ Judged /\ MInv)
<1>1. TypeOK /\ OwnSession /\ [Next]_vars => OwnSession'
  BY NextWork
<1>2. TypeOK /\ Judged /\ [Next]_vars => Judged'
  BY NextJudged
<1>3. TypeOK /\ Judged /\ MInv /\ [Next]_vars => MInv'
  BY NextOver, DisturbedStays DEF MInv
<1>4. QED
  BY InitWork, InitJudged, InitOver, TypesHold, <1>1, <1>2, <1>3, PTL DEF Spec

(* As long as no close is cut short or overtaken and no code is changed    *)
(* behind a verdict, no sentinel and no task file outlives its session,    *)
(* for any number of sessions, closes and orphans.                         *)
THEOREM LeavesNothing == Spec => []NothingCarriedOver
<1>1. TypeOK /\ MInv => NothingCarriedOver
  BY DEF TypeOK, MInv, CloseGoesOn, InOrder, SentinelGoing, NothingCarriedOver, Quiet
<1>2. QED BY ClosesGoOn, <1>1, PTL

(* ... and until it is closed there is always a task file left to see, so  *)
(* that cycles that end early, each for the other's sake, cannot leave the *)
(* session half deleted between them.                                      *)
THEOREM CanClose == Spec => []StillClosable
<1>1. TypeOK /\ MInv => StillClosable
  BY DEF TypeOK, MInv, CloseGoesOn, Ahead, StillClosable, Quiet
<1>2. QED BY ClosesGoOn, <1>1, PTL

-----------------------------------------------------------------------------
(* The close is atomic.                                                    *)

LEMMA SameClose ==
  ASSUME UNCHANGED <<listed, done, passes, green>>, Deleting' = Deleting
  PROVE  Atomic!AStep
BY DEF Atomic!AStep, Atomic!avars

LEMMA MovesOn ==
  ASSUME NEW p \in Closers, pc \in [Closers -> Stage], NEW s, pc' = [pc EXCEPT ![p] = s],
         pc[p] \notin {"delete", "reset"}, s \notin {"delete", "reset"}
  PROVE  Deleting' = Deleting
BY DEF Deleting

LEMMA CloseIsStep ==
  ASSUME TypeOK, OwnSession, Judged, CloseGoesOn, Undisturbed', ~ edited', dropped' = {},
         [Next]_vars
  PROVE  Atomic!AStep
<1> USE DEF disk, code, counts, history
<1>0. /\ pc \in [Closers -> Stage] /\ done \subseteq listed /\ listed \subseteq Tasks
      /\ passes' \subseteq Audits /\ green' \in BOOLEAN /\ Procs \subseteq Closers
  BY NextTyped DEF TypeOK, Closers
<1>1. CASE PlanSession
  <2>1. ~ Deleting /\ ~ Deleting'
    BY <1>1 DEF PlanSession, CloseAhead, Undisturbed, Deleting
  <2>2. Atomic!Plan
    BY <1>1, <2>1 DEF PlanSession, Atomic!Plan
  <2>3. QED BY <2>2 DEF Atomic!AStep, Atomic!ANext
<1>2. ASSUME NEW t \in Tasks, FinishTask(t) PROVE Atomic!AStep
  <2>1. ~ Deleting /\ ~ Deleting'
    BY <1>2 DEF FinishTask, VerdictsOut, Deleting
  <2>2. Atomic!Finish(t)
    BY <1>2, <2>1 DEF FinishTask, Atomic!Finish, Atomic!Edit
  <2>3. QED BY <2>2 DEF Atomic!AStep, Atomic!ANext
<1>3. CASE Repair
  <2>1. ~ Deleting /\ ~ Deleting'
    BY <1>3 DEF Repair, VerdictsOut, Deleting
  <2>2. Atomic!Mend
    BY <1>3, <2>1 DEF Repair, Atomic!Mend, Atomic!Finished, Atomic!Edit
  <2>3. QED BY <2>2 DEF Atomic!AStep, Atomic!ANext
<1>4. CASE EditTaskFile \/ UNCHANGED vars
  BY <1>4, SameClose DEF EditTaskFile, vars, Deleting
<1>5. ASSUME NEW p \in Procs, Orchestrate(p) PROVE Atomic!AStep
  <2>1. CASE Begin(p)
    BY <1>0, <2>1, MovesOn, SameClose DEF Begin
  <2>2. CASE TakeLock(p)
    BY <1>0, <2>2, MovesOn, SameClose DEF TakeLock
  <2>3. CASE Gate(p)
    BY <1>0, <2>3, MovesOn, SameClose DEF Gate
  <2>4. CASE RunAuditScripts(p)
    BY <1>0, <2>4, MovesOn, SameClose DEF RunAuditScripts
  <2>5. CASE WriteSentinel(p)
    BY <1>0, <2>5, MovesOn, SameClose DEF WriteSentinel
  <2>6. QED BY <1>5, <2>1, <2>2, <2>3, <2>4, <2>5 DEF Orchestrate
<1>6. ASSUME NEW p \in Closers, RunClose(p) PROVE Atomic!AStep
  <2>1. CASE RunTests(p)
    <3>1. CASE ~ green
      BY <1>0, <2>1, <3>1, MovesOn, SameClose DEF RunTests
    <3>2. CASE green
      <4>1. pc[p] = "tests" /\ Deleting' /\ UNCHANGED <<listed, done, passes, green>>
        BY <1>0, <2>1, <3>2 DEF RunTests, Deleting
      <4>2. CASE Deleting
        BY <4>1, <4>2, SameClose DEF Deleting
      <4>3. CASE ~ Deleting /\ listed = {}
        BY <1>0, <4>1, <4>3 DEF Atomic!AStep, Atomic!avars
      <4>4. CASE ~ Deleting /\ listed # {}
        <5>1. ~ edited /\ dropped = {} /\ ~ overtaken
          BY <2>1 DEF RunTests, Undisturbed
        <5>2. passes = Audits
          BY <4>1, <5>1 DEF Judged
        <5>3. taskFiles = listed
          BY <4>4 DEF CloseGoesOn, Ahead, Deleting
        <5>4. listed = done
          BY <1>0, <4>1, <5>1, <5>3 DEF OwnSession
        <5>5. Atomic!Close
          BY <3>2, <4>1, <4>4, <5>2, <5>4 DEF Atomic!Close, Atomic!Finished
        <5>6. QED BY <5>5 DEF Atomic!AStep, Atomic!ANext
      <4>5. QED BY <4>2, <4>3, <4>4
    <3>3. QED BY <3>1, <3>2
  <2>2. CASE DeleteTaskFile(p)
    <3>1. pc[p] = "delete" /\ Deleting /\ UNCHANGED <<listed, done, passes, green>>
      BY <2>2 DEF DeleteTaskFile, Deleting
    <3>2. CASE Deleting'
      BY <3>1, <3>2, SameClose DEF Deleting
    <3>3. CASE ~ Deleting' /\ listed = {}
      BY <1>0, <3>1, <3>3 DEF Atomic!AStep, Atomic!avars
    <3>4. CASE ~ Deleting' /\ listed # {}
      <4>1. ~ (todo[p] \subseteq taskFiles) /\ pc' = [pc EXCEPT ![p] = "idle"]
        BY <1>0, <2>2, <3>1, <3>4 DEF DeleteTaskFile, Deleting
      <4>2. todo[p] \subseteq listed /\ todo[p] # taskFiles /\ taskFiles # listed
        BY <3>1, <3>4, <4>1 DEF CloseGoesOn, Ahead
      <4>3. PICK q \in Closers : pc[q] = "reset" \/ (pc[q] = "delete" /\ todo[q] = taskFiles)
        BY <4>2 DEF CloseGoesOn, Ahead
      <4>4. q # p /\ pc'[q] = pc[q]
        BY <1>0, <3>1, <4>1, <4>2, <4>3
      <4>5. QED BY <3>4, <4>3, <4>4 DEF Deleting
    <3>5. QED BY <3>2, <3>3, <3>4
  <2>3. CASE ResetMap(p)
    <3>1. Deleting /\ listed' = {} /\ done' = {} /\ UNCHANGED <<passes, green>>
      BY <2>3 DEF ResetMap, Deleting
    <3>2. QED BY <3>1 DEF Atomic!AStep, Atomic!avars
  <2>4. CASE DeleteSentinel(p)
    BY <1>0, <2>4, MovesOn, SameClose DEF DeleteSentinel
  <2>5. QED BY <1>6, <2>1, <2>2, <2>3, <2>4 DEF RunClose
<1>7. ASSUME NEW p \in Procs, NEW o \in Orphans, Orphaned(p, o) PROVE Atomic!AStep
  <2>1. /\ p \in Closers /\ o \in Closers /\ pc[o] = "idle"
        /\ pc'[o] = pc[p] /\ pc'[p] = "idle"
        /\ \A q \in Closers \ {p, o} : pc'[q] = pc[q]
        /\ UNCHANGED <<listed, done, passes, green>>
    BY <1>0, <1>7 DEF Orphaned, Closers
  <2>2. Deleting' = Deleting
    BY <2>1 DEF Deleting
  <2>3. QED BY <2>1, <2>2, SameClose
<1>8. ASSUME NEW p \in Closers, Killed(p) PROVE Atomic!AStep
  BY <1>8, CloseAssumption DEF Killed, Undisturbed, NoKill, TypeOK
<1>9. QED
  BY <1>1, <1>2, <1>3, <1>4, <1>5, <1>6, <1>7, <1>8 DEF Next, OtherCycle

LEMMA CloseStarts == Init => Atomic!AInit
BY DEF Init, Deleting, Atomic!AInit

(* For any number of sessions, closes that delete side by side and fail on *)
(* each other's deletions, and orphans among them: what a session's        *)
(* planner and workers see of it all is one step from finished and clean   *)
(* to closed - wherever no close is cut short, overtaken or overlooks a    *)
(* task, and no code is changed behind a verdict.                          *)
THEOREM CloseIsAtomic == Spec => ClosesAtomically
<1>1. TypeOK /\ OwnSession /\ Judged /\ MInv /\ [Next]_vars
        => [(Undisturbed /\ ~ edited /\ dropped = {})' => Atomic!AStep]_vars
  BY CloseIsStep, DisturbedStays DEF MInv
<1>2. QED BY CloseStarts, ClosesGoOn, <1>1, PTL DEF Spec, ClosesAtomically
=============================================================================
