------------------------------ MODULE Atomizer ------------------------------
(***************************************************************************)
(* scripts/atomize_task.py: splits the task files that ask for it into     *)
(* one sub-task per program step, chains the sub-tasks, and points at the  *)
(* last of them whatever depended on the parent.                           *)
(*                                                                         *)
(* A call is a sequence of single writes to task files and MAP.md, any of  *)
(* which may raise - then everything is rolled back - or be the last one,  *)
(* because the process is killed.  A task file is its list of depends, a   *)
(* program the number of its steps.  Nobody else writes meanwhile: the     *)
(* atomizer takes no lock and runs before the first dispatch.              *)
(***************************************************************************)
EXTENDS Naturals, Sequences, FiniteSets

CONSTANTS
  Tasks,        \* the planned tasks, numbered as their files are listed
  MaxSteps,     \* bound on the steps of a program
  MaxSubtasks,  \* MAX_SUBTASKS
  Verbatim,     \* tasks whose depends line is spelled as the script spells it
  Faults,       \* the steps that may raise
  MaxCalls,     \* bound on the calls
  MayKill

FaultSteps == {"nonce", "write", "unlink", "map"}

ASSUME AtomizerAssumption ==
  /\ Tasks \subseteq Nat /\ IsFiniteSet(Tasks) /\ Tasks # {}
  /\ MaxSteps \in Nat /\ MaxSubtasks \in Nat /\ MaxCalls \in Nat
  /\ Verbatim \subseteq Tasks /\ Faults \subseteq FaultSteps /\ MayKill \in BOOLEAN

VARIABLES
  depends,  \* the plan: the tasks a task depends on
  steps,    \* the plan: the steps of a task with atomize: required, else 0
  files,    \* the task files on disk: the ids each depends on
  map,      \* MAP.md: the line of each id it lists
  pc,       \* next step of the call
  request,  \* the task paths it was given
  pos,      \* the one it is at
  part,     \* the sub-task of it to write next
  created,  \* the sub-task files to remove in a rollback
  rewrites, \* what a reference to a task is rewritten to
  backups,  \* the task files as they were read
  before,   \* files and map at the call (the script keeps the map)
  outcome,  \* how the last call ended
  fault,    \* and what it raised
  calls,
  torn      \* history: what has stopped half way, a "split" or a "rollback"?

plan == <<depends, steps>>
disk == <<files, map>>
memory == <<created, rewrites, backups>>
args == <<request, before, calls>>
ends == <<outcome, torn>>
vars == <<plan, disk, pc, pos, part, memory, args, ends, fault>>

(* A task's file is <<t, 0>>, that of its i-th sub-task <<t, i>>: a letter *)
(* follows the id, so no i is above MAX_SUBTASKS.                          *)
Id == Tasks \X (0 .. MaxSubtasks)
Parent(t) == <<t, 0>>

(* A program is as good as the number of its steps.                        *)
Program == 0 .. MaxSteps

(* A line of MAP.md; the planner writes 801 for task_801, the script does  *)
(* not.                                                                    *)
Line == [deps : SUBSET Id, short : BOOLEAN]

Rollback == {"drop created", "restore parents", "restore map"}
Stage == {"idle", "task", "check", "write", "map"} \cup Rollback
Outcome == {"none", "ok", "failed", "killed"}
Error == {"none", "missing", "exists", "too many"} \cup FaultSteps

TypeOK ==
  /\ depends \in [Tasks -> SUBSET Tasks]
  /\ steps \in [Tasks -> Program]
  /\ DOMAIN files \subseteq Id /\ \A x \in DOMAIN files : files[x] \subseteq Id
  /\ DOMAIN map \subseteq Id /\ \A x \in DOMAIN map : map[x] \in Line
  /\ pc \in Stage /\ outcome \in Outcome /\ fault \in Error
  /\ request \in Seq(Tasks) /\ pos \in 1 .. Len(request) + 1
  /\ part \in 1 .. MaxSubtasks + 1
  /\ created \subseteq Id \ {Parent(t) : t \in Tasks}
  /\ rewrites \in [Tasks -> Id]
  /\ DOMAIN backups \subseteq Tasks /\ \A t \in DOMAIN backups : backups[t] \subseteq Id
  /\ calls \in 0 .. MaxCalls /\ torn \subseteq {"split", "rollback"}

(* Every plan whose tasks depend on lower-numbered ones.                   *)
Init ==
  /\ depends \in {d \in [Tasks -> SUBSET Tasks] : \A t \in Tasks : \A u \in d[t] : u < t}
  /\ steps \in [Tasks -> Program]
  /\ files = [x \in {Parent(t) : t \in Tasks} |-> {Parent(u) : u \in depends[x[1]]}]
  /\ map = [x \in DOMAIN files |-> [deps |-> files[x], short |-> TRUE]]
  /\ pc = "idle" /\ request = <<>> /\ pos = 1 /\ part = 1
  /\ created = {} /\ rewrites = [t \in Tasks |-> Parent(t)] /\ backups = <<>>
  /\ before = <<files, map>> /\ outcome = "none" /\ fault = "none" /\ calls = 0
  /\ torn = {}

-----------------------------------------------------------------------------
(* A request names each task file at most once.                            *)
Requests ==
  UNION {{r \in [1 .. n -> Tasks] : \A i, j \in 1 .. n : r[i] = r[j] => i = j} :
           n \in 1 .. Cardinality(Tasks)}

(* A call that did not succeed is repeated as it was.                      *)
Call ==
  /\ pc = "idle" /\ calls < MaxCalls /\ outcome # "ok"
  /\ request' \in (IF request = <<>> THEN Requests ELSE {request})
  /\ pc' = "task" /\ pos' = 1
  /\ created' = {} /\ rewrites' = [t \in Tasks |-> Parent(t)] /\ backups' = <<>>
  /\ before' = disk /\ outcome' = "none" /\ fault' = "none" /\ calls' = calls + 1
  /\ UNCHANGED <<plan, disk, part, torn>>

Task == request[pos]
Raise(e) == pc' = "drop created" /\ fault' = e
Torn(what) == torn' = torn \cup {what}

Renamed(ids) == {IF x[2] = 0 THEN rewrites[x[1]] ELSE x : x \in ids}

(* mutant: depends are left as the planner wrote them *)
RewrittenDependsNot(t) == files[Parent(t)]

(* The line is replaced by its text: one that is spelled otherwise stays.  *)
RewrittenDepends(t) ==
  IF t \in Verbatim THEN Renamed(files[Parent(t)]) ELSE files[Parent(t)]

(* mutant: the backup is taken after the rewriting *)
BackedUpLate(t) == RewrittenDepends(t)

BackedUp(t) == files[Parent(t)]

(* The file is read, kept, and its depends rewritten; it is split if it    *)
(* asks for that and has more than one step.                               *)
ProcessTask ==
  /\ pc = "task" /\ pos <= Len(request)
  /\ \/ /\ Parent(Task) \notin DOMAIN files
        /\ Raise("missing")
        /\ UNCHANGED <<files, backups, pos>>
     \/ /\ Parent(Task) \in DOMAIN files
        /\ backups' = [u \in DOMAIN backups \cup {Task} |->
                         IF u = Task THEN BackedUp(u) ELSE backups[u]]
        /\ files' = [files EXCEPT ![Parent(Task)] = RewrittenDepends(Task)]
        /\ \/ steps[Task] <= 1 /\ pos' = pos + 1 /\ UNCHANGED pc
           \/ steps[Task] > 1 /\ pc' = "check" /\ UNCHANGED pos
        /\ UNCHANGED fault
  /\ UNCHANGED <<plan, map, part, created, rewrites, args, ends>>

Subtasks(t) == {<<t, i>> : i \in 1 .. steps[t]}

(* mutant: one letter too many *)
TooManyLate(t) == steps[t] > MaxSubtasks + 1

TooMany(t) == steps[t] > MaxSubtasks

(* Nothing is written before all of this has passed; the last that may     *)
(* raise is openssl, which makes the nonces.                               *)
CheckOutput ==
  /\ pc = "check"
  /\ \/ Subtasks(Task) \cap DOMAIN files # {} /\ Raise("exists") /\ UNCHANGED part
     \/ /\ Subtasks(Task) \cap DOMAIN files = {}
        /\ \/ TooMany(Task) /\ Raise("too many") /\ UNCHANGED part
           \/ /\ ~ TooMany(Task)
              /\ \/ "nonce" \in Faults /\ Raise("nonce") /\ UNCHANGED part
                 \/ pc' = "write" /\ part' = 1 /\ UNCHANGED fault
  /\ UNCHANGED <<plan, disk, pos, memory, args, ends>>

(* The first sub-task depends on what the parent did, each other one on    *)
(* the one before it.                                                      *)
SubtaskDepends(t, i, inherited) == IF i = 1 THEN inherited ELSE {<<t, i - 1>>}

WriteSubtask ==
  /\ pc = "write" /\ part <= steps[Task]
  /\ \/ /\ files' = [x \in DOMAIN files \cup {<<Task, part>>} |->
                       IF x = <<Task, part>>
                       THEN SubtaskDepends(Task, part, files[Parent(Task)])
                       ELSE files[x]]
        /\ part' = part + 1
        /\ UNCHANGED <<pc, fault, torn>>
     \/ "write" \in Faults /\ Raise("write") /\ Torn("split") /\ UNCHANGED <<files, part>>
  /\ UNCHANGED <<plan, map, pos, memory, args, outcome>>

LastSubtask(t) == <<t, steps[t]>>

(* Only now is the call's result known to the rollback.                    *)
UnlinkParent ==
  /\ pc = "write" /\ part > steps[Task]
  /\ \/ /\ files' = [x \in DOMAIN files \ {Parent(Task)} |-> files[x]]
        /\ created' = created \cup Subtasks(Task)
        /\ rewrites' = [rewrites EXCEPT ![Task] = LastSubtask(Task)]
        /\ pc' = "map"
        /\ UNCHANGED <<fault, torn>>
     \/ /\ "unlink" \in Faults /\ Raise("unlink") /\ Torn("split")
        /\ UNCHANGED <<files, created, rewrites>>
  /\ UNCHANGED <<plan, map, pos, part, backups, args, outcome>>

(* mutant: the lines of dependents are not rewritten *)
RewrittenLineNot(line, t) == line

(* The pattern for 801 finds no task_801.                                  *)
RewrittenLine(line, t) ==
  IF line.short
  THEN [line EXCEPT !.deps = {IF x = Parent(t) THEN LastSubtask(t) ELSE x : x \in @}]
  ELSE line

(* The parent's line becomes one line per sub-task; the depends of all     *)
(* other lines are rewritten with it.                                      *)
RewriteMap ==
  /\ pc = "map"
  /\ \/ /\ map' = [x \in (DOMAIN map \ {Parent(Task)}) \cup Subtasks(Task) |->
                     IF x[1] = Task
                     THEN [deps |-> files[x], short |-> FALSE]
                     ELSE RewrittenLine(map[x], Task)]
        /\ pos' = pos + 1 /\ pc' = "task"
        /\ UNCHANGED fault
     \/ "map" \in Faults /\ Raise("map") /\ UNCHANGED <<map, pos>>
  /\ UNCHANGED <<plan, files, part, memory, args, ends>>

Succeed ==
  /\ pc = "task" /\ pos > Len(request)
  /\ pc' = "idle" /\ outcome' = "ok"
  /\ UNCHANGED <<plan, disk, pos, part, memory, args, fault, torn>>

-----------------------------------------------------------------------------
(* _rollback_atomization                                                   *)

Dropped(S) == [x \in DOMAIN files \ S |-> files[x]]

DropCreated ==
  /\ pc = "drop created"
  /\ files' = Dropped(created)
  /\ pc' = "restore parents"
  /\ UNCHANGED <<plan, map, pos, part, memory, args, ends, fault>>

(* mutant: only the task at which the call failed is restored *)
RestoredLast == {Parent(Task)} \cap {Parent(t) : t \in DOMAIN backups}

Restored == {Parent(t) : t \in DOMAIN backups}

PutBack(S) ==
  [x \in DOMAIN files \cup S |-> IF x \in S THEN backups[x[1]] ELSE files[x]]

RestoreParents ==
  /\ pc = "restore parents"
  /\ files' = PutBack(Restored)
  /\ pc' = "restore map"
  /\ UNCHANGED <<plan, map, pos, part, memory, args, ends, fault>>

RestoreMap ==
  /\ pc = "restore map"
  /\ map' = before[2]
  /\ pc' = "idle" /\ outcome' = "failed"
  /\ UNCHANGED <<plan, files, pos, part, memory, args, fault, torn>>

(* Both loops go through the files in the order in which the tasks were    *)
(* requested, and a kill cuts them short.                                  *)
First(n) == {request[k] : k \in 1 .. n}

CutShort ==
  \/ pc \notin {"drop created", "restore parents"} /\ UNCHANGED files
  \/ /\ pc = "drop created"
     /\ \E n \in 1 .. Len(request), i \in 0 .. MaxSubtasks :
          files' = Dropped({x \in created : x[1] \in First(n - 1) \/ (x[1] = request[n] /\ x[2] <= i)})
  \/ /\ pc = "restore parents"
     /\ \E n \in 0 .. Len(request) : files' = PutBack({x \in Restored : x[1] \in First(n)})

Killed ==
  /\ MayKill /\ pc # "idle"
  /\ CutShort
  /\ pc' = "idle"
  /\ outcome' = "killed"
  /\ Torn(IF pc \in Rollback THEN "rollback" ELSE "split")
  /\ UNCHANGED <<plan, map, pos, part, memory, args, fault>>

Next ==
  \/ Call \/ ProcessTask \/ CheckOutput \/ WriteSubtask \/ UnlinkParent \/ RewriteMap
  \/ Succeed \/ DropCreated \/ RestoreParents \/ RestoreMap \/ Killed

Spec == Init /\ [][Next]_vars

-----------------------------------------------------------------------------
IsSplit(t) == steps[t] > 1 /\ \E i \in 1 .. Len(request) : request[i] = t

(* The request names every task that depends on one it splits, after it.   *)
InOrder ==
  \A t \in Tasks : \A u \in depends[t] : IsSplit(u) =>
    \E i, j \in 1 .. Len(request) : i < j /\ request[i] = u /\ request[j] = t

Entry(t) == IF IsSplit(t) THEN {<<t, i>> : i \in 1 .. steps[t]} ELSE {Parent(t)}
Exit(t) == IF IsSplit(t) THEN LastSubtask(t) ELSE Parent(t)

(* Splitting keeps the plan's order: after a call that succeeds, perhaps   *)
(* on top of one that was killed or failed, each sub-task waits for the    *)
(* one before it, the first of a task for the last of each task it         *)
(* depended on, and no file depends on one that is gone.  A task that      *)
(* depends on a missing one is never ready.                                *)
OrderKept ==
  outcome = "ok" /\ InOrder =>
    /\ DOMAIN files = UNION {Entry(t) : t \in Tasks}
    /\ \A x \in DOMAIN files :
         files[x] = IF x[2] > 1 THEN {<<x[1], x[2] - 1>>}
                                ELSE {Exit(u) : u \in depends[x[1]]}

(* MAP.md and the task files do not drift apart: whether a call succeeds   *)
(* or fails, MAP.md lists the tasks that have files, with the depends the  *)
(* files have - as long as no call was killed or failed between the files  *)
(* of one task.  The loop drops a task with a line and no file, and never  *)
(* sees one with a file and no line.                                       *)
MapAgrees ==
  pc = "idle" /\ torn = {} =>
    /\ DOMAIN map = DOMAIN files
    /\ InOrder => \A x \in DOMAIN map : map[x].deps = files[x]

(* A call that fails leaves task files and MAP.md as they were, however    *)
(* many tasks it had split - unless it fails while it writes the sub-tasks *)
(* of one: those are not remembered until the last is written and the      *)
(* parent gone.                                                            *)
FailureUndone ==
  outcome = "failed" /\ fault \notin {"write", "unlink"} => disk = before

(* No step of a program is lost, whatever raises or is killed: a task has  *)
(* its own file, or one for each of its steps.  Only a rollback, which     *)
(* removes the sub-tasks before it restores the parents, must not be       *)
(* killed.                                                                 *)
NoStepLost ==
  pc = "idle" /\ "rollback" \notin torn =>
    \A t \in Tasks :
      \/ Parent(t) \in DOMAIN files
      \/ steps[t] > 1 /\ Subtasks(t) \subseteq DOMAIN files
=============================================================================
