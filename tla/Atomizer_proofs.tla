-------------------------- MODULE Atomizer_proofs --------------------------
(***************************************************************************)
(* What the atomizer promises, proved for every plan, every request and    *)
(* every sequence of calls, kills and faults.  No step of a program is     *)
(* lost and a failed call leaves no trace (AInv); a call that succeeds     *)
(* keeps the plan's order and MAP.md with it (BInv), if the script can     *)
(* read every depends line.  The properties name their own exceptions.     *)
(*                                                                         *)
(* AInv: whatever the stage of a call, the disk is what the call found but *)
(* for what it has backed up, created or half written, and each of these   *)
(* is known to the rollback or is the cut the property excepts.  BInv adds *)
(* that only a call that found every planned file can succeed, each with   *)
(* the depends it was planned with or, if a rollback was killed, will end  *)
(* with: any other comes to a task that is split or half split, and raises.*)
(***************************************************************************)
EXTENDS Atomizer, FiniteSetTheorems, TLAPS

Forward == {"task", "check", "write", "map"}

-----------------------------------------------------------------------------
(* Types and shapes.                                                       *)

(* Files and MAP.md hold ids of the plan, in memory as on disk.            *)
Known(x) == x \in Id /\ x[2] <= steps[x[1]]

GoodFiles(F) ==
  /\ F = [x \in DOMAIN F |-> F[x]]
  /\ \A x \in DOMAIN F : Known(x) /\ F[x] \subseteq Id

GoodMap(M) == \A x \in DOMAIN M : Known(x) /\ M[x] \in Line

DiskOK ==
  /\ GoodFiles(files) /\ GoodMap(map)
  /\ before = <<before[1], before[2]>> /\ GoodFiles(before[1]) /\ GoodMap(before[2])

(* Where a call can be, and what it has checked by then.                   *)
Shape ==
  /\ \A i, j \in 1 .. Len(request) : request[i] = request[j] => i = j
  /\ pc \in {"check", "write", "map"} => steps[Task] > 1
  /\ pc \notin {"idle", "task"} => pos <= Len(request)
  /\ pc \in {"write", "map"} => steps[Task] <= MaxSubtasks
  /\ pc = "write" => part <= steps[Task] + 1
  /\ pc # "idle" => outcome = "none"

-----------------------------------------------------------------------------
(* What a call remembers.                                                  *)

(* The tasks whose parent this call has replaced.                          *)
Done == {t \in Tasks : rewrites[t] # Parent(t)}

(* The files of a split that was not finished.                             *)
Cut == pc \in Rollback /\ fault \in {"write", "unlink"}

Partial == IF pc = "write" \/ Cut THEN {<<Task, i>> : i \in 1 .. part - 1} ELSE {}

Remembered ==
  /\ \A t \in Done : rewrites[t] = LastSubtask(t) /\ steps[t] > 1
  /\ created = UNION {Subtasks(t) : t \in Done}
  /\ Done \subseteq DOMAIN backups
  /\ \A t \in DOMAIN backups : \E i \in 1 .. Len(request) : request[i] = t
  /\ pc \in Forward => \A i \in 1 .. pos - 1 :
       /\ request[i] \in DOMAIN backups
       /\ steps[request[i]] > 1 => request[i] \in Done
  /\ pc \in Forward => \A i \in pos .. Len(request) :
       request[i] \in DOMAIN backups => i = pos /\ pc # "task"
  /\ pc \in {"check", "write", "map"} => Task \in DOMAIN backups
  /\ pc \in {"check", "write"} \/ Cut => Task \notin Done
  /\ pc = "map" => Task \in Done
  /\ Cut => steps[Task] > 1 /\ part <= steps[Task] + 1

(* The backups are what was on disk, and the disk is as it was but for     *)
(* what is backed up, created or half written.                             *)
Gone == {Parent(t) : t \in Done}

Backed ==
  \A t \in DOMAIN backups :
    Parent(t) \in DOMAIN before[1] /\ backups[t] = before[1][Parent(t)]

Untouched(x) == \A t \in DOMAIN backups : x # Parent(t)

Kept ==
  \A x \in DOMAIN before[1] : Untouched(x) \/ pc = "restore map" =>
    x \in DOMAIN files /\ files[x] = before[1][x]

OnDisk ==
  /\ pc \in Forward \cup {"drop created"} =>
       DOMAIN files = ((DOMAIN before[1] \ Gone) \cup created) \cup Partial
  /\ pc = "restore parents" => DOMAIN files = (DOMAIN before[1] \ Gone) \cup Partial
  /\ pc = "restore map" => DOMAIN files = DOMAIN before[1] \cup Partial

Apart ==
  /\ (created \cup Partial) \cap DOMAIN before[1] = {}
  /\ pc = "write" => Subtasks(Task) \cap DOMAIN before[1] = {}

Undo == pc # "idle" => Backed /\ Kept /\ OnDisk /\ Apart

(* No program has lost a step when a call starts.                          *)
HasSteps(F, t) ==
  \/ Parent(t) \in DOMAIN F
  \/ steps[t] > 1 /\ Subtasks(t) \subseteq DOMAIN F

Whole ==
  "rollback" \notin torn =>
    \A t \in Tasks : HasSteps(IF pc = "idle" THEN files ELSE before[1], t)

AInv == TypeOK /\ DiskOK /\ Shape /\ Remembered /\ Undo /\ Whole /\ FailureUndone

-----------------------------------------------------------------------------
(* From the planner's files.                                               *)

Files0 == [x \in {Parent(t) : t \in Tasks} |-> {Parent(u) : u \in depends[x[1]]}]
Map0 == [x \in DOMAIN Files0 |-> [deps |-> Files0[x], short |-> TRUE]]

(* What a task waits for once its dependencies are split.                  *)
Waits(t) == {Exit(u) : u \in depends[t]}

(* A depends line is the planner's or rewritten in full, whatever call it  *)
(* was.                                                                    *)
Decent(F) ==
  InOrder => \A t \in Tasks : Parent(t) \in DOMAIN F =>
    F[Parent(t)] = Files0[Parent(t)] \/ F[Parent(t)] = Waits(t)

Planned(F) == DOMAIN F = DOMAIN Files0 /\ Decent(F)

(* A call cannot get past a task that is already split, or half split.     *)
StuckAt(F, i) ==
  /\ steps[request[i]] > 1
  /\ Parent(request[i]) \notin DOMAIN F \/ Subtasks(request[i]) \cap DOMAIN F # {}

Began(F) == Planned(F) \/ \E i \in 1 .. Len(request) : StuckAt(F, i)

Retried ==
  /\ Decent(files)
  /\ pc # "idle" => Decent(before[1])
  /\ Began(IF pc = "idle" THEN files ELSE before[1])
  /\ pc \in Forward /\ ~ Planned(before[1]) =>
       \E i \in pos .. Len(request) :
         StuckAt(before[1], i) /\ (i = pos => pc \in {"task", "check"})

(* The files of a call that started from the planner's.                    *)
Chained(x) == files[x] = IF x[2] > 1 THEN {<<x[1], x[2] - 1>>} ELSE Waits(x[1])

Ordered ==
  /\ pc \in Forward /\ Planned(before[1]) /\ InOrder =>
       \A x \in DOMAIN files : x[2] > 0 \/ x[1] \in DOMAIN backups => Chained(x)
  /\ OrderKept

(* And MAP.md, a task behind at most.                                      *)
Mapped == IF pc = "map" THEN Done \ {Task} ELSE Done

(* The lines MAP.md has while a call goes on.                              *)
MapIs(M, done, F) ==
  /\ DOMAIN M = ({Parent(t) : t \in Tasks \ done}) \cup UNION {Subtasks(t) : t \in done}
  /\ \A x \in DOMAIN M :
       M[x] = IF x[2] = 0
              THEN [deps |-> {IF u \in done THEN LastSubtask(u) ELSE Parent(u) : u \in depends[x[1]]},
                    short |-> TRUE]
              ELSE [deps |-> F[x], short |-> FALSE]

MapDone ==
  /\ torn = {} /\ outcome # "ok" => (IF pc = "idle" THEN disk ELSE before) = <<Files0, Map0>>
  /\ torn = {} => ~ Cut
  /\ torn = {} /\ pc \in Forward => MapIs(map, Mapped, files)
  /\ MapAgrees

BInv == Retried /\ Ordered /\ MapDone

-----------------------------------------------------------------------------
(* Ids.                                                                    *)
LEMMA Ids ==
  ASSUME TypeOK, NEW t \in Tasks
  PROVE  /\ steps[t] \in Nat /\ Parent(t) \in Id /\ Known(Parent(t))
         /\ Parent(t)[1] = t /\ Parent(t)[2] = 0
         /\ \A u \in Tasks : Parent(u) = Parent(t) => u = t
         /\ \A x \in Subtasks(t) : x[1] = t /\ x[2] \in 1 .. steps[t] /\ x = <<t, x[2]>>
         /\ \A i \in 1 .. steps[t] : <<t, i>> \in Subtasks(t)
         /\ steps[t] <= MaxSubtasks => \A x \in Subtasks(t) : Known(x)
<1>1. steps[t] \in Nat
  BY AtomizerAssumption DEF TypeOK, Program
<1>2. Parent(t) \in Id /\ Parent(t)[1] = t /\ Parent(t)[2] = 0
  BY AtomizerAssumption DEF Id, Parent
<1>3. \A u \in Tasks : Parent(u) = Parent(t) => u = t
  BY DEF Parent
<1>4. \A x \in Subtasks(t) : x[1] = t /\ x[2] \in 1 .. steps[t] /\ x = <<t, x[2]>>
  BY DEF Subtasks
<1>5. steps[t] <= MaxSubtasks => \A x \in Subtasks(t) : x \in Id
  BY <1>1, <1>4, AtomizerAssumption DEF Id
<1>6. QED
  BY <1>1, <1>2, <1>3, <1>4, <1>5 DEF Known, Subtasks

(* An id is a parent's or a sub-task's.                                    *)
LEMMA KnownIs ==
  ASSUME TypeOK, NEW x, Known(x)
  PROVE  /\ x[1] \in Tasks /\ x = <<x[1], x[2]>> /\ x[2] \in 0 .. steps[x[1]]
         /\ x = Parent(x[1]) \/ x \in Subtasks(x[1])
<1>1. x[1] \in Tasks /\ x = <<x[1], x[2]>> /\ x[2] \in Nat /\ x[2] <= steps[x[1]]
  BY DEF Known, Id
<1>2. steps[x[1]] \in Nat
  BY <1>1, Ids
<1>3. x[2] \in 0 .. steps[x[1]]
  BY <1>1, <1>2
<1>4. x[2] = 0 \/ x[2] \in 1 .. steps[x[1]]
  BY <1>3, <1>2
<1>5. x[2] = 0 => x = Parent(x[1])
  BY <1>1 DEF Parent
<1>6. x[2] \in 1 .. steps[x[1]] => x \in Subtasks(x[1])
  BY <1>1, Ids
<1>7. QED
  BY <1>1, <1>3, <1>4, <1>5, <1>6

LEMMA SubtaskNotParent ==
  ASSUME TypeOK, NEW t \in Tasks, NEW x \in Subtasks(t), NEW u
  PROVE  x # Parent(u)
<1>1. x[2] \in 1 .. steps[t]
  BY Ids
<1>2. x[2] # 0
  BY <1>1
<1>3. Parent(u)[2] = 0
  BY DEF Parent
<1>4. QED
  BY <1>2, <1>3

(* The task at hand.                                                       *)
LEMMA TaskAt ==
  ASSUME TypeOK, pos <= Len(request)
  PROVE  Task \in Tasks /\ pos \in 1 .. Len(request)
BY DEF TypeOK, Task

-----------------------------------------------------------------------------
LEMMA InitAInv ==
  ASSUME Init PROVE AInv
<1> DEFINE ids == {Parent(t) : t \in Tasks}
<1>1. /\ depends \in [Tasks -> SUBSET Tasks] /\ steps \in [Tasks -> Program]
      /\ request = <<>> /\ Len(request) = 0 /\ pos = 1 /\ part = 1 /\ pc = "idle"
      /\ created = {} /\ rewrites = [t \in Tasks |-> Parent(t)] /\ backups = <<>>
      /\ before = <<files, map>> /\ outcome = "none" /\ fault = "none" /\ calls = 0
      /\ torn = {}
  BY DEF Init
<1>2. /\ files = [x \in ids |-> {Parent(u) : u \in depends[x[1]]}]
      /\ map = [x \in ids |-> [deps |-> {Parent(u) : u \in depends[x[1]]}, short |-> TRUE]]
  BY DEF Init
<1>3. \A t \in Tasks : Parent(t) \in Id /\ Parent(t)[1] = t
  BY AtomizerAssumption DEF Id, Parent
<1>4. \A x \in ids : {Parent(u) : u \in depends[x[1]]} \subseteq Id
  BY <1>1, <1>3
<1>5. GoodFiles(files) /\ GoodMap(map) /\ DOMAIN files = ids /\ DOMAIN map = ids
  <2>1. ASSUME NEW t \in Tasks PROVE Known(Parent(t))
    <3>1. steps[t] \in Nat
      BY <1>1, AtomizerAssumption DEF Program
    <3>2. Parent(t)[2] = 0
      BY DEF Parent
    <3>3. QED
      BY <1>3, <3>1, <3>2 DEF Known
  <2>2. QED
    BY <1>2, <1>4, <2>1 DEF GoodFiles, GoodMap, Line
<1>6. DiskOK
  BY <1>1, <1>5 DEF DiskOK
<1>7. TypeOK
  <2>1. rewrites \in [Tasks -> Id] /\ DOMAIN backups = {}
    BY <1>1, <1>3
  <2>2. \A x \in DOMAIN files : x \in Id /\ files[x] \subseteq Id
    BY <1>5 DEF GoodFiles, Known
  <2>3. \A x \in DOMAIN map : x \in Id /\ map[x] \in Line
    BY <1>5 DEF GoodMap, Known
  <2>4. QED
    BY <1>1, <2>1, <2>2, <2>3, AtomizerAssumption DEF TypeOK, Stage, Outcome, Error
<1>8. Shape
  BY <1>1 DEF Shape, Rollback
<1>9. Remembered
  BY <1>1 DEF Remembered, Done, Forward, Cut, Rollback
<1>10. Undo /\ FailureUndone
  BY <1>1 DEF Undo, FailureUndone
<1>11. Whole
  BY <1>1, <1>5 DEF Whole, HasSteps
<1>12. QED
  BY <1>6, <1>7, <1>8, <1>9, <1>10, <1>11 DEF AInv

LEMMA CallKeeps ==
  ASSUME AInv, Call PROVE AInv'
<1>0. TypeOK /\ DiskOK /\ Shape /\ Whole
  BY DEF AInv
<1>1. /\ pc = "idle" /\ calls < MaxCalls /\ outcome # "ok"
      /\ pc' = "task" /\ pos' = 1
      /\ created' = {} /\ rewrites' = [t \in Tasks |-> Parent(t)] /\ backups' = <<>>
      /\ before' = <<files, map>> /\ outcome' = "none" /\ fault' = "none" /\ calls' = calls + 1
      /\ UNCHANGED <<depends, steps, files, map, part, torn>>
  BY DEF Call, plan, disk
<1>2. request' \in Seq(Tasks) /\ \A i, j \in 1 .. Len(request') : request'[i] = request'[j] => i = j
  <2>1. CASE request' = request
    BY <1>0, <2>1 DEF TypeOK, Shape
  <2>2. CASE request' \in Requests
    <3>1. PICK n \in 1 .. Cardinality(Tasks) :
            request' \in {r \in [1 .. n -> Tasks] : \A i, j \in 1 .. n : r[i] = r[j] => i = j}
      BY <2>2 DEF Requests
    <3>2. n \in Nat
      BY <3>1, FS_CardinalityType, AtomizerAssumption
    <3>3. request' \in Seq(Tasks) /\ Len(request') = n
      BY <3>1, <3>2
    <3>4. QED
      BY <3>1, <3>3
  <2>3. QED
    BY <2>1, <2>2 DEF Call
<1>3. DOMAIN backups' = {} /\ Done' = {} /\ before'[1] = files /\ before'[2] = map
  BY <1>1 DEF Done
<1>4. \A t \in Tasks : Parent(t) \in Id
  BY <1>0, Ids
<1>5. TypeOK'
  <2>1. pos' \in 1 .. Len(request') + 1
    BY <1>1, <1>2
  <2>2. calls' \in 0 .. MaxCalls
    BY <1>0, <1>1, AtomizerAssumption DEF TypeOK
  <2>3. QED
    BY <1>0, <1>1, <1>2, <1>3, <1>4, <2>1, <2>2 DEF TypeOK, Stage, Outcome, Error
<1>6. DiskOK'
  BY <1>0, <1>1, <1>3 DEF DiskOK, GoodFiles, GoodMap, Known
<1>7. Shape'
  BY <1>1, <1>2 DEF Shape
<1>8. ~ Cut' /\ Partial' = {}
  BY <1>1 DEF Cut, Partial, Rollback
<1>9. Remembered'
  <2>1. \A i \in 1 .. pos' - 1 : FALSE
    BY <1>1
  <2>2. QED
    BY <1>1, <1>3, <1>8, <2>1 DEF Remembered
<1>10. Undo'
  BY <1>1, <1>3, <1>8 DEF Undo, Backed, Kept, OnDisk, Apart, Gone
<1>11. Whole' /\ FailureUndone'
  BY <1>0, <1>1, <1>3 DEF Whole, HasSteps, Subtasks, FailureUndone
<1>12. QED
  BY <1>5, <1>6, <1>7, <1>9, <1>10, <1>11 DEF AInv

(* An error leaves everything to the rollback.                             *)
LEMMA RaiseKeeps ==
  ASSUME AInv, pc \in Forward, pos <= Len(request), pc' = "drop created",
         fault' \in Error, fault' \in {"write", "unlink"} <=> pc = "write",
         torn' \subseteq {"split", "rollback"}, "rollback" \in torn' <=> "rollback" \in torn,
         UNCHANGED <<depends, steps, files, map, pos, part, created, rewrites, backups,
                     request, before, calls, outcome>>
  PROVE  AInv'
<1>0. TypeOK /\ DiskOK /\ Shape /\ Remembered /\ Undo /\ Whole /\ FailureUndone
  BY DEF AInv
<1>1. outcome = "none" /\ pc # "idle" /\ pc \in {"task", "check", "write", "map"}
  BY <1>0 DEF Shape, Forward
<1>2. TypeOK'
  BY <1>0 DEF TypeOK, Stage, Rollback
<1>3. DiskOK'
  BY <1>0 DEF DiskOK, GoodFiles, GoodMap, Known
<1>4. Shape'
  BY <1>0, <1>1 DEF Shape
<1>5. /\ Done' = Done /\ Gone' = Gone /\ Task' = Task
      /\ \A u : Parent(u)' = Parent(u) /\ LastSubtask(u)' = LastSubtask(u) /\ Subtasks(u)' = Subtasks(u)
  BY DEF Done, Gone, Parent, Task, LastSubtask, Subtasks
<1>6. ~ Cut /\ (Cut' <=> pc = "write")
  BY <1>1 DEF Cut, Rollback
<1>7. Partial' = Partial
  BY <1>1, <1>5, <1>6 DEF Partial
<1>8. Remembered'
  <2>1. Cut' => Task \notin Done /\ steps[Task] > 1 /\ part <= steps[Task] + 1
    BY <1>0, <1>6 DEF Remembered, Shape
  <2>2. /\ \A t \in Done : rewrites[t] = LastSubtask(t) /\ steps[t] > 1
        /\ created = UNION {Subtasks(t) : t \in Done}
        /\ Done \subseteq DOMAIN backups
        /\ \A t \in DOMAIN backups : \E i \in 1 .. Len(request) : request[i] = t
    BY <1>0 DEF Remembered
  <2>3. pc' \notin Forward /\ pc' \notin {"check", "write", "map"}
    BY DEF Forward
  <2>4. created' = UNION {Subtasks(t)' : t \in Done'}
    BY <1>5, <2>2
  <2>5. \A t \in Done' : rewrites'[t] = LastSubtask(t)' /\ steps'[t] > 1
    BY <1>5, <2>2
  <2>6. QED
    BY <1>5, <2>1, <2>2, <2>3, <2>4, <2>5 DEF Remembered
<1>9. Undo'
  <2>1. Backed' /\ Kept'
    BY <1>0, <1>1 DEF Undo, Backed, Kept, Untouched, Parent
  <2>2. OnDisk' /\ Apart'
    BY <1>0, <1>1, <1>5, <1>7 DEF Undo, OnDisk, Apart, Forward
  <2>3. QED
    BY <2>1, <2>2 DEF Undo
<1>10. Whole' /\ FailureUndone'
  BY <1>0, <1>1 DEF Whole, HasSteps, Subtasks, FailureUndone
<1>11. QED
  BY <1>2, <1>3, <1>4, <1>8, <1>9, <1>10 DEF AInv

LEMMA ProcessKeeps ==
  ASSUME AInv, ProcessTask PROVE AInv'
<1>0. TypeOK /\ DiskOK /\ Shape /\ Remembered /\ Undo /\ Whole /\ FailureUndone
  BY DEF AInv
<1>1. /\ pc = "task" /\ pos <= Len(request)
      /\ UNCHANGED <<depends, steps, map, part, created, rewrites, request, before, calls, outcome, torn>>
  BY DEF ProcessTask, plan, args, ends
<1>2. PICK t \in Tasks : t = Task
  BY <1>0, <1>1, TaskAt
<1>3. outcome = "none" /\ pos \in 1 .. Len(request) /\ t = request[pos] /\ t \notin DOMAIN backups
  <2>1. pos \in 1 .. Len(request)
    BY <1>0, <1>1, TaskAt
  <2>2. QED
    BY <1>0, <1>1, <1>2, <2>1 DEF Shape, Task, Remembered, Forward
<1>4. Done' = Done /\ Gone' = Gone /\ \A u : Parent(u)' = Parent(u)
  BY <1>1 DEF Done, Gone, Parent
<1>5. Partial = {} /\ ~ Cut
  BY <1>1 DEF Partial, Cut, Rollback
<1>6. CASE Parent(t) \notin DOMAIN files
  <2>1. pc' = "drop created" /\ fault' = "missing" /\ UNCHANGED <<files, backups, pos>>
    BY <1>2, <1>6 DEF ProcessTask, Raise
  <2>2. QED
    BY <1>0, <1>1, <2>1, RaiseKeeps DEF Forward, Error, TypeOK
<1>7. CASE Parent(t) \in DOMAIN files
  <2>1. /\ backups' = [u \in DOMAIN backups \cup {t} |-> IF u = t THEN files[Parent(u)] ELSE backups[u]]
        /\ files' = [files EXCEPT ![Parent(t)] = RewrittenDepends(t)]
        /\ \/ steps[t] <= 1 /\ pos' = pos + 1 /\ pc' = pc
           \/ steps[t] > 1 /\ pc' = "check" /\ pos' = pos
        /\ UNCHANGED fault
    BY <1>2, <1>7 DEF ProcessTask, BackedUp
  <2>2. /\ DOMAIN backups' = DOMAIN backups \cup {t} /\ backups'[t] = files[Parent(t)]
        /\ \A u \in DOMAIN backups : backups'[u] = backups[u]
    BY <1>3, <2>1
  <2>3. /\ DOMAIN files' = DOMAIN files
        /\ \A x \in DOMAIN files : x # Parent(t) => files'[x] = files[x]
        /\ files'[Parent(t)] = RewrittenDepends(t)
        /\ files' = [x \in DOMAIN files' |-> files'[x]]
    BY <1>7, <2>1
  <2>4. RewrittenDepends(t) \subseteq Id
    <3>1. files[Parent(t)] \subseteq Id
      BY <1>0, <1>7 DEF DiskOK, GoodFiles
    <3>2. \A x \in files[Parent(t)] : x[1] \in Tasks
      BY <3>1 DEF Id
    <3>3. Renamed(files[Parent(t)]) \subseteq Id
      BY <1>0, <3>1, <3>2 DEF Renamed, TypeOK
    <3>4. QED
      BY <3>1, <3>3 DEF RewrittenDepends
  <2>5. GoodFiles(files)'
    BY <1>0, <1>1, <2>3, <2>4 DEF DiskOK, GoodFiles, Known
  <2>6. DiskOK'
    <3>1. GoodMap(map)' /\ GoodFiles(before[1])' /\ GoodMap(before[2])'
      BY <1>0, <1>1 DEF DiskOK, GoodFiles, GoodMap, Known
    <3>2. QED
      BY <1>0, <1>1, <2>5, <3>1 DEF DiskOK
  <2>7. pos' \in 1 .. Len(request) + 1 /\ pc' \in {"task", "check"} /\ (pc' = "check" => pos' = pos /\ steps[t] > 1)
    BY <1>0, <1>1, <1>3, <2>1
  <2>8. TypeOK'
    <3>1. \A x \in DOMAIN files' : x \in Id /\ files'[x] \subseteq Id
      BY <2>5 DEF GoodFiles, Known
    <3>2. \A u \in DOMAIN backups' : u \in Tasks /\ backups'[u] \subseteq Id
      <4>1. files[Parent(t)] \subseteq Id
        BY <1>0, <1>7 DEF DiskOK, GoodFiles
      <4>2. QED
        BY <1>0, <2>2, <4>1 DEF TypeOK
    <3>3. QED
      BY <1>0, <1>1, <2>1, <2>7, <3>1, <3>2 DEF TypeOK, Stage
  <2>9. Shape'
    BY <1>0, <1>1, <1>2, <1>3, <2>7 DEF Shape, Task
  <2>10. ~ Cut' /\ Partial' = {}
    BY <2>7 DEF Cut, Partial, Rollback
  <2>11. Remembered'
    <3>1. \A u \in DOMAIN backups' : \E i \in 1 .. Len(request') : request'[i] = u
      BY <1>0, <1>1, <1>3, <2>2 DEF Remembered
    <3>2. \A i \in 1 .. pos' - 1 : request[i] \in DOMAIN backups' /\ (steps[request[i]] > 1 => request[i] \in Done)
      <4>1. \A i \in 1 .. pos - 1 : request[i] \in DOMAIN backups /\ (steps[request[i]] > 1 => request[i] \in Done)
        BY <1>0, <1>1 DEF Remembered, Forward
      <4>2. CASE pos' = pos
        BY <2>2, <4>1, <4>2
      <4>3. CASE pos' = pos + 1
        <5>1. steps[t] <= 1 /\ steps[t] \in Nat
          BY <1>0, <2>1, <1>3, <4>3, Ids
        <5>2. \A i \in 1 .. pos' - 1 : i \in 1 .. pos - 1 \/ i = pos
          BY <1>3, <4>3
        <5>3. ~ (steps[t] > 1)
          BY <5>1
        <5>4. QED
          BY <1>3, <2>2, <4>1, <5>2, <5>3
      <4>4. QED
        BY <2>1, <4>2, <4>3
    <3>3. \A i \in pos' .. Len(request) : request[i] \in DOMAIN backups' => i = pos' /\ pc' # "task"
      <4>1. \A i \in pos .. Len(request) : request[i] \notin DOMAIN backups
        BY <1>0, <1>1 DEF Remembered, Forward
      <4>2. \A i \in pos .. Len(request) : request[i] = t => i = pos
        BY <1>0, <1>3 DEF Shape
      <4>3. \A i \in pos' .. Len(request) : i \in pos .. Len(request)
        BY <1>3, <2>1
      <4>4. CASE pos' = pos + 1
        <5>1. \A i \in pos' .. Len(request) : i # pos
          BY <1>3, <4>4
        <5>2. QED
          BY <2>2, <4>1, <4>2, <4>3, <5>1
      <4>5. CASE pos' = pos /\ pc' = "check"
        BY <2>2, <4>1, <4>2, <4>3, <4>5
      <4>6. QED
        BY <2>1, <4>4, <4>5
    <3>4. t \notin Done /\ Done \subseteq DOMAIN backups'
      BY <1>0, <1>3, <2>2 DEF Remembered
    <3>5. pc' = "check" => Task' = t
      BY <1>1, <1>3, <2>7 DEF Task
    <3>6. /\ \A u \in Done : rewrites[u] = LastSubtask(u) /\ steps[u] > 1
          /\ created = UNION {Subtasks(u) : u \in Done}
      BY <1>0 DEF Remembered
    <3>7. /\ \A u \in Done' : rewrites'[u] = LastSubtask(u)' /\ steps'[u] > 1
          /\ created' = UNION {Subtasks(u)' : u \in Done'}
      BY <1>1, <1>4, <3>6 DEF LastSubtask, Subtasks
    <3>8. QED
      BY <1>1, <1>4, <2>2, <2>7, <2>10, <3>1, <3>2, <3>3, <3>4, <3>5, <3>7 DEF Remembered, Forward
  <2>12. Undo'
    <3>1. Untouched(Parent(t))
      BY <1>0, <1>3, Ids DEF Untouched, TypeOK
    <3>2. Parent(t) \in DOMAIN before[1] /\ files[Parent(t)] = before[1][Parent(t)]
      <4>1. Parent(t) \notin created
        BY <1>0, Ids DEF TypeOK
      <4>2. Parent(t) \in DOMAIN before[1]
        BY <1>0, <1>1, <1>5, <1>7, <4>1 DEF Undo, OnDisk, Forward
      <4>3. QED
        BY <1>0, <1>1, <3>1, <4>2 DEF Undo, Kept
    <3>3. Backed'
      BY <1>0, <1>1, <2>2, <1>4, <3>2 DEF Undo, Backed
    <3>4. Kept'
      <4>1. \A x : Untouched(x)' => Untouched(x) /\ x # Parent(t)
        BY <2>2, <1>4 DEF Untouched
      <4>2. QED
        BY <1>0, <1>1, <2>3, <2>7, <4>1 DEF Undo, Kept
    <3>5. OnDisk' /\ Apart'
      BY <1>0, <1>1, <1>4, <1>5, <2>3, <2>7, <2>10 DEF Undo, OnDisk, Apart, Forward
    <3>6. QED
      BY <3>3, <3>4, <3>5 DEF Undo
  <2>13. Whole' /\ FailureUndone'
    BY <1>0, <1>1, <1>3, <2>7 DEF Whole, HasSteps, Subtasks, FailureUndone
  <2>14. QED
    BY <2>6, <2>8, <2>9, <2>11, <2>12, <2>13 DEF AInv
<1>8. QED
  BY <1>6, <1>7

LEMMA CheckKeeps ==
  ASSUME AInv, CheckOutput PROVE AInv'
<1>0. TypeOK /\ DiskOK /\ Shape /\ Remembered /\ Undo /\ Whole /\ FailureUndone
  BY DEF AInv
<1>1. /\ pc = "check" /\ pos <= Len(request)
      /\ UNCHANGED <<depends, steps, files, map, pos, created, rewrites, backups, request, before,
                     calls, outcome, torn>>
  BY <1>0 DEF CheckOutput, plan, disk, memory, args, ends, Shape
<1>2. CASE /\ pc' = "drop created" /\ fault' \in {"exists", "too many", "nonce"}
           /\ UNCHANGED part
  BY <1>0, <1>1, <1>2, RaiseKeeps DEF Forward, Error, FaultSteps, TypeOK
<1>3. CASE /\ Subtasks(Task) \cap DOMAIN files = {} /\ ~ TooMany(Task)
           /\ pc' = "write" /\ part' = 1 /\ UNCHANGED fault
  <2>1. PICK t \in Tasks : t = Task
    BY <1>0, <1>1, TaskAt
  <2>2. steps[t] > 1 /\ steps[t] <= MaxSubtasks /\ steps[t] \in Nat /\ t \in DOMAIN backups /\ t \notin Done
    BY <1>0, <1>1, <1>3, <2>1, Ids, AtomizerAssumption DEF Shape, TooMany, Remembered
  <2>3. /\ Done' = Done /\ Gone' = Gone /\ Task' = Task
        /\ \A u : Parent(u)' = Parent(u) /\ LastSubtask(u)' = LastSubtask(u) /\ Subtasks(u)' = Subtasks(u)
    BY <1>1 DEF Done, Gone, Parent, Task, LastSubtask, Subtasks
  <2>4. ~ Cut /\ ~ Cut' /\ Partial = {} /\ Partial' = {}
    BY <1>1, <1>3 DEF Cut, Rollback, Partial
  <2>5. TypeOK'
    BY <1>0, <1>1, <1>3, AtomizerAssumption DEF TypeOK, Stage
  <2>6. DiskOK'
    BY <1>0, <1>1 DEF DiskOK, GoodFiles, GoodMap, Known
  <2>7. Shape'
    BY <1>0, <1>1, <1>3, <2>1, <2>2, <2>3 DEF Shape
  <2>8. Remembered'
    BY <1>0, <1>1, <1>3, <2>3, <2>4 DEF Remembered, Forward
  <2>9. Undo'
    <3>1. Backed' /\ Kept'
      BY <1>0, <1>1, <1>3 DEF Undo, Backed, Kept, Untouched, Parent
    <3>2. Subtasks(t) \cap DOMAIN before[1] = {}
      <4>1. ASSUME NEW x \in Subtasks(t), x \in DOMAIN before[1] PROVE FALSE
        <5>1. x \notin DOMAIN files
          BY <1>3, <2>1
        <5>2. x \notin Gone
          BY <1>0, <2>1, Ids DEF Gone, Done
        <5>3. QED
          BY <1>0, <1>1, <4>1, <5>1, <5>2 DEF Undo, OnDisk, Forward
      <4>2. QED
        BY <4>1
    <3>3. OnDisk' /\ Apart'
      BY <1>0, <1>1, <1>3, <2>1, <2>3, <2>4, <3>2 DEF Undo, OnDisk, Apart, Forward
    <3>4. QED
      BY <3>1, <3>3 DEF Undo
  <2>10. Whole' /\ FailureUndone'
    BY <1>0, <1>1, <1>3 DEF Whole, HasSteps, Subtasks, FailureUndone, Shape
  <2>11. QED
    BY <2>5, <2>6, <2>7, <2>8, <2>9, <2>10 DEF AInv
<1>4. QED
  BY <1>2, <1>3 DEF CheckOutput, Raise

LEMMA WriteKeeps ==
  ASSUME AInv, WriteSubtask PROVE AInv'
<1>0. TypeOK /\ DiskOK /\ Shape /\ Remembered /\ Undo /\ Whole /\ FailureUndone
  BY DEF AInv
<1>1. /\ pc = "write" /\ part <= steps[Task] /\ pos <= Len(request)
      /\ UNCHANGED <<depends, steps, map, pos, created, rewrites, backups, request, before,
                     calls, outcome>>
  BY <1>0 DEF WriteSubtask, plan, memory, args, Shape
<1>2. CASE /\ pc' = "drop created" /\ fault' = "write" /\ torn' = torn \cup {"split"}
           /\ UNCHANGED <<files, part>>
  BY <1>0, <1>1, <1>2, RaiseKeeps DEF Forward, Error, FaultSteps, TypeOK
<1>3. CASE /\ files' = [x \in DOMAIN files \cup {<<Task, part>>} |->
                          IF x = <<Task, part>>
                          THEN SubtaskDepends(Task, part, files[Parent(Task)])
                          ELSE files[x]]
           /\ part' = part + 1
           /\ UNCHANGED <<pc, fault, torn>>
  <2>1. PICK t \in Tasks : t = Task
    BY <1>0, <1>1, TaskAt
  <2>2. PICK x0 : x0 = <<t, part>>
    OBVIOUS
  <2>3. /\ steps[t] > 1 /\ steps[t] <= MaxSubtasks /\ steps[t] \in Nat
        /\ t \in DOMAIN backups /\ t \notin Done /\ part \in 1 .. steps[t] /\ part \in Nat
    <3>1. steps[t] > 1 /\ steps[t] <= MaxSubtasks
      BY <1>0, <1>1, <2>1 DEF Shape
    <3>2. t \in DOMAIN backups /\ t \notin Done
      BY <1>0, <1>1, <2>1 DEF Remembered
    <3>3. steps[t] \in Nat
      BY <1>0, Ids
    <3>4. part \in 1 .. MaxSubtasks + 1
      BY <1>0 DEF TypeOK
    <3>5. part \in 1 .. steps[t] /\ part \in Nat
      BY <1>1, <2>1, <3>3, <3>4, AtomizerAssumption
    <3>6. QED
      BY <3>1, <3>2, <3>3, <3>5
  <2>4. /\ x0 \in Subtasks(t) /\ Known(x0) /\ x0 \in Id /\ x0[2] = part /\ x0[1] = t
        /\ \A u \in Tasks : x0 # Parent(u)
    <3>1. x0 \in Subtasks(t) /\ Known(x0)
      BY <1>0, <2>2, <2>3, Ids
    <3>2. x0[1] = t /\ x0[2] = part /\ part # 0
      BY <2>2, <2>3
    <3>3. \A u \in Tasks : Parent(u)[2] = 0
      BY DEF Parent
    <3>4. QED
      BY <3>1, <3>2, <3>3 DEF Known
  <2>5. /\ Done' = Done /\ Gone' = Gone /\ Task' = Task
        /\ \A u : Parent(u)' = Parent(u) /\ LastSubtask(u)' = LastSubtask(u) /\ Subtasks(u)' = Subtasks(u)
    BY <1>1 DEF Done, Gone, Parent, Task, LastSubtask, Subtasks
  <2>6. ~ Cut /\ ~ Cut' /\ Partial' = Partial \cup {x0}
    <3>1. ~ Cut /\ ~ Cut'
      BY <1>1, <1>3 DEF Cut, Rollback
    <3>2. Partial = {<<t, i>> : i \in 1 .. part - 1} /\ Partial' = {<<t, i>> : i \in 1 .. part}
      BY <1>1, <1>3, <2>1, <2>3, <2>5 DEF Partial
    <3>3. 1 .. part = (1 .. part - 1) \cup {part}
      BY <2>3
    <3>4. QED
      BY <2>2, <3>1, <3>2, <3>3
  <2>7. /\ DOMAIN files' = DOMAIN files \cup {x0}
        /\ files' = [x \in DOMAIN files' |-> files'[x]]
        /\ \A x \in DOMAIN files : x # x0 => files'[x] = files[x]
        /\ files'[x0] = SubtaskDepends(t, part, files[Parent(t)])
    BY <1>3, <2>1, <2>2
  <2>8. Parent(t) \in DOMAIN files
    <3>1. Parent(t) \in DOMAIN before[1] /\ Parent(t) \notin Gone
      BY <1>0, <1>1, <2>3, Ids DEF Undo, Backed, Gone, Done
    <3>2. QED
      BY <1>0, <1>1, <3>1 DEF Undo, OnDisk, Forward
  <2>9. files'[x0] \subseteq Id
    <3>1. files[Parent(t)] \subseteq Id
      BY <1>0, <2>8 DEF DiskOK, GoodFiles
    <3>2. part # 1 => <<t, part - 1>> \in Id
      BY <2>3, AtomizerAssumption DEF Id
    <3>3. QED
      BY <2>7, <3>1, <3>2 DEF SubtaskDepends
  <2>10. GoodFiles(files)'
    BY <1>0, <1>1, <2>4, <2>7, <2>9 DEF DiskOK, GoodFiles, Known
  <2>11. DiskOK'
    <3>1. GoodMap(map)' /\ GoodFiles(before[1])' /\ GoodMap(before[2])'
      BY <1>0, <1>1 DEF DiskOK, GoodFiles, GoodMap, Known
    <3>2. QED
      BY <1>0, <1>1, <2>10, <3>1 DEF DiskOK
  <2>12. TypeOK'
    <3>1. \A x \in DOMAIN files' : x \in Id /\ files'[x] \subseteq Id
      BY <2>10 DEF GoodFiles, Known
    <3>2. part' \in 1 .. MaxSubtasks + 1
      BY <1>3, <2>3, AtomizerAssumption
    <3>3. QED
      BY <1>0, <1>1, <1>3, <3>1, <3>2 DEF TypeOK
  <2>13. Shape'
    BY <1>0, <1>1, <1>3, <2>1, <2>3, <2>5 DEF Shape
  <2>14. Remembered'
    BY <1>0, <1>1, <1>3, <2>5, <2>6 DEF Remembered, Forward
  <2>15. Undo'
    <3>1. x0 \notin DOMAIN before[1]
      BY <1>0, <1>1, <2>1, <2>4 DEF Undo, Apart
    <3>2. Backed'
      BY <1>0, <1>1 DEF Undo, Backed, Parent
    <3>3. Kept'
      BY <1>0, <1>1, <1>3, <2>7, <3>1 DEF Undo, Kept, Untouched, Parent
    <3>4. OnDisk' /\ Apart'
      BY <1>0, <1>1, <1>3, <2>5, <2>6, <2>7, <3>1 DEF Undo, OnDisk, Apart, Forward
    <3>5. QED
      BY <3>2, <3>3, <3>4 DEF Undo
  <2>16. Whole' /\ FailureUndone'
    BY <1>0, <1>1, <1>3 DEF Whole, HasSteps, Subtasks, FailureUndone, Shape
  <2>17. QED
    BY <2>11, <2>12, <2>13, <2>14, <2>15, <2>16 DEF AInv
<1>4. QED
  BY <1>2, <1>3 DEF WriteSubtask, Raise, Torn

LEMMA UnlinkKeeps ==
  ASSUME AInv, UnlinkParent PROVE AInv'
<1>0. TypeOK /\ DiskOK /\ Shape /\ Remembered /\ Undo /\ Whole /\ FailureUndone
  BY DEF AInv
<1>1. /\ pc = "write" /\ part > steps[Task] /\ pos <= Len(request)
      /\ UNCHANGED <<depends, steps, map, pos, part, backups, request, before, calls, outcome>>
  BY <1>0 DEF UnlinkParent, plan, args, Shape
<1>2. CASE /\ pc' = "drop created" /\ fault' = "unlink" /\ torn' = torn \cup {"split"}
           /\ UNCHANGED <<files, created, rewrites>>
  BY <1>0, <1>1, <1>2, RaiseKeeps DEF Forward, Error, FaultSteps, TypeOK
<1>3. CASE /\ files' = [x \in DOMAIN files \ {Parent(Task)} |-> files[x]]
           /\ created' = created \cup Subtasks(Task)
           /\ rewrites' = [rewrites EXCEPT ![Task] = LastSubtask(Task)]
           /\ pc' = "map"
           /\ UNCHANGED <<fault, torn>>
  <2>1. PICK t \in Tasks : t = Task
    BY <1>0, <1>1, TaskAt
  <2>2. /\ steps[t] > 1 /\ steps[t] <= MaxSubtasks /\ steps[t] \in Nat
        /\ t \in DOMAIN backups /\ t \notin Done /\ part = steps[t] + 1
    <3>1. steps[t] > 1 /\ steps[t] <= MaxSubtasks
      BY <1>0, <1>1, <2>1 DEF Shape
    <3>2. t \in DOMAIN backups /\ t \notin Done
      BY <1>0, <1>1, <2>1 DEF Remembered
    <3>3. steps[t] \in Nat
      BY <1>0, Ids
    <3>4. part \in 1 .. MaxSubtasks + 1 /\ part <= steps[t] + 1
      BY <1>0, <1>1, <2>1 DEF TypeOK, Shape
    <3>5. part = steps[t] + 1
      BY <1>1, <2>1, <3>3, <3>4, AtomizerAssumption
    <3>6. QED
      BY <3>1, <3>2, <3>3, <3>5
  <2>3. /\ Task' = t
        /\ \A u : Parent(u)' = Parent(u) /\ LastSubtask(u)' = LastSubtask(u) /\ Subtasks(u)' = Subtasks(u)
    BY <1>1, <2>1 DEF Parent, Task, LastSubtask, Subtasks
  <2>4. LastSubtask(t) \in Subtasks(t) /\ LastSubtask(t) # Parent(t) /\ LastSubtask(t) \in Id
    <3>1. LastSubtask(t) \in Subtasks(t)
      BY <1>0, <2>2, Ids DEF LastSubtask
    <3>2. LastSubtask(t)[2] # Parent(t)[2]
      BY <2>2 DEF LastSubtask, Parent
    <3>3. QED
      BY <1>0, <2>2, <3>1, <3>2, Ids DEF Known
  <2>5. /\ rewrites' \in [Tasks -> Id] /\ rewrites'[t] = LastSubtask(t)
        /\ \A u \in Tasks : u # t => rewrites'[u] = rewrites[u]
    BY <1>0, <1>3, <2>1, <2>4 DEF TypeOK
  <2>6. Done' = Done \cup {t} /\ Gone' = Gone \cup {Parent(t)}
    <3>1. Done' = Done \cup {t}
      BY <2>3, <2>4, <2>5 DEF Done
    <3>2. QED
      BY <2>3, <3>1 DEF Gone
  <2>7. ~ Cut /\ ~ Cut' /\ Partial = Subtasks(t) /\ Partial' = {}
    <3>1. ~ Cut /\ ~ Cut' /\ Partial' = {}
      BY <1>1, <1>3 DEF Cut, Rollback, Partial
    <3>2. part - 1 = steps[t]
      BY <2>2
    <3>3. Partial = Subtasks(t)
      BY <1>1, <2>1, <3>2 DEF Partial, Subtasks
    <3>4. QED
      BY <3>1, <3>3
  <2>8. /\ DOMAIN files' = DOMAIN files \ {Parent(t)}
        /\ files' = [x \in DOMAIN files' |-> files'[x]]
        /\ \A x \in DOMAIN files' : files'[x] = files[x]
    BY <1>3, <2>1
  <2>9. DiskOK'
    <3>1. GoodFiles(files)'
      BY <1>0, <1>1, <2>8 DEF DiskOK, GoodFiles, Known
    <3>2. GoodMap(map)' /\ GoodFiles(before[1])' /\ GoodMap(before[2])'
      BY <1>0, <1>1 DEF DiskOK, GoodFiles, GoodMap, Known
    <3>3. QED
      BY <1>0, <1>1, <3>1, <3>2 DEF DiskOK
  <2>10. TypeOK'
    <3>1. \A x \in DOMAIN files' : x \in Id /\ files'[x] \subseteq Id
      BY <1>0, <2>8 DEF TypeOK
    <3>2. created' \subseteq Id \ {Parent(u) : u \in Tasks}
      <4>1. ASSUME NEW x \in Subtasks(t) PROVE x \in Id /\ \A u \in Tasks : x # Parent(u)
        <5>1. x[2] # 0 /\ x \in Id
          BY <1>0, <2>2, Ids DEF Known
        <5>2. \A u \in Tasks : Parent(u)[2] = 0
          BY DEF Parent
        <5>3. QED
          BY <5>1, <5>2
      <4>2. QED
        BY <1>0, <1>3, <2>1, <4>1 DEF TypeOK
    <3>3. {Parent(u) : u \in Tasks}' = {Parent(u) : u \in Tasks}
      BY DEF Parent
    <3>4. QED
      BY <1>0, <1>1, <1>3, <2>5, <3>1, <3>2, <3>3 DEF TypeOK, Stage
  <2>11. Shape'
    BY <1>0, <1>1, <1>3, <2>1, <2>2, <2>3 DEF Shape
  <2>12. Remembered'
    <3>1. \A u \in Done' : rewrites'[u] = LastSubtask(u) /\ steps[u] > 1
      BY <1>0, <2>2, <2>5, <2>6 DEF Remembered, Done
    <3>2. created' = UNION {Subtasks(u) : u \in Done'}
      <4>1. created = UNION {Subtasks(u) : u \in Done}
        BY <1>0 DEF Remembered
      <4>2. QED
        BY <1>3, <2>1, <2>6, <4>1
    <3>3. created' = UNION {Subtasks(u)' : u \in Done'}
      BY <2>3, <3>2
    <3>4. Done' \subseteq DOMAIN backups
      BY <1>0, <2>2, <2>6 DEF Remembered
    <3>5. \A i \in 1 .. pos - 1 : request[i] \in DOMAIN backups /\ (steps[request[i]] > 1 => request[i] \in Done')
      BY <1>0, <1>1, <2>6 DEF Remembered, Forward
    <3>6. \A i \in pos .. Len(request) : request[i] \in DOMAIN backups => i = pos
      BY <1>0, <1>1 DEF Remembered, Forward
    <3>7. \A u \in DOMAIN backups : \E i \in 1 .. Len(request) : request[i] = u
      BY <1>0 DEF Remembered
    <3>8. QED
      BY <1>1, <1>3, <2>2, <2>3, <2>6, <2>7, <3>1, <3>3, <3>4, <3>5, <3>6, <3>7 DEF Remembered, Forward
  <2>13. Undo'
    <3>1. Backed'
      BY <1>0, <1>1 DEF Undo, Backed, Parent
    <3>2. Kept'
      <4>1. \A x : Untouched(x)' => Untouched(x) /\ x # Parent(t)
        BY <1>1, <2>2, <2>3 DEF Untouched
      <4>2. QED
        BY <1>0, <1>1, <1>3, <2>8, <4>1 DEF Undo, Kept
    <3>3. Parent(t) \notin created /\ Parent(t) \notin Partial
      <4>1. Parent(t) \notin created
        BY <1>0 DEF TypeOK
      <4>2. \A x \in Subtasks(t) : x[2] # 0
        BY <1>0, Ids
      <4>3. QED
        BY <1>0, <2>7, <4>1, <4>2, Ids
    <3>4. DOMAIN files = ((DOMAIN before[1] \ Gone) \cup created) \cup Subtasks(t)
      BY <1>0, <1>1, <2>7 DEF Undo, OnDisk, Forward
    <3>5. DOMAIN files' = ((DOMAIN before[1] \ Gone') \cup created') \cup Partial'
      BY <1>3, <2>1, <2>6, <2>7, <2>8, <3>3, <3>4
    <3>6. OnDisk'
      BY <1>1, <1>3, <3>5 DEF OnDisk
    <3>7. Apart'
      BY <1>0, <1>1, <1>3, <2>1, <2>7 DEF Undo, Apart
    <3>8. QED
      BY <3>1, <3>2, <3>6, <3>7 DEF Undo
  <2>14. Whole' /\ FailureUndone'
    BY <1>0, <1>1, <1>3 DEF Whole, HasSteps, Subtasks, FailureUndone, Shape
  <2>15. QED
    BY <2>9, <2>10, <2>11, <2>12, <2>13, <2>14 DEF AInv
<1>4. QED
  BY <1>2, <1>3 DEF UnlinkParent, Raise, Torn

LEMMA MapKeeps ==
  ASSUME AInv, RewriteMap PROVE AInv'
<1>0. TypeOK /\ DiskOK /\ Shape /\ Remembered /\ Undo /\ Whole /\ FailureUndone
  BY DEF AInv
<1>1. /\ pc = "map" /\ pos <= Len(request)
      /\ UNCHANGED <<depends, steps, files, part, created, rewrites, backups, request, before,
                     calls, outcome, torn>>
  BY <1>0 DEF RewriteMap, plan, memory, args, ends, Shape
<1>2. CASE /\ pc' = "drop created" /\ fault' = "map" /\ UNCHANGED <<map, pos>>
  BY <1>0, <1>1, <1>2, RaiseKeeps DEF Forward, Error, FaultSteps, TypeOK
<1>3. CASE /\ map' = [x \in (DOMAIN map \ {Parent(Task)}) \cup Subtasks(Task) |->
                        IF x[1] = Task THEN [deps |-> files[x], short |-> FALSE]
                                       ELSE RewrittenLine(map[x], Task)]
           /\ pos' = pos + 1 /\ pc' = "task" /\ UNCHANGED fault
  <2>1. PICK t \in Tasks : t = Task
    BY <1>0, <1>1, TaskAt
  <2>2. /\ steps[t] > 1 /\ steps[t] <= MaxSubtasks /\ steps[t] \in Nat
        /\ t \in DOMAIN backups /\ t \in Done /\ pos \in 1 .. Len(request) /\ t = request[pos]
    BY <1>0, <1>1, <2>1, Ids, TaskAt DEF Shape, Remembered, Task
  <2>3. /\ Done' = Done /\ Gone' = Gone
        /\ \A u : Parent(u)' = Parent(u) /\ LastSubtask(u)' = LastSubtask(u) /\ Subtasks(u)' = Subtasks(u)
    BY <1>1 DEF Done, Gone, Parent, LastSubtask, Subtasks
  <2>4. ~ Cut /\ ~ Cut' /\ Partial = {} /\ Partial' = {}
    BY <1>1, <1>3 DEF Cut, Rollback, Partial
  <2>5. Subtasks(t) \subseteq DOMAIN files
    BY <1>0, <1>1, <2>2 DEF Undo, OnDisk, Forward, Remembered
  <2>6. \A x \in DOMAIN map' : Known(x) /\ map'[x] \in Line
    <3>1. ASSUME NEW x \in DOMAIN map' PROVE Known(x) /\ map'[x] \in Line
      <4>1. (x \in DOMAIN map /\ x # Parent(t)) \/ x \in Subtasks(t)
        BY <1>3, <2>1, <3>1
      <4>2. Known(x)
        BY <1>0, <2>2, <4>1, Ids DEF DiskOK, GoodMap
      <4>3. CASE x[1] = t
        <5>1. x \in Subtasks(t)
          BY <1>0, <4>1, <4>2, <4>3, KnownIs
        <5>2. files[x] \subseteq Id
          BY <1>0, <2>5, <5>1 DEF TypeOK
        <5>3. map'[x] = [deps |-> files[x], short |-> FALSE]
          BY <1>3, <2>1, <3>1, <4>3
        <5>4. QED
          BY <4>2, <5>2, <5>3 DEF Line
      <4>4. CASE x[1] # t
        <5>1. x \in DOMAIN map /\ map[x] \in Line
          BY <1>0, <4>1, <4>4, Ids DEF TypeOK
        <5>2. map'[x] = RewrittenLine(map[x], t)
          BY <1>3, <2>1, <3>1, <4>4
        <5>3. LastSubtask(t) \in Id
          BY <1>0, <2>2, Ids DEF LastSubtask, Known
        <5>4. RewrittenLine(map[x], t) \in Line
          BY <5>1, <5>3 DEF RewrittenLine, Line
        <5>5. QED
          BY <4>2, <5>2, <5>4
      <4>5. QED
        BY <4>3, <4>4
    <3>2. QED
      BY <3>1
  <2>7. DiskOK'
    <3>1. GoodFiles(files)' /\ GoodFiles(before[1])' /\ GoodMap(before[2])'
      BY <1>0, <1>1 DEF DiskOK, GoodFiles, GoodMap, Known
    <3>2. GoodMap(map)'
      BY <1>1, <2>6 DEF GoodMap, Known
    <3>3. QED
      BY <1>0, <1>1, <3>1, <3>2 DEF DiskOK
  <2>8. TypeOK'
    <3>1. \A x \in DOMAIN map' : x \in Id /\ map'[x] \in Line
      BY <2>6 DEF Known
    <3>2. pos' \in 1 .. Len(request') + 1
      BY <1>1, <1>3, <2>2
    <3>3. QED
      BY <1>0, <1>1, <1>3, <3>1, <3>2 DEF TypeOK, Stage
  <2>9. Shape'
    BY <1>0, <1>1, <1>3 DEF Shape
  <2>10. Remembered'
    <3>1. \A i \in 1 .. pos' - 1 : request[i] \in DOMAIN backups /\ (steps[request[i]] > 1 => request[i] \in Done)
      <4>1. \A i \in 1 .. pos' - 1 : i \in 1 .. pos - 1 \/ i = pos
        BY <1>3, <2>2
      <4>2. QED
        BY <1>0, <1>1, <2>2, <4>1 DEF Remembered, Forward
    <3>2. \A i \in pos' .. Len(request) : request[i] \notin DOMAIN backups
      <4>1. \A i \in pos' .. Len(request) : i \in pos .. Len(request) /\ i # pos
        BY <1>3, <2>2
      <4>2. QED
        BY <1>0, <1>1, <4>1 DEF Remembered, Forward
    <3>3. /\ \A u \in Done : rewrites[u] = LastSubtask(u) /\ steps[u] > 1
          /\ created = UNION {Subtasks(u) : u \in Done} /\ Done \subseteq DOMAIN backups
          /\ \A u \in DOMAIN backups : \E i \in 1 .. Len(request) : request[i] = u
      BY <1>0 DEF Remembered
    <3>4. created' = UNION {Subtasks(u)' : u \in Done'}
      BY <1>1, <2>3, <3>3
    <3>5. QED
      BY <1>1, <1>3, <2>3, <2>4, <3>1, <3>2, <3>3, <3>4 DEF Remembered, Forward
  <2>11. Undo'
    <3>1. Backed' /\ Kept'
      BY <1>0, <1>1, <1>3 DEF Undo, Backed, Kept, Untouched, Parent
    <3>2. OnDisk' /\ Apart'
      BY <1>0, <1>1, <1>3, <2>3, <2>4 DEF Undo, OnDisk, Apart, Forward
    <3>3. QED
      BY <3>1, <3>2 DEF Undo
  <2>12. Whole' /\ FailureUndone'
    BY <1>0, <1>1, <1>3 DEF Whole, HasSteps, Subtasks, FailureUndone, Shape
  <2>13. QED
    BY <2>7, <2>8, <2>9, <2>10, <2>11, <2>12 DEF AInv
<1>4. QED
  BY <1>2, <1>3 DEF RewriteMap, Raise

(* Between its steps too a call leaves every program on disk: only the     *)
(* rollback, before it has restored the parents, does not.                 *)
LEMMA StepsKept ==
  ASSUME AInv, pc \in Forward \cup {"restore map"}, "rollback" \notin torn, NEW t \in Tasks
  PROVE  HasSteps(files, t)
<1>0. TypeOK /\ DiskOK /\ Remembered /\ Undo /\ Whole /\ pc # "idle"
  BY DEF AInv, Forward
<1>1. HasSteps(before[1], t)
  BY <1>0 DEF Whole
<1>2. CASE t \in Done /\ pc \in Forward
  <2>1. steps[t] > 1 /\ Subtasks(t) \subseteq created
    BY <1>0, <1>2 DEF Remembered
  <2>2. QED
    BY <1>0, <1>2, <2>1 DEF HasSteps, Undo, OnDisk
<1>3. CASE t \notin Done \/ pc = "restore map"
  <2>1. \A x \in DOMAIN before[1] : x \notin Gone \/ pc = "restore map" => x \in DOMAIN files
    BY <1>0 DEF Undo, OnDisk
  <2>2. Parent(t) \notin Gone \/ pc = "restore map"
    BY <1>0, <1>3, Ids DEF Gone, Done
  <2>3. \A x \in Subtasks(t) : x \notin Gone
    BY <1>0, SubtaskNotParent DEF Gone
  <2>4. QED
    BY <1>1, <2>1, <2>2, <2>3 DEF HasSteps
<1>4. QED
  BY <1>2, <1>3

(* A call ends; only one killed in its rollback leaves other files.        *)
LEMMA EndKeeps ==
  ASSUME AInv, pc # "idle", pc' = "idle",
         outcome' \in {"ok", "killed"}, torn' \subseteq {"split", "rollback"},
         torn \subseteq torn', pc \notin Forward => "rollback" \in torn',
         files' = [x \in DOMAIN files' |-> files'[x]],
         \A x \in DOMAIN files' : Known(x) /\ files'[x] \subseteq Id,
         pc \in Forward => files' = files,
         UNCHANGED <<depends, steps, map, pos, part, created, rewrites, backups, request,
                     before, calls, fault>>
  PROVE  AInv'
<1>0. TypeOK /\ DiskOK /\ Shape /\ Remembered /\ Undo /\ Whole /\ FailureUndone
  BY DEF AInv
<1>1. TypeOK'
  <2>1. \A x \in DOMAIN files' : x \in Id
    BY DEF Known
  <2>2. QED
    BY <1>0, <2>1 DEF TypeOK, Stage, Outcome
<1>2. DiskOK'
  <2>1. GoodFiles(files)'
    BY DEF GoodFiles, Known
  <2>2. GoodMap(map)' /\ GoodFiles(before[1])' /\ GoodMap(before[2])'
    BY <1>0 DEF DiskOK, GoodFiles, GoodMap, Known
  <2>3. QED
    BY <1>0, <2>1, <2>2 DEF DiskOK
<1>3. Shape' /\ Undo' /\ FailureUndone'
  BY <1>0 DEF Shape, Undo, FailureUndone
<1>4. /\ Done' = Done /\ ~ Cut'
      /\ \A u : LastSubtask(u)' = LastSubtask(u) /\ Subtasks(u)' = Subtasks(u)
  BY DEF Done, LastSubtask, Subtasks, Parent, Cut, Rollback
<1>5. Remembered'
  <2>1. /\ \A u \in Done : rewrites[u] = LastSubtask(u) /\ steps[u] > 1
        /\ created = UNION {Subtasks(u) : u \in Done} /\ Done \subseteq DOMAIN backups
        /\ \A u \in DOMAIN backups : \E i \in 1 .. Len(request) : request[i] = u
    BY <1>0 DEF Remembered
  <2>2. created' = UNION {Subtasks(u)' : u \in Done'}
    BY <1>4, <2>1
  <2>3. QED
    BY <1>4, <2>1, <2>2 DEF Remembered, Forward
<1>6. Whole'
  <2>1. SUFFICES ASSUME "rollback" \notin torn', NEW t \in Tasks PROVE HasSteps(files, t)'
    BY DEF Whole
  <2>2. HasSteps(files, t)
    BY <2>1, StepsKept
  <2>3. files' = files
    BY <2>1
  <2>4. QED
    BY <2>2, <2>3 DEF HasSteps, Subtasks, Parent
<1>7. QED
  BY <1>1, <1>2, <1>3, <1>5, <1>6 DEF AInv

LEMMA SucceedKeeps ==
  ASSUME AInv, Succeed PROVE AInv'
<1>1. files = [x \in DOMAIN files |-> files[x]] /\ \A x \in DOMAIN files : Known(x) /\ files[x] \subseteq Id
  BY DEF AInv, DiskOK, GoodFiles
<1>2. QED
  BY <1>1, EndKeeps DEF Succeed, plan, disk, memory, args, Forward, AInv, TypeOK

(* What a call has created is not what it left half written, and what it   *)
(* has backed up is what it found.                                         *)
LEMMA CreatedApart ==
  ASSUME AInv, pc = "drop created" PROVE Partial \cap created = {}
<1>0. TypeOK /\ Remembered
  BY DEF AInv
<1>1. ASSUME NEW x \in Partial, x \in created PROVE FALSE
  <2>0. Cut /\ \E i \in 1 .. part - 1 : x = <<Task, i>>
    BY <1>1 DEF Partial
  <2>1. x[1] = Task /\ Task \notin Done
    <3>1. Task \notin Done
      BY <1>0, <2>0 DEF Remembered
    <3>2. x[1] = Task
      <4>1. PICK i \in 1 .. part - 1 : x = <<Task, i>>
        BY <2>0
      <4>2. QED
        BY <4>1
    <3>3. QED
      BY <3>1, <3>2
  <2>2. PICK u \in Done : x \in Subtasks(u)
    BY <1>0, <1>1 DEF Remembered
  <2>3. x[1] = u
    BY <1>0, <2>2, Ids DEF Done
  <2>4. QED
    BY <2>1, <2>2, <2>3
<1>2. QED
  BY <1>1

LEMMA BackupsFound ==
  ASSUME AInv, pc # "idle"
  PROVE  \A x \in Restored : /\ x[1] \in DOMAIN backups /\ x = Parent(x[1])
                             /\ x \in DOMAIN before[1] /\ backups[x[1]] = before[1][x]
<1>0. TypeOK /\ Undo
  BY DEF AInv
<1>1. SUFFICES ASSUME NEW t \in DOMAIN backups
      PROVE  /\ Parent(t)[1] = t /\ Parent(t) \in DOMAIN before[1]
             /\ backups[t] = before[1][Parent(t)]
  BY DEF Restored
<1>2. QED
  BY <1>0, Ids DEF Undo, Backed, TypeOK

(* Every file is as it was now or when the call began, however much of a   *)
(* rollback has been done.                                                 *)
LEMMA CutLeaves ==
  ASSUME AInv, pc # "idle", CutShort
  PROVE  /\ files' = [x \in DOMAIN files' |-> files'[x]]
         /\ \A x \in DOMAIN files' :
              \/ x \in DOMAIN files /\ files'[x] = files[x]
              \/ x \in DOMAIN before[1] /\ files'[x] = before[1][x]
         /\ (DOMAIN before[1] \ Gone) \cup Partial \subseteq DOMAIN files'
         /\ DOMAIN files' \subseteq (DOMAIN before[1] \cup created) \cup Partial
         /\ pc \in Forward => files' = files
<1>0. /\ TypeOK /\ OnDisk /\ Apart /\ files = [x \in DOMAIN files |-> files[x]]
      /\ pc \in Forward \cup {"drop created", "restore parents", "restore map"}
  BY DEF AInv, Undo, DiskOK, GoodFiles, TypeOK, Stage, Rollback, Forward
<1>1. /\ (DOMAIN before[1] \ Gone) \cup Partial \subseteq DOMAIN files
      /\ DOMAIN files \subseteq (DOMAIN before[1] \cup created) \cup Partial
  BY <1>0 DEF OnDisk
<1>2. CASE pc \notin {"drop created", "restore parents"}
  <2>1. files' = files
    BY <1>2 DEF CutShort
  <2>2. QED
    BY <1>0, <1>1, <2>1
<1>3. CASE pc = "drop created"
  <2>1. PICK S \in SUBSET created : files' = [x \in DOMAIN files \ S |-> files[x]]
    BY <1>3 DEF CutShort, Dropped
  <2>2. DOMAIN files' = DOMAIN files \ S /\ \A x \in DOMAIN files' : files'[x] = files[x]
    BY <2>1
  <2>3. Partial \cap created = {} /\ created \cap DOMAIN before[1] = {}
    BY <1>0, <1>3, CreatedApart DEF Apart
  <2>4. QED
    BY <1>1, <1>3, <2>1, <2>2, <2>3 DEF Forward
<1>4. CASE pc = "restore parents"
  <2>1. PICK S \in SUBSET Restored :
          files' = [x \in DOMAIN files \cup S |-> IF x \in S THEN backups[x[1]] ELSE files[x]]
    BY <1>4 DEF CutShort, PutBack
  <2>2. /\ DOMAIN files' = DOMAIN files \cup S
        /\ \A x \in S : files'[x] = backups[x[1]]
        /\ \A x \in DOMAIN files : x \notin S => files'[x] = files[x]
    BY <2>1
  <2>3. \A x \in S : x \in DOMAIN before[1] /\ backups[x[1]] = before[1][x]
    BY BackupsFound
  <2>4. QED
    BY <1>1, <1>4, <2>1, <2>2, <2>3 DEF Forward
<1>5. QED
  BY <1>0, <1>2, <1>3, <1>4

LEMMA KilledKeeps ==
  ASSUME AInv, Killed PROVE AInv'
<1>1. torn \subseteq {"split", "rollback"} /\ pc \in Stage
  BY DEF AInv, TypeOK
<1>2. pc # "idle" /\ pc \notin Forward => pc \in Rollback
  BY <1>1 DEF Stage, Forward, Rollback
<1>3. /\ files' = [x \in DOMAIN files' |-> files'[x]]
      /\ \A x \in DOMAIN files' :
           \/ x \in DOMAIN files /\ files'[x] = files[x]
           \/ x \in DOMAIN before[1] /\ files'[x] = before[1][x]
      /\ pc \in Forward => files' = files
  BY CutLeaves DEF Killed
<1>4. \A x \in DOMAIN files' : Known(x) /\ files'[x] \subseteq Id
  BY <1>3 DEF AInv, DiskOK, GoodFiles
<1>5. QED
  BY <1>1, <1>2, <1>3, <1>4, EndKeeps DEF Killed, plan, memory, args, Torn

(* What a step of the rollback leaves alone.                               *)
LEMMA RollbackKeepsMemory ==
  ASSUME AInv, pc \in Rollback, pc' \in Rollback \cup {"idle"},
         UNCHANGED <<depends, steps, pos, part, created, rewrites, backups, request, fault>>
  PROVE  /\ Remembered' /\ Done' = Done /\ Gone' = Gone
         /\ pc' \in Rollback => Partial' = Partial
<1>1. /\ Done' = Done /\ Gone' = Gone /\ Task' = Task /\ (Cut' => Cut)
      /\ \A u : LastSubtask(u)' = LastSubtask(u) /\ Subtasks(u)' = Subtasks(u)
  BY DEF Done, Gone, LastSubtask, Subtasks, Parent, Cut, Task
<1>2. /\ pc' \notin Forward /\ pc' \notin {"check", "write", "map"} /\ pc # "write" /\ pc' # "write"
      /\ pc' \in Rollback => (Cut' <=> Cut)
  BY DEF Forward, Rollback, Cut
<1>3. pc' \in Rollback => Partial' = Partial
  BY <1>1, <1>2 DEF Partial
<1>4. /\ \A u \in Done : rewrites[u] = LastSubtask(u) /\ steps[u] > 1
      /\ created = UNION {Subtasks(u) : u \in Done} /\ Done \subseteq DOMAIN backups
      /\ \A u \in DOMAIN backups : \E i \in 1 .. Len(request) : request[i] = u
      /\ Cut => Task \notin Done /\ steps[Task] > 1 /\ part <= steps[Task] + 1
  BY DEF AInv, Remembered
<1>5. created' = UNION {Subtasks(u)' : u \in Done'}
  BY <1>1, <1>4
<1>6. Remembered'
  BY <1>1, <1>2, <1>4, <1>5 DEF Remembered
<1>7. QED
  BY <1>1, <1>3, <1>6

LEMMA DropKeeps ==
  ASSUME AInv, DropCreated PROVE AInv'
<1>0. TypeOK /\ DiskOK /\ Shape /\ Remembered /\ Undo /\ Whole /\ FailureUndone
  BY DEF AInv
<1>1. /\ pc = "drop created" /\ pc' = "restore parents"
      /\ files' = [x \in DOMAIN files \ created |-> files[x]]
      /\ UNCHANGED <<depends, steps, map, pos, part, created, rewrites, backups, request, before,
                     calls, outcome, torn, fault>>
  BY DEF DropCreated, Dropped, plan, memory, args, ends
<1>2. /\ DOMAIN files' = DOMAIN files \ created
      /\ files' = [x \in DOMAIN files' |-> files'[x]]
      /\ \A x \in DOMAIN files' : files'[x] = files[x]
  BY <1>1
<1>3. Remembered' /\ Done' = Done /\ Gone' = Gone /\ Partial' = Partial
  BY <1>1, RollbackKeepsMemory DEF Rollback
<1>4. TypeOK'
  BY <1>0, <1>1, <1>2 DEF TypeOK, Stage, Rollback
<1>5. DiskOK'
  <2>1. GoodFiles(files)'
    BY <1>0, <1>1, <1>2 DEF DiskOK, GoodFiles, Known
  <2>2. GoodMap(map)' /\ GoodFiles(before[1])' /\ GoodMap(before[2])'
    BY <1>0, <1>1 DEF DiskOK, GoodFiles, GoodMap, Known
  <2>3. QED
    BY <1>0, <1>1, <2>1, <2>2 DEF DiskOK
<1>6. Shape'
  BY <1>0, <1>1 DEF Shape
<1>7. Undo'
  <2>1. Backed' /\ Kept'
    <3>1. created \cap DOMAIN before[1] = {}
      BY <1>0, <1>1 DEF Undo, Apart
    <3>2. QED
      BY <1>0, <1>1, <1>2, <3>1 DEF Undo, Backed, Kept, Untouched, Parent
  <2>2. Partial \cap created = {}
    BY <1>1, CreatedApart
  <2>3. created \cap DOMAIN before[1] = {}
    BY <1>0, <1>1 DEF Undo, Apart
  <2>4. DOMAIN files = ((DOMAIN before[1] \ Gone) \cup created) \cup Partial
    BY <1>0, <1>1 DEF Undo, OnDisk, Forward
  <2>5. DOMAIN files' = (DOMAIN before[1] \ Gone) \cup Partial
    BY <1>2, <2>2, <2>3, <2>4
  <2>6. OnDisk'
    BY <1>1, <1>3, <2>5 DEF OnDisk, Forward
  <2>7. Apart'
    BY <1>0, <1>1, <1>3 DEF Undo, Apart
  <2>8. QED
    BY <2>1, <2>6, <2>7 DEF Undo
<1>8. Whole' /\ FailureUndone'
  BY <1>0, <1>1 DEF Whole, HasSteps, Subtasks, FailureUndone, Shape
<1>9. QED
  BY <1>3, <1>4, <1>5, <1>6, <1>7, <1>8 DEF AInv

LEMMA RestoreKeeps ==
  ASSUME AInv, RestoreParents PROVE AInv'
<1>0. TypeOK /\ DiskOK /\ Shape /\ Remembered /\ Undo /\ Whole /\ FailureUndone
  BY DEF AInv
<1>1. /\ pc = "restore parents" /\ pc' = "restore map"
      /\ files' = [x \in DOMAIN files \cup Restored |->
                     IF x \in Restored THEN backups[x[1]] ELSE files[x]]
      /\ UNCHANGED <<depends, steps, map, pos, part, created, rewrites, backups, request, before,
                     calls, outcome, torn, fault>>
  BY DEF RestoreParents, PutBack, plan, memory, args, ends
<1>2. /\ DOMAIN files' = DOMAIN files \cup Restored
      /\ files' = [x \in DOMAIN files' |-> files'[x]]
      /\ \A x \in Restored : files'[x] = backups[x[1]]
      /\ \A x \in DOMAIN files : x \notin Restored => files'[x] = files[x]
  BY <1>1
<1>3. Remembered' /\ Done' = Done /\ Gone' = Gone /\ Partial' = Partial
  BY <1>1, RollbackKeepsMemory DEF Rollback
<1>4. \A x \in Restored : /\ x[1] \in DOMAIN backups /\ x = Parent(x[1])
                          /\ x \in DOMAIN before[1] /\ backups[x[1]] = before[1][x]
  BY <1>1, BackupsFound
<1>5. \A x \in DOMAIN before[1] : x \in DOMAIN files' /\ files'[x] = before[1][x]
  <2>1. \A x : x \in Restored \/ Untouched(x)
    BY DEF Restored, Untouched
  <2>2. \A x \in DOMAIN before[1] : Untouched(x) => x \in DOMAIN files /\ files[x] = before[1][x]
    BY <1>0, <1>1 DEF Undo, Kept
  <2>3. QED
    BY <1>2, <1>4, <2>1, <2>2
<1>6. DOMAIN files' = DOMAIN before[1] \cup Partial
  <2>1. DOMAIN files = (DOMAIN before[1] \ Gone) \cup Partial
    BY <1>0, <1>1 DEF Undo, OnDisk, Forward
  <2>2. QED
    BY <1>2, <1>4, <1>5, <2>1
<1>7. \A x \in DOMAIN files' : Known(x) /\ files'[x] \subseteq Id
  <2>1. ASSUME NEW x \in DOMAIN files', x \in DOMAIN before[1] PROVE Known(x) /\ files'[x] \subseteq Id
    BY <1>0, <1>5, <2>1 DEF DiskOK, GoodFiles
  <2>2. ASSUME NEW x \in DOMAIN files', x \notin DOMAIN before[1] PROVE Known(x) /\ files'[x] \subseteq Id
    <3>1. x \in DOMAIN files /\ x \notin Restored
      BY <1>2, <1>4, <2>2
    <3>2. QED
      BY <1>0, <1>2, <3>1 DEF DiskOK, GoodFiles
  <2>3. QED
    BY <2>1, <2>2
<1>8. TypeOK'
  <2>1. \A x \in DOMAIN files' : x \in Id /\ files'[x] \subseteq Id
    BY <1>7 DEF Known
  <2>2. QED
    BY <1>0, <1>1, <2>1 DEF TypeOK, Stage, Rollback
<1>9. DiskOK'
  <2>1. GoodFiles(files)'
    BY <1>1, <1>2, <1>7 DEF GoodFiles, Known
  <2>2. GoodMap(map)' /\ GoodFiles(before[1])' /\ GoodMap(before[2])'
    BY <1>0, <1>1 DEF DiskOK, GoodFiles, GoodMap, Known
  <2>3. QED
    BY <1>0, <1>1, <2>1, <2>2 DEF DiskOK
<1>10. Shape'
  BY <1>0, <1>1 DEF Shape
<1>11. Undo'
  <2>1. Backed'
    BY <1>0, <1>1 DEF Undo, Backed, Parent
  <2>2. Kept'
    BY <1>1, <1>5 DEF Kept
  <2>3. OnDisk'
    BY <1>1, <1>3, <1>6 DEF OnDisk, Forward
  <2>4. Apart'
    BY <1>0, <1>1, <1>3 DEF Undo, Apart
  <2>5. QED
    BY <2>1, <2>2, <2>3, <2>4 DEF Undo
<1>12. Whole' /\ FailureUndone'
  BY <1>0, <1>1 DEF Whole, HasSteps, Subtasks, FailureUndone, Shape
<1>13. QED
  BY <1>3, <1>8, <1>9, <1>10, <1>11, <1>12 DEF AInv

(* The rollback is done: unless something half written was left, files and *)
(* MAP.md are as the call found them.                                      *)
LEMMA RestoreMapKeeps ==
  ASSUME AInv, RestoreMap PROVE AInv'
<1>0. TypeOK /\ DiskOK /\ Shape /\ Remembered /\ Undo /\ Whole /\ FailureUndone
  BY DEF AInv
<1>1. /\ pc = "restore map" /\ pc' = "idle" /\ outcome' = "failed" /\ map' = before[2]
      /\ UNCHANGED <<depends, steps, files, pos, part, created, rewrites, backups, request, before,
                     calls, torn, fault>>
  BY DEF RestoreMap, plan, memory, args
<1>2. Remembered'
  BY <1>1, RollbackKeepsMemory DEF Rollback
<1>3. DiskOK'
  <2>1. GoodFiles(files)' /\ GoodMap(map)' /\ GoodFiles(before[1])' /\ GoodMap(before[2])'
    BY <1>0, <1>1 DEF DiskOK, GoodFiles, GoodMap, Known
  <2>2. QED
    BY <1>0, <1>1, <2>1 DEF DiskOK
<1>4. TypeOK'
  <2>1. \A x \in DOMAIN map' : x \in Id /\ map'[x] \in Line
    BY <1>0, <1>1 DEF DiskOK, GoodMap, Known
  <2>2. QED
    BY <1>0, <1>1, <2>1 DEF TypeOK, Stage, Outcome
<1>5. Shape' /\ Undo'
  BY <1>0, <1>1 DEF Shape, Undo
<1>6. Whole'
  <2>1. SUFFICES ASSUME "rollback" \notin torn', NEW t \in Tasks PROVE HasSteps(files, t)'
    BY <1>1 DEF Whole
  <2>2. HasSteps(files, t)
    BY <1>1, <2>1, StepsKept
  <2>3. QED
    BY <1>1, <2>2 DEF HasSteps, Subtasks, Parent
<1>7. FailureUndone'
  <2>1. SUFFICES ASSUME fault \notin {"write", "unlink"} PROVE <<files, before[2]>> = before
    BY <1>1 DEF FailureUndone, disk
  <2>2. Partial = {}
    BY <1>1, <2>1 DEF Partial, Cut
  <2>3. DOMAIN files = DOMAIN before[1] /\ \A x \in DOMAIN before[1] : files[x] = before[1][x]
    BY <1>0, <1>1, <2>2 DEF Undo, OnDisk, Kept
  <2>4. files = [x \in DOMAIN files |-> files[x]] /\ before[1] = [x \in DOMAIN before[1] |-> before[1][x]]
    BY <1>0 DEF DiskOK, GoodFiles
  <2>5. files = before[1]
    BY <2>3, <2>4
  <2>6. before = <<before[1], before[2]>>
    BY <1>0 DEF DiskOK
  <2>7. QED
    BY <2>5, <2>6
<1>8. QED
  BY <1>2, <1>3, <1>4, <1>5, <1>6, <1>7 DEF AInv

LEMMA AInvHolds == Spec => []AInv
<1>1. Init => AInv
  BY InitAInv
<1>2. AInv /\ [Next]_vars => AInv'
  <2> SUFFICES ASSUME AInv, [Next]_vars PROVE AInv'
    OBVIOUS
  <2>1. CASE Next
    BY <2>1, CallKeeps, ProcessKeeps, CheckKeeps, WriteKeeps, UnlinkKeeps, MapKeeps,
       SucceedKeeps, DropKeeps, RestoreKeeps, RestoreMapKeeps, KilledKeeps DEF Next
  <2>2. CASE UNCHANGED vars
    <3>1. UNCHANGED <<depends, steps, files, map, pc, request, pos, part, created, rewrites,
                      backups, before, outcome, fault, calls, torn>>
      BY <2>2 DEF vars, plan, disk, memory, args, ends
    <3>2. TypeOK' /\ DiskOK' /\ Shape'
      BY <3>1 DEF AInv, TypeOK, DiskOK, GoodFiles, GoodMap, Known, Shape, Task
    <3>3. /\ Done' = Done /\ Gone' = Gone /\ Task' = Task /\ (Cut' <=> Cut) /\ Partial' = Partial
          /\ \A u : LastSubtask(u)' = LastSubtask(u) /\ Subtasks(u)' = Subtasks(u) /\ Parent(u)' = Parent(u)
      BY <3>1 DEF Done, Gone, LastSubtask, Subtasks, Parent, Cut, Task, Partial
    <3>4. UNION {Subtasks(u)' : u \in Done'} = UNION {Subtasks(u) : u \in Done}
      BY <3>3
    <3>5. Remembered'
      BY <3>1, <3>3, <3>4 DEF AInv, Remembered
    <3>6. Undo'
      BY <3>1, <3>3 DEF AInv, Undo, Backed, Kept, Untouched, OnDisk, Apart
    <3>7. Whole' /\ FailureUndone'
      BY <3>1, <3>3 DEF AInv, Whole, HasSteps, FailureUndone, disk
    <3>8. QED
      BY <3>2, <3>5, <3>6, <3>7 DEF AInv
  <2>3. QED
    BY <2>1, <2>2
<1>3. QED
  BY <1>1, <1>2, PTL DEF Spec

-----------------------------------------------------------------------------
(* Calls that start from the planner's files, or fail.                     *)

(* Whatever a call has done, and however much of a rollback, if it ends    *)
(* here the next one that can succeed starts from the planner's files.     *)
LEMMA BeganLater ==
  ASSUME AInv, Retried, pc # "idle", NEW F, Decent(F),
         (DOMAIN before[1] \ Gone) \cup Partial \subseteq DOMAIN F,
         DOMAIN F \subseteq (DOMAIN before[1] \cup created) \cup Partial
  PROVE  Began(F)
<1> DEFINE old == before[1]
<1>0. /\ TypeOK /\ DiskOK /\ Shape /\ Remembered
      /\ Backed /\ Kept /\ OnDisk /\ Apart /\ Began(old)
  BY DEF AInv, Undo, Retried
<1>3. \A x \in Partial : /\ x \in Subtasks(Task) /\ Task \in Tasks /\ steps[Task] > 1
                         /\ pos \in 1 .. Len(request)
  <2>1. SUFFICES ASSUME NEW x \in Partial
                 PROVE  /\ x \in Subtasks(Task) /\ Task \in Tasks /\ steps[Task] > 1
                        /\ pos \in 1 .. Len(request)
    OBVIOUS
  <2>2. pc = "write" \/ Cut
    BY <2>1 DEF Partial
  <2>3. pos <= Len(request) /\ steps[Task] > 1 /\ part <= steps[Task] + 1
    BY <1>0, <2>2 DEF Shape, Remembered, Cut, Rollback
  <2>4. Task \in Tasks /\ pos \in 1 .. Len(request) /\ steps[Task] \in Nat
    BY <1>0, <2>3, TaskAt, Ids
  <2>5. PICK i \in 1 .. part - 1 : x = <<Task, i>>
    BY <2>1, <2>2 DEF Partial
  <2>6. part \in Nat
    BY <1>0, AtomizerAssumption DEF TypeOK
  <2>7. i \in 1 .. steps[Task]
    BY <2>3, <2>4, <2>5, <2>6
  <2>8. QED
    BY <2>3, <2>4, <2>5, <2>7 DEF Subtasks
<1>4. \A u \in Tasks : Parent(u) \notin created \cup Partial
  <2>1. \A u \in Tasks : Parent(u) \notin created
    BY <1>0 DEF TypeOK
  <2>2. \A u \in Tasks : Parent(u) \notin Partial
    BY <1>0, <1>3, SubtaskNotParent
  <2>3. QED
    BY <2>1, <2>2
<1>5. CASE \E i \in 1 .. Len(request) : StuckAt(old, i)
  <2>1. PICK i \in 1 .. Len(request) : StuckAt(old, i)
    BY <1>5
  <2>2. request[i] \in Tasks
    BY <1>0 DEF TypeOK
  <2>3. CASE Parent(request[i]) \notin DOMAIN old
    <3>1. Parent(request[i]) \notin DOMAIN F
      BY <1>4, <2>2, <2>3
    <3>2. QED
      BY <2>1, <3>1 DEF StuckAt, Began
  <2>4. CASE Subtasks(request[i]) \cap DOMAIN old # {}
    <3>1. PICK x \in Subtasks(request[i]) : x \in DOMAIN old
      BY <2>4
    <3>2. x \notin Gone
      BY <1>0, <2>2, SubtaskNotParent DEF Gone
    <3>3. x \in DOMAIN F
      BY <3>1, <3>2
    <3>4. QED
      BY <2>1, <3>3 DEF StuckAt, Began
  <2>5. QED
    BY <2>1, <2>3, <2>4 DEF StuckAt
<1>6. CASE Partial # {}
  <2>1. PICK x \in Partial : x \in Subtasks(Task)
    BY <1>3, <1>6
  <2>2. x \in DOMAIN F
    OBVIOUS
  <2>3. StuckAt(F, pos) /\ pos \in 1 .. Len(request)
    BY <1>3, <2>1, <2>2 DEF StuckAt, Task
  <2>4. QED
    BY <2>3 DEF Began
<1>7. \A u \in Done : /\ u \in Tasks /\ steps[u] > 1
                      /\ \E i \in 1 .. Len(request) : request[i] = u
  BY <1>0 DEF Done, Remembered
<1>8. CASE \E u \in Done : Parent(u) \notin DOMAIN F \/ Subtasks(u) \cap DOMAIN F # {}
  <2>1. PICK u \in Done : Parent(u) \notin DOMAIN F \/ Subtasks(u) \cap DOMAIN F # {}
    BY <1>8
  <2>2. PICK i \in 1 .. Len(request) : request[i] = u /\ steps[u] > 1
    BY <1>7
  <2>3. QED
    BY <2>1, <2>2 DEF StuckAt, Began
<1>9. CASE Planned(old) /\ Partial = {}
           /\ \A u \in Done : Parent(u) \in DOMAIN F /\ Subtasks(u) \cap DOMAIN F = {}
  <2>1. created = UNION {Subtasks(u) : u \in Done}
    BY <1>0 DEF Remembered
  <2>2. created \cap DOMAIN F = {} /\ Gone \subseteq DOMAIN F
    BY <1>9, <2>1 DEF Gone
  <2>3. DOMAIN F \subseteq DOMAIN old /\ DOMAIN old \subseteq DOMAIN F
    BY <1>9, <2>2
  <2>4. QED
    BY <1>9, <2>3 DEF Planned, Began
<1>10. QED
  BY <1>0, <1>5, <1>6, <1>8, <1>9 DEF Began

(* Whatever a step of a call does to the files, it does not to what was    *)
(* there when the call began.                                              *)
LEMMA SameCall ==
  ASSUME UNCHANGED <<depends, steps, request, before>>
  PROVE  /\ Files0' = Files0 /\ before[1]' = before[1]
         /\ Decent(before[1])' = Decent(before[1]) /\ Planned(before[1])' = Planned(before[1])
         /\ Began(before[1])' = Began(before[1])
         /\ \A i : StuckAt(before[1], i)' = StuckAt(before[1], i)
         /\ \A u : Parent(u)' = Parent(u) /\ Subtasks(u)' = Subtasks(u) /\ LastSubtask(u)' = LastSubtask(u)
         /\ \A u : Exit(u)' = Exit(u) /\ Waits(u)' = Waits(u) /\ Entry(u)' = Entry(u)
         /\ InOrder' = InOrder
<1>1. /\ Files0' = Files0 /\ before[1]' = before[1]
      /\ \A i : StuckAt(before[1], i)' = StuckAt(before[1], i)
      /\ \A u : Parent(u)' = Parent(u) /\ Subtasks(u)' = Subtasks(u) /\ LastSubtask(u)' = LastSubtask(u)
  BY DEF Files0, StuckAt, Parent, Subtasks, LastSubtask
<1>2. \A u : IsSplit(u)' = IsSplit(u)
  BY DEF IsSplit
<1>3. InOrder' = InOrder
  BY <1>2 DEF InOrder
<1>4. \A u : Exit(u)' = Exit(u)
  BY <1>1, <1>2 DEF Exit
<1>5. \A u : Waits(u)' = Waits(u)
  BY <1>4 DEF Waits
<1>6. \A u : Entry(u)' = Entry(u)
  BY <1>1, <1>2 DEF Entry
<1>7. Decent(before[1])' = Decent(before[1])
  BY <1>1, <1>3, <1>5 DEF Decent
<1>8. Planned(before[1])' = Planned(before[1])
  BY <1>1, <1>7 DEF Planned
<1>9. Began(before[1])' = Began(before[1])
  BY <1>1, <1>8 DEF Began
<1>10. QED
  BY <1>1, <1>3, <1>4, <1>5, <1>6, <1>7, <1>8, <1>9

(* The lines of parents stay decent as long as each is as it was, or as    *)
(* the call found it.                                                      *)
LEMMA DecentStays ==
  ASSUME Decent(files), Decent(before[1]), UNCHANGED <<depends, steps, request>>,
         \A t \in Tasks : Parent(t) \in DOMAIN files' =>
           \/ Parent(t) \in DOMAIN files /\ files'[Parent(t)] = files[Parent(t)]
           \/ Parent(t) \in DOMAIN before[1] /\ files'[Parent(t)] = before[1][Parent(t)]
  PROVE  Decent(files)' /\ Decent(files')
<1>1. Files0' = Files0 /\ (\A u : Parent(u)' = Parent(u) /\ IsSplit(u)' = IsSplit(u))
  BY DEF Files0, Parent, IsSplit
<1>2. InOrder' = InOrder /\ \A u : LastSubtask(u)' = LastSubtask(u)
  BY <1>1 DEF InOrder, LastSubtask
<1>3. \A u : Exit(u)' = Exit(u)
  BY <1>1, <1>2 DEF Exit
<1>4. \A u : Waits(u)' = Waits(u)
  BY <1>3 DEF Waits
<1>5. Decent(files')
  BY DEF Decent
<1>6. Decent(files)' = Decent(files')
  BY <1>1, <1>2, <1>4 DEF Decent
<1>7. QED
  BY <1>5, <1>6

(* What has been replaced when a task is read is what it depended on, if   *)
(* the request names tasks in the order of the plan.                       *)
LEMMA RewritesAre ==
  ASSUME AInv, pc = "task", InOrder, NEW t \in Tasks, pos <= Len(request), t = Task,
         NEW u \in depends[t]
  PROVE  rewrites[u] = Exit(u)
<1>0. TypeOK /\ Shape /\ Remembered
  BY DEF AInv
<1>1. u \in Tasks
  BY <1>0 DEF TypeOK
<1>2. CASE IsSplit(u)
  <2>1. PICK i, j \in 1 .. Len(request) : i < j /\ request[i] = u /\ request[j] = t
    BY <1>1, <1>2 DEF InOrder
  <2>2. pos \in 1 .. Len(request) /\ request[pos] = t
    BY <1>0, TaskAt DEF Task
  <2>3. j = pos
    BY <1>0, <2>1, <2>2 DEF Shape
  <2>4. i \in 1 .. pos - 1
    BY <2>1, <2>2, <2>3
  <2>5. steps[u] > 1
    BY <1>2 DEF IsSplit
  <2>6. u \in Done
    BY <1>0, <2>1, <2>4, <2>5 DEF Remembered, Forward
  <2>7. QED
    BY <1>0, <1>2, <2>6 DEF Remembered, Exit
<1>3. CASE ~ IsSplit(u)
  <2>1. u \notin Done
    BY <1>0, <1>3 DEF Remembered, IsSplit
  <2>2. QED
    BY <1>1, <1>3, <2>1 DEF Done, Exit
<1>4. QED
  BY <1>2, <1>3

(* So the line of a task that is read becomes what it waits for, be it the *)
(* planner's or one that an earlier call has rewritten.                    *)
LEMMA RenamedIs ==
  ASSUME AInv, Decent(files), pc = "task", InOrder, pos <= Len(request), NEW t \in Tasks, t = Task,
         Parent(t) \in DOMAIN files
  PROVE  Renamed(files[Parent(t)]) = Waits(t)
<1>0. TypeOK
  BY DEF AInv
<1>1. \A u \in depends[t] : u \in Tasks /\ rewrites[u] = Exit(u)
  BY <1>0, RewritesAre DEF TypeOK
<1>2. CASE files[Parent(t)] = Files0[Parent(t)]
  <2>1. files[Parent(t)] = {Parent(u) : u \in depends[t]}
    BY <1>0, <1>2, Ids DEF Files0
  <2>2. \A u \in depends[t] : Parent(u)[1] = u /\ Parent(u)[2] = 0
    BY DEF Parent
  <2>3. Renamed(files[Parent(t)]) = {rewrites[u] : u \in depends[t]}
    BY <2>1, <2>2 DEF Renamed
  <2>4. QED
    BY <1>1, <2>3 DEF Waits
<1>3. CASE files[Parent(t)] = Waits(t)
  <2>1. \A u \in depends[t] : (IF Exit(u)[2] = 0 THEN rewrites[Exit(u)[1]] ELSE Exit(u)) = Exit(u)
    <3>1. SUFFICES ASSUME NEW u \in depends[t]
                   PROVE  (IF Exit(u)[2] = 0 THEN rewrites[Exit(u)[1]] ELSE Exit(u)) = Exit(u)
      OBVIOUS
    <3>2. CASE IsSplit(u)
      <4>1. Exit(u)[2] = steps[u] /\ steps[u] > 1
        BY <3>2 DEF Exit, LastSubtask, IsSplit
      <4>2. Exit(u)[2] # 0
        BY <1>0, <1>1, <4>1, Ids
      <4>3. QED
        BY <4>2
    <3>3. CASE ~ IsSplit(u)
      <4>1. Exit(u) = Parent(u) /\ Parent(u)[1] = u
        BY <3>3 DEF Exit, Parent
      <4>2. QED
        BY <1>1, <4>1
    <3>4. QED
      BY <3>2, <3>3
  <2>2. Renamed(Waits(t)) = {IF Exit(u)[2] = 0 THEN rewrites[Exit(u)[1]] ELSE Exit(u) : u \in depends[t]}
    BY DEF Renamed, Waits
  <2>3. QED
    BY <1>3, <2>1, <2>2 DEF Waits
<1>4. QED
  BY <1>2, <1>3 DEF Decent

LEMMA CallRetries ==
  ASSUME AInv, Retried, Call PROVE Retried'
<1>1. /\ pc = "idle" /\ pc' = "task" /\ pos' = 1 /\ before'[1] = files
      /\ UNCHANGED <<depends, steps, files>>
      /\ request # <<>> => request' = request
  BY DEF Call, plan, disk
<1>2. Files0' = Files0 /\ \A u : Parent(u)' = Parent(u) /\ Subtasks(u)' = Subtasks(u)
  BY <1>1 DEF Files0, Parent, Subtasks
<1>3. Began(files) /\ Decent(files)
  BY <1>1 DEF Retried
<1>4. CASE request = <<>>
  <2>1. \A t \in Tasks : ~ IsSplit(t)
    BY <1>4 DEF IsSplit
  <2>2. InOrder /\ \A t \in Tasks : Exit(t) = Parent(t)
    BY <2>1 DEF InOrder, Exit, AInv, TypeOK
  <2>3. ASSUME NEW t \in Tasks PROVE Waits(t) = Files0[Parent(t)]
    <3>1. depends[t] \subseteq Tasks
      BY DEF AInv, TypeOK
    <3>2. Files0[Parent(t)] = {Parent(u) : u \in depends[t]}
      BY Ids DEF Files0, AInv
    <3>3. QED
      BY <2>2, <3>1, <3>2 DEF Waits
  <2>4. DOMAIN files = DOMAIN Files0
    BY <1>3, <1>4 DEF Began, Planned
  <2>5. \A t \in Tasks : Parent(t) \in DOMAIN files => files[Parent(t)] = Files0[Parent(t)]
    BY <1>3, <2>2, <2>3 DEF Decent
  <2>6. Decent(files)' /\ Decent(before[1])'
    BY <1>1, <1>2, <2>5 DEF Decent
  <2>7. Planned(before[1])'
    BY <1>1, <1>2, <2>4, <2>6 DEF Planned
  <2>8. QED
    BY <1>1, <2>6, <2>7 DEF Retried, Began
<1>5. CASE request # <<>>
  <2>1. request' = request /\ before'[1] = files
    BY <1>1, <1>5
  <2>2. /\ \A u : IsSplit(u)' = IsSplit(u) /\ LastSubtask(u)' = LastSubtask(u)
        /\ \A i : StuckAt(before[1], i)' = StuckAt(files, i)
    BY <1>1, <1>2, <2>1 DEF IsSplit, LastSubtask, StuckAt
  <2>3. \A u : Exit(u)' = Exit(u)
    BY <1>2, <2>2 DEF Exit
  <2>4. InOrder' = InOrder /\ \A u : Waits(u)' = Waits(u)
    BY <1>1, <2>1, <2>2, <2>3 DEF InOrder, Waits
  <2>5. Decent(files)' = Decent(files) /\ Decent(before[1])' = Decent(files)
    BY <1>1, <1>2, <2>1, <2>4 DEF Decent
  <2>6. Planned(before[1])' = Planned(files)
    BY <1>2, <2>1, <2>5 DEF Planned
  <2>7. Began(before[1])' = Began(files)
    BY <2>1, <2>2, <2>6 DEF Began
  <2>8. ~ Planned(files) => \E i \in 1 .. Len(request) : StuckAt(files, i)
    BY <1>3 DEF Began
  <2>9. QED
    BY <1>1, <1>3, <2>1, <2>2, <2>5, <2>6, <2>7, <2>8 DEF Retried
<1>6. QED
  BY <1>4, <1>5

(* A call ends.                                                            *)
LEMMA EndRetries ==
  ASSUME AInv, Retried, pc # "idle", pc' = "idle", UNCHANGED <<depends, steps, request>>,
         files' = files \/ CutShort
  PROVE  Retried'
<1>0. Decent(files) /\ Decent(before[1])
  BY DEF Retried
<1>1. /\ \A x \in DOMAIN files' :
           \/ x \in DOMAIN files /\ files'[x] = files[x]
           \/ x \in DOMAIN before[1] /\ files'[x] = before[1][x]
      /\ (DOMAIN before[1] \ Gone) \cup Partial \subseteq DOMAIN files'
      /\ DOMAIN files' \subseteq (DOMAIN before[1] \cup created) \cup Partial
  <2>1. CASE files' = files
    <3>1. OnDisk /\ pc \in Forward \cup {"drop created", "restore parents", "restore map"}
      BY DEF AInv, Undo, TypeOK, Stage, Rollback, Forward
    <3>2. /\ (DOMAIN before[1] \ Gone) \cup Partial \subseteq DOMAIN files
          /\ DOMAIN files \subseteq (DOMAIN before[1] \cup created) \cup Partial
      BY <3>1 DEF OnDisk
    <3>3. QED
      BY <2>1, <3>2
  <2>2. CASE CutShort
    BY <2>2, CutLeaves
  <2>3. QED
    BY <2>1, <2>2
<1>2. Decent(files)' /\ Decent(files')
  BY <1>0, <1>1, DecentStays
<1>3. Began(files')
  BY <1>1, <1>2, BeganLater
<1>4. Began(files)'
  <2>1. /\ Files0' = Files0
        /\ \A i : StuckAt(files, i)' <=> StuckAt(files', i)
    BY DEF Files0, StuckAt, Parent, Subtasks
  <2>2. Planned(files)' <=> Planned(files')
    BY <1>2, <2>1 DEF Planned
  <2>3. QED
    BY <1>3, <2>1, <2>2 DEF Began
<1>5. QED
  BY <1>2, <1>4 DEF Retried, Forward

(* Rolling back.                                                           *)
LEMMA RollbackRetries ==
  ASSUME AInv, Retried, pc # "idle", pc' \in Rollback,
         UNCHANGED <<depends, steps, request, before>>,
         files' = files \/ DropCreated \/ RestoreParents
  PROVE  Retried'
<1>1. /\ Began(before[1])' /\ Decent(before[1])' /\ Decent(before[1]) /\ Decent(files)
      /\ pc' # "idle" /\ pc' \notin Forward
  BY SameCall DEF Retried, Rollback, Forward
<1>2. \A x \in DOMAIN files' :
        \/ x \in DOMAIN files /\ files'[x] = files[x]
        \/ x \in DOMAIN before[1] /\ files'[x] = before[1][x]
  <2>1. CASE DropCreated
    BY <2>1 DEF DropCreated, Dropped
  <2>2. CASE RestoreParents
    <3>1. files' = [x \in DOMAIN files \cup Restored |->
                      IF x \in Restored THEN backups[x[1]] ELSE files[x]]
      BY <2>2 DEF RestoreParents, PutBack
    <3>2. \A x \in Restored : x \in DOMAIN before[1] /\ backups[x[1]] = before[1][x]
      BY BackupsFound
    <3>3. QED
      BY <3>1, <3>2
  <2>3. QED
    BY <2>1, <2>2
<1>3. Decent(files)'
  BY <1>1, <1>2, DecentStays
<1>4. QED
  BY <1>1, <1>3 DEF Retried

LEMMA ProcessRetries ==
  ASSUME AInv, Retried, ProcessTask PROVE Retried'
<1>0. TypeOK /\ Remembered /\ Shape /\ DiskOK
  BY DEF AInv
<1>1. /\ pc = "task" /\ pos <= Len(request)
      /\ UNCHANGED <<depends, steps, request, before, rewrites>>
  BY DEF ProcessTask, plan, args
<1>2. PICK t \in Tasks : t = Task
  BY <1>0, <1>1, TaskAt
<1>3. CASE pc' = "drop created" /\ files' = files
  BY <1>1, <1>3, RollbackRetries DEF Rollback
<1>4. CASE /\ Parent(t) \in DOMAIN files
           /\ files' = [files EXCEPT ![Parent(t)] = RewrittenDepends(t)]
           /\ \/ steps[t] <= 1 /\ pos' = pos + 1 /\ pc' = pc
              \/ steps[t] > 1 /\ pc' = "check" /\ pos' = pos
  <2>1. /\ before[1]' = before[1] /\ Began(before[1])' /\ Decent(before[1])'
        /\ Planned(before[1])' = Planned(before[1])
        /\ \A i : StuckAt(before[1], i)' = StuckAt(before[1], i)
    BY <1>1, SameCall DEF Retried
  <2>2. ASSUME ~ Planned(before[1])
        PROVE  \E i \in pos' .. Len(request) :
                 StuckAt(before[1], i) /\ (i = pos' => pc' \in {"task", "check"})
    <3>1. PICK i \in pos .. Len(request) : StuckAt(before[1], i)
      BY <1>1, <2>2 DEF Retried, Forward
    <3>2. steps[t] \in Nat /\ pos \in Nat /\ Len(request) \in Nat
      BY <1>0, Ids DEF TypeOK
    <3>3. i = pos => steps[t] > 1
      BY <1>2, <3>1 DEF StuckAt, Task
    <3>4. i \in pos' .. Len(request)
      BY <1>4, <3>1, <3>2, <3>3
    <3>5. QED
      BY <1>1, <1>4, <3>1, <3>4
  <2>3. Decent(files)'
    <3>1. Decent(files)
      BY DEF Retried
    <3>2. /\ Files0' = Files0 /\ InOrder' = InOrder
          /\ \A u : Parent(u)' = Parent(u) /\ Waits(u)' = Waits(u)
      BY <1>1, SameCall
    <3>3. SUFFICES ASSUME InOrder, NEW u \in Tasks, Parent(u) \in DOMAIN files'
                   PROVE  files'[Parent(u)] = Files0[Parent(u)] \/ files'[Parent(u)] = Waits(u)
      BY <3>2 DEF Decent
    <3>4. Parent(u) \in DOMAIN files
      BY <1>4, <3>3
    <3>5. CASE Parent(u) = Parent(t) /\ t \in Verbatim
      <4>1. u = t
        BY <1>0, <3>5, Ids
      <4>2. Renamed(files[Parent(t)]) = Waits(t)
        BY <1>1, <1>2, <1>4, <3>1, <3>3, RenamedIs
      <4>3. files'[Parent(t)] = Renamed(files[Parent(t)])
        BY <1>4, <3>5 DEF RewrittenDepends
      <4>4. QED
        BY <4>1, <4>2, <4>3
    <3>6. CASE Parent(u) # Parent(t) \/ t \notin Verbatim
      <4>1. files'[Parent(u)] = files[Parent(u)]
        BY <1>4, <3>4, <3>6 DEF RewrittenDepends
      <4>2. QED
        BY <3>1, <3>3, <3>4, <4>1 DEF Decent
    <3>7. QED
      BY <3>5, <3>6
  <2>4. QED
    BY <1>1, <1>4, <2>1, <2>2, <2>3 DEF Retried
<1>5. QED
  BY <1>2, <1>3, <1>4 DEF ProcessTask, Raise

LEMMA CheckRetries ==
  ASSUME AInv, AInv', Retried, CheckOutput PROVE Retried'
<1>1. /\ pc = "check"
      /\ UNCHANGED <<depends, steps, request, before, rewrites, files, pos, backups>>
  BY DEF CheckOutput, plan, args, disk, memory
<1>2. CASE pc' = "drop created"
  BY <1>1, <1>2, RollbackRetries DEF Rollback
<1>3. CASE pc' = "write"
  <2>1. /\ before[1]' = before[1] /\ Decent(before[1]) /\ Decent(files)
        /\ Began(before[1])' /\ Decent(before[1])' /\ Planned(before[1])' = Planned(before[1])
        /\ \A i : StuckAt(before[1], i)' = StuckAt(before[1], i)
        /\ \A u : Parent(u)' = Parent(u) /\ Subtasks(u)' = Subtasks(u)
    BY <1>1, SameCall DEF Retried
  <2>2. ~ StuckAt(before[1], pos)
    <3>1. Task' = Task /\ Task \in DOMAIN backups
      BY <1>1 DEF AInv, Remembered, Task
    <3>2. Parent(Task) \in DOMAIN before[1]
      BY <1>1, <3>1 DEF AInv, Undo, Backed
    <3>3. Subtasks(Task) \cap DOMAIN before[1] = {}
      BY <1>1, <1>3, <2>1, <3>1 DEF AInv, Undo, Apart
    <3>4. QED
      BY <3>2, <3>3 DEF StuckAt, Task
  <2>3. Decent(files)'
    BY <1>1, <2>1, DecentStays
  <2>4. QED
    BY <1>1, <1>3, <2>1, <2>2, <2>3 DEF Retried, Forward
<1>4. QED
  BY <1>2, <1>3 DEF CheckOutput, Raise

LEMMA WriteRetries ==
  ASSUME AInv, Retried, WriteSubtask PROVE Retried'
<1>1. /\ pc = "write" /\ pos <= Len(request)
      /\ UNCHANGED <<depends, steps, request, before, rewrites, pos>>
  BY DEF WriteSubtask, plan, args, memory, AInv, Shape
<1>2. CASE pc' = "drop created" /\ files' = files
  BY <1>1, <1>2, RollbackRetries DEF Rollback
<1>3. CASE /\ files' = [x \in DOMAIN files \cup {<<Task, part>>} |->
                          IF x = <<Task, part>>
                          THEN SubtaskDepends(Task, part, files[Parent(Task)])
                          ELSE files[x]]
           /\ pc' = "write"
  <2>1. /\ before[1]' = before[1] /\ Decent(before[1]) /\ Decent(files)
        /\ Began(before[1])' /\ Decent(before[1])' /\ Planned(before[1])' = Planned(before[1])
        /\ \A i : StuckAt(before[1], i)' = StuckAt(before[1], i)
    BY <1>1, SameCall DEF Retried
  <2>2. Decent(files)'
    <3>1. ASSUME NEW t \in Tasks PROVE Parent(t) # <<Task, part>>
      BY AtomizerAssumption DEF AInv, TypeOK, Parent
    <3>2. \A t \in Tasks : Parent(t) \in DOMAIN files' =>
            Parent(t) \in DOMAIN files /\ files'[Parent(t)] = files[Parent(t)]
      BY <1>3, <3>1
    <3>3. QED
      BY <1>1, <2>1, <3>2, DecentStays
  <2>3. QED
    BY <1>1, <1>3, <2>1, <2>2 DEF Retried, Forward
<1>4. QED
  BY <1>1, <1>2, <1>3 DEF WriteSubtask, Raise

LEMMA UnlinkRetries ==
  ASSUME AInv, Retried, UnlinkParent PROVE Retried'
<1>1. /\ pc = "write" /\ pos <= Len(request)
      /\ UNCHANGED <<depends, steps, request, before, pos>>
  BY DEF UnlinkParent, plan, args, AInv, Shape
<1>2. CASE pc' = "drop created" /\ files' = files
  BY <1>1, <1>2, RollbackRetries DEF Rollback
<1>3. CASE pc' = "map" /\ files' = [x \in DOMAIN files \ {Parent(Task)} |-> files[x]]
  <2>1. /\ before[1]' = before[1] /\ Decent(before[1]) /\ Decent(files)
        /\ Began(before[1])' /\ Decent(before[1])' /\ Planned(before[1])' = Planned(before[1])
        /\ \A i : StuckAt(before[1], i)' = StuckAt(before[1], i)
    BY <1>1, SameCall DEF Retried
  <2>2. Decent(files)'
    <3>1. \A x \in DOMAIN files' : x \in DOMAIN files /\ files'[x] = files[x]
      BY <1>3
    <3>2. QED
      BY <1>1, <2>1, <3>1, DecentStays
  <2>3. QED
    BY <1>1, <1>3, <2>1, <2>2 DEF Retried, Forward
<1>4. QED
  BY <1>1, <1>2, <1>3 DEF UnlinkParent, Raise

LEMMA MapRetries ==
  ASSUME AInv, Retried, RewriteMap PROVE Retried'
<1>1. /\ pc = "map" /\ pos <= Len(request)
      /\ UNCHANGED <<depends, steps, request, before, rewrites, files>>
  BY DEF RewriteMap, plan, args, memory, AInv, Shape
<1>2. CASE pc' = "drop created"
  BY <1>1, <1>2, RollbackRetries DEF Rollback
<1>3. CASE pc' = "task" /\ pos' = pos + 1
  <2>1. /\ before[1]' = before[1] /\ Decent(before[1]) /\ Decent(files)
        /\ Began(before[1])' /\ Decent(before[1])' /\ Planned(before[1])' = Planned(before[1])
        /\ \A i : StuckAt(before[1], i)' = StuckAt(before[1], i)
    BY <1>1, SameCall DEF Retried
  <2>2. Decent(files)'
    BY <1>1, <2>1, DecentStays
  <2>3. ASSUME ~ Planned(before[1]) PROVE \E i \in pos' .. Len(request) : StuckAt(before[1], i)
    <3>1. PICK i \in pos .. Len(request) : StuckAt(before[1], i) /\ i # pos
      BY <1>1, <2>3 DEF Retried, Forward
    <3>2. pos \in Nat /\ Len(request) \in Nat
      BY DEF AInv, TypeOK
    <3>3. i \in pos' .. Len(request)
      BY <1>3, <3>1, <3>2
    <3>4. QED
      BY <3>1, <3>3
  <2>4. QED
    BY <1>1, <1>3, <2>1, <2>2, <2>3 DEF Retried, Forward
<1>4. QED
  BY <1>1, <1>2, <1>3 DEF RewriteMap, Raise

-----------------------------------------------------------------------------
(* The order of the plan.                                                  *)

(* A step that is not the last of a call.                                  *)
LEMMA NotOkYet ==
  ASSUME AInv', pc' # "idle" \/ outcome' \in {"failed", "killed"}
  PROVE  OrderKept'
BY DEF AInv, Shape, OrderKept

LEMMA EndsOrdered ==
  ASSUME AInv', Ordered, pc' \notin Forward, pc' # "idle" \/ outcome' \in {"failed", "killed"}
  PROVE  Ordered'
BY NotOkYet DEF Ordered

LEMMA CallOrders ==
  ASSUME AInv', Ordered, Call PROVE Ordered'
<1>1. /\ pc' = "task" /\ before'[1] = files' /\ DOMAIN backups' = {}
  BY DEF Call, disk, plan
<1>2. ASSUME DOMAIN files' = DOMAIN Files0', NEW x \in DOMAIN files', x[2] > 0 PROVE FALSE
  BY <1>2 DEF Files0, Parent
<1>3. QED
  BY <1>1, <1>2, NotOkYet DEF Ordered, Planned

LEMMA ProcessOrders ==
  ASSUME AInv, AInv', Decent(files), Ordered, ProcessTask, Verbatim = Tasks PROVE Ordered'
<1>0. TypeOK /\ Remembered /\ Shape /\ DiskOK
  BY DEF AInv
<1>1. /\ pc = "task" /\ pos <= Len(request)
      /\ UNCHANGED <<depends, steps, request, before, rewrites>>
  BY DEF ProcessTask, plan, args
<1>2. PICK t \in Tasks : t = Task
  BY <1>0, <1>1, TaskAt
<1>3. CASE pc' = "drop created"
  BY <1>3, EndsOrdered DEF Forward
<1>4. CASE /\ Parent(t) \in DOMAIN files
           /\ backups' = [u \in DOMAIN backups \cup {t} |-> IF u = t THEN BackedUp(u) ELSE backups[u]]
           /\ files' = [files EXCEPT ![Parent(t)] = RewrittenDepends(t)]
           /\ pc' \in {"task", "check"}
  <2>1. /\ Planned(before[1])' = Planned(before[1]) /\ InOrder' = InOrder
        /\ \A u : Waits(u)' = Waits(u)
    BY <1>1, SameCall
  <2>2. SUFFICES ASSUME Planned(before[1]), InOrder, NEW x \in DOMAIN files,
                        x[2] > 0 \/ x[1] \in DOMAIN backups'
                 PROVE  Chained(x)'
    BY <1>4, <2>1, NotOkYet DEF Ordered
  <2>3. CASE x # Parent(t)
    <3>1. x[2] > 0 \/ x[1] \in DOMAIN backups
      <4>1. CASE x[1] = t /\ ~ (x[2] > 0)
        <5>1. Known(x)
          BY <1>0 DEF DiskOK, GoodFiles
        <5>2. x \in Subtasks(t)
          BY <1>0, <2>3, <4>1, <5>1, KnownIs
        <5>3. x[2] > 0
          BY <1>0, <5>2, Ids
        <5>4. QED
          BY <4>1, <5>3
      <4>2. QED
        BY <1>4, <2>2, <4>1
    <3>2. Chained(x)
      BY <1>1, <2>2, <3>1 DEF Ordered, Forward
    <3>3. files'[x] = files[x]
      BY <1>4, <2>3
    <3>4. QED
      BY <2>1, <3>2, <3>3 DEF Chained
  <2>4. CASE x = Parent(t)
    <3>4. Renamed(files[x]) = Waits(t)
      BY <1>1, <1>2, <1>4, <2>2, <2>4, RenamedIs
    <3>5. files'[x] = Waits(t)
      BY <1>4, <2>4, <3>4 DEF RewrittenDepends
    <3>6. x[1] = t /\ ~ (x[2] > 1)
      BY <2>4 DEF Parent
    <3>7. QED
      BY <2>1, <3>5, <3>6 DEF Chained
  <2>5. QED
    BY <2>3, <2>4
<1>5. QED
  BY <1>1, <1>2, <1>3, <1>4 DEF ProcessTask, Raise

LEMMA CheckOrders ==
  ASSUME AInv, AInv', Ordered, CheckOutput PROVE Ordered'
<1>1. /\ pc = "check" /\ pc' # "idle"
      /\ UNCHANGED <<depends, steps, request, before, files, backups>>
  BY DEF CheckOutput, plan, args, disk, memory, Raise
<1>2. /\ Planned(before[1])' = Planned(before[1]) /\ InOrder' = InOrder
      /\ \A u : Waits(u)' = Waits(u)
  BY <1>1, SameCall
<1>3. QED
  BY <1>1, <1>2, NotOkYet DEF Ordered, Chained, Forward

LEMMA WriteOrders ==
  ASSUME AInv, AInv', Ordered, WriteSubtask PROVE Ordered'
<1>0. TypeOK /\ Remembered /\ Shape /\ DiskOK
  BY DEF AInv
<1>1. /\ pc = "write" /\ pos <= Len(request)
      /\ UNCHANGED <<depends, steps, request, before, rewrites, backups>>
  BY <1>0 DEF WriteSubtask, plan, args, memory, Shape
<1>2. CASE pc' = "drop created"
  BY <1>2, EndsOrdered DEF Forward
<1>3. CASE /\ files' = [x \in DOMAIN files \cup {<<Task, part>>} |->
                          IF x = <<Task, part>>
                          THEN SubtaskDepends(Task, part, files[Parent(Task)])
                          ELSE files[x]]
           /\ pc' = "write"
  <2>1. /\ Planned(before[1])' = Planned(before[1]) /\ InOrder' = InOrder
        /\ \A u : Waits(u)' = Waits(u)
    BY <1>1, SameCall
  <2>2. SUFFICES ASSUME Planned(before[1]), InOrder, NEW x \in DOMAIN files',
                        x[2] > 0 \/ x[1] \in DOMAIN backups
                 PROVE  Chained(x)'
    BY <1>1, <1>3, <2>1, NotOkYet DEF Ordered
  <2>3. CASE x # <<Task, part>>
    BY <1>1, <1>3, <2>1, <2>2, <2>3 DEF Ordered, Forward, Chained
  <2>4. CASE x = <<Task, part>>
    <3>1. Task \in Tasks /\ Task \in DOMAIN backups /\ Task \notin Done
      BY <1>0, <1>1, TaskAt DEF Remembered
    <3>2. Parent(Task) \in DOMAIN files
      <4>1. Parent(Task) \in DOMAIN before[1] /\ Parent(Task) \notin Gone
        BY <1>0, <1>1, <3>1, Ids DEF AInv, Undo, Backed, Gone, Done
      <4>2. QED
        BY <1>1, <4>1 DEF AInv, Undo, OnDisk, Forward
    <3>3. files[Parent(Task)] = Waits(Task)
      <4>1. Chained(Parent(Task))
        BY <1>1, <2>2, <3>1, <3>2 DEF Ordered, Forward, Parent
      <4>2. QED
        BY <4>1 DEF Chained, Parent
    <3>4. files'[x] = SubtaskDepends(Task, part, Waits(Task)) /\ x[1] = Task /\ x[2] = part
      BY <1>3, <2>4, <3>3
    <3>5. part \in Nat /\ part >= 1
      BY <1>0, AtomizerAssumption DEF TypeOK
    <3>6. QED
      BY <2>1, <3>4, <3>5 DEF Chained, SubtaskDepends
  <2>5. QED
    BY <2>3, <2>4
<1>4. QED
  BY <1>1, <1>2, <1>3 DEF WriteSubtask, Raise

LEMMA UnlinkOrders ==
  ASSUME AInv, AInv', Ordered, UnlinkParent PROVE Ordered'
<1>1. /\ pc = "write"
      /\ UNCHANGED <<depends, steps, request, before, backups>>
  BY DEF UnlinkParent, plan, args
<1>2. CASE pc' = "drop created"
  BY <1>2, EndsOrdered DEF Forward
<1>3. CASE files' = [x \in DOMAIN files \ {Parent(Task)} |-> files[x]] /\ pc' = "map"
  <2>1. /\ Planned(before[1])' = Planned(before[1]) /\ InOrder' = InOrder
        /\ \A u : Waits(u)' = Waits(u)
    BY <1>1, SameCall
  <2>2. \A x \in DOMAIN files' : x \in DOMAIN files /\ files'[x] = files[x]
    BY <1>3
  <2>3. QED
    BY <1>1, <1>3, <2>1, <2>2, NotOkYet DEF Ordered, Forward, Chained
<1>4. QED
  BY <1>2, <1>3 DEF UnlinkParent, Raise

LEMMA MapOrders ==
  ASSUME AInv, AInv', Ordered, RewriteMap PROVE Ordered'
<1>1. /\ pc = "map" /\ pc' # "idle"
      /\ UNCHANGED <<depends, steps, request, before, files, backups>>
  BY DEF RewriteMap, plan, args, memory, Raise
<1>2. /\ Planned(before[1])' = Planned(before[1]) /\ InOrder' = InOrder
      /\ \A u : Waits(u)' = Waits(u)
  BY <1>1, SameCall
<1>3. QED
  BY <1>1, <1>2, NotOkYet DEF Ordered, Chained, Forward

(* At its end, a call has split what it was to split.                      *)
LEMMA SplitAll ==
  ASSUME AInv, pc = "task", pos > Len(request)
  PROVE  /\ Done = {t \in Tasks : IsSplit(t)}
         /\ DOMAIN files = (DOMAIN before[1] \ Gone) \cup UNION {Subtasks(t) : t \in Done}
<1>0. TypeOK /\ Remembered /\ OnDisk
  BY DEF AInv, Undo
<1>1. pos = Len(request) + 1
  BY <1>0 DEF TypeOK
<1>2. \A t \in Tasks : t \in Done <=> IsSplit(t)
  <2>1. \A i \in 1 .. Len(request) : steps[request[i]] > 1 => request[i] \in Done
    BY <1>0, <1>1 DEF Remembered, Forward, TypeOK
  <2>2. \A t \in Done : steps[t] > 1 /\ \E i \in 1 .. Len(request) : request[i] = t
    BY <1>0 DEF Remembered
  <2>3. QED
    BY <2>1, <2>2 DEF IsSplit
<1>3. Partial = {}
  BY DEF Partial, Cut, Rollback
<1>4. QED
  BY <1>0, <1>2, <1>3 DEF OnDisk, Forward, Remembered, Done

LEMMA SucceedOrders ==
  ASSUME AInv, AInv', Retried, Ordered, Succeed PROVE Ordered'
<1>0. TypeOK /\ Remembered /\ DiskOK /\ Kept
  BY DEF AInv, Undo, Succeed
<1>1. /\ pc = "task" /\ pos > Len(request) /\ pc' = "idle"
      /\ UNCHANGED <<depends, steps, request, before, files, backups>>
  BY DEF Succeed, plan, args, disk, memory
<1>2. /\ \A u : Exit(u)' = Exit(u) /\ Entry(u)' = Entry(u)
      /\ InOrder' = InOrder
  BY <1>1, SameCall
<1>3. SUFFICES ASSUME InOrder
      PROVE  /\ DOMAIN files = UNION {Entry(t) : t \in Tasks}
             /\ \A x \in DOMAIN files :
                  files[x] = IF x[2] > 1 THEN {<<x[1], x[2] - 1>>} ELSE Waits(x[1])
  <2>1. UNION {Entry(t)' : t \in Tasks} = UNION {Entry(t) : t \in Tasks}
    BY <1>2
  <2>2. \A t : Waits(t) = {Exit(u)' : u \in depends[t]}
    BY <1>2 DEF Waits
  <2>3. QED
    BY <1>1, <1>2, <2>1, <2>2 DEF Ordered, OrderKept, Forward
<1>4. Planned(before[1]) /\ Decent(before[1])
  <2>1. \A i \in pos .. Len(request) : FALSE
    BY <1>0, <1>1 DEF TypeOK
  <2>2. QED
    BY <1>1, <2>1 DEF Retried, Forward
<1>5. /\ Done = {t \in Tasks : IsSplit(t)} /\ DOMAIN before[1] = DOMAIN Files0
      /\ DOMAIN files = (DOMAIN Files0 \ Gone) \cup UNION {Subtasks(t) : t \in Done}
  BY <1>1, <1>4, SplitAll DEF Planned
<1>6. DOMAIN files = UNION {Entry(t) : t \in Tasks}
  <2>1. \A t \in Tasks : Entry(t) = IF t \in Done THEN Subtasks(t) ELSE {Parent(t)}
    BY <1>5 DEF Entry, Subtasks
  <2>2. DOMAIN Files0 \ Gone = {Parent(t) : t \in Tasks \ Done}
    BY <1>0, Ids DEF Files0, Gone, Done
  <2>3. Done \subseteq Tasks
    BY DEF Done
  <2>4. QED
    BY <1>5, <2>1, <2>2, <2>3
<1>7. ASSUME NEW x \in DOMAIN files
      PROVE  files[x] = IF x[2] > 1 THEN {<<x[1], x[2] - 1>>} ELSE Waits(x[1])
  <2>1. CASE x[2] > 0 \/ x[1] \in DOMAIN backups
    BY <1>1, <1>3, <1>4, <2>1 DEF Ordered, Forward, Chained
  <2>2. CASE ~ (x[2] > 0) /\ x[1] \notin DOMAIN backups
    <3>1. Known(x)
      BY <1>0 DEF DiskOK, GoodFiles
    <3>2. PICK t \in Tasks : t = x[1]
      BY <1>0, <3>1, KnownIs
    <3>3. x = Parent(t)
      <4>1. x \notin Subtasks(t)
        BY <1>0, <2>2, Ids
      <4>2. QED
        BY <1>0, <3>1, <3>2, <4>1, KnownIs
    <3>4. \A u \in depends[t] : u \in Tasks /\ ~ IsSplit(u)
      <4>1. \A i \in 1 .. Len(request) : request[i] \in DOMAIN backups
        BY <1>0, <1>1 DEF Remembered, Forward, TypeOK
      <4>2. \A i \in 1 .. Len(request) : request[i] # t
        BY <2>2, <3>2, <4>1
      <4>3. QED
        BY <1>0, <1>3, <4>2 DEF InOrder, TypeOK
    <3>5. Untouched(x) /\ x \in DOMAIN Files0
      BY <1>0, <2>2, <3>2, <3>3, Ids DEF Untouched, Files0, TypeOK
    <3>6. files[x] = before[1][x] /\ x \in DOMAIN before[1]
      BY <1>0, <1>5, <3>5 DEF Kept
    <3>7. Files0[x] = {Parent(u) : u \in depends[t]}
      BY <3>2, <3>5 DEF Files0
    <3>8. Waits(t) = {Parent(u) : u \in depends[t]}
      BY <3>4 DEF Waits, Exit
    <3>8a. files[x] = Waits(t)
      BY <1>3, <1>4, <3>3, <3>6, <3>7, <3>8 DEF Decent
    <3>9. ~ (x[2] > 1)
      BY <3>3 DEF Parent
    <3>10. QED
      BY <3>2, <3>8a, <3>9
  <2>3. QED
    BY <2>1, <2>2
<1>8. QED
  BY <1>6, <1>7

-----------------------------------------------------------------------------
(* MAP.md follows the files.                                               *)

(* Outside a call that did not succeed, with nothing torn, all is as the   *)
(* planner left it.                                                        *)
LEMMA PlannedAgrees ==
  ASSUME TypeOK, disk = <<Files0, Map0>> PROVE MapAgrees
<1>1. files = Files0 /\ map = Map0
  BY DEF disk
<1>2. DOMAIN map = DOMAIN files
  BY <1>1 DEF Files0, Map0
<1>3. \A x \in DOMAIN map : map[x].deps = files[x]
  BY <1>1 DEF Files0, Map0
<1>4. QED
  BY <1>2, <1>3 DEF MapAgrees

LEMMA PlanSame ==
  ASSUME UNCHANGED <<depends, steps>>
  PROVE  /\ Files0' = Files0 /\ Map0' = Map0
         /\ \A u : Parent(u)' = Parent(u) /\ Subtasks(u)' = Subtasks(u) /\ LastSubtask(u)' = LastSubtask(u)
BY DEF Files0, Map0, Parent, Subtasks, LastSubtask

(* A step of the rollback, or one that leads there, or a kill.             *)
LEMMA BackedOut ==
  ASSUME AInv, AInv', MapDone, pc # "idle", pc' \notin Forward, torn \subseteq torn',
         torn' = {} => ~ Cut' /\ (pc' = "idle" => disk' = before),
         UNCHANGED <<depends, steps, before>>
  PROVE  MapDone'
<1>1. Files0' = Files0 /\ Map0' = Map0
  BY PlanSame
<1>2. torn' = {} => before = <<Files0, Map0>>
  BY DEF MapDone, AInv, Shape
<1>3. torn' = {} => (IF pc' = "idle" THEN disk' ELSE before') = <<Files0', Map0'>>
  BY <1>1, <1>2
<1>4. (TypeOK /\ disk = <<Files0, Map0>> => MapAgrees)'
  BY PlannedAgrees, PTL
<1>5. MapAgrees'
  BY <1>3, <1>4 DEF MapAgrees, AInv
<1>6. QED
  BY <1>3, <1>5 DEF MapDone

LEMMA CallMaps ==
  ASSUME AInv, AInv', MapDone, Call PROVE MapDone'
<1>1. /\ pc = "idle" /\ pc' = "task" /\ outcome # "ok"
      /\ rewrites' = [t \in Tasks |-> Parent(t)] /\ before' = disk
      /\ UNCHANGED <<depends, steps, files, map, torn>>
  BY DEF Call, plan, disk
<1>2. /\ Files0' = Files0 /\ Map0' = Map0
      /\ \A u : Parent(u)' = Parent(u) /\ Subtasks(u)' = Subtasks(u) /\ LastSubtask(u)' = LastSubtask(u)
  BY <1>1, PlanSame
<1>3. Done' = {} /\ Mapped' = {}
  BY <1>1, <1>2 DEF Done, Mapped
<1>4. ~ Cut'
  BY <1>1 DEF Cut, Rollback
<1>5. MapAgrees'
  BY <1>1 DEF MapAgrees
<1>6. torn = {} => map = Map0 /\ disk = <<Files0, Map0>>
  BY <1>1 DEF MapDone, disk
<1>7. DOMAIN Map0 = {Parent(t) : t \in Tasks} /\ \A x \in DOMAIN Map0 : x[2] = 0
  BY DEF Map0, Files0, Parent
<1>8. torn = {} => MapIs(map, {}, files)
  <2>1. \A x \in DOMAIN Map0 :
          Map0[x] = [deps |-> {Parent(u) : u \in depends[x[1]]}, short |-> TRUE]
    BY DEF Map0, Files0
  <2>2. \A x : {IF u \in {} THEN LastSubtask(u) ELSE Parent(u) : u \in depends[x[1]]}
                = {Parent(u) : u \in depends[x[1]]}
    OBVIOUS
  <2>3. MapIs(Map0, {}, files)
    BY <1>7, <2>1, <2>2 DEF MapIs
  <2>4. QED
    BY <1>6, <2>3
<1>9. torn' = {} => MapIs(map, Mapped, files)'
  BY <1>1, <1>2, <1>3, <1>8 DEF MapIs
<1>10. QED
  BY <1>1, <1>2, <1>4, <1>5, <1>6, <1>9 DEF MapDone

LEMMA MapIsNow ==
  ASSUME MapDone, torn = {}, pc \in Forward PROVE MapIs(map, Mapped, files)
BY DEF MapDone

(* A step of a call that is not over: MAP.md is what it was, and what it   *)
(* lists has the depends it had.                                           *)
LEMMA OnwardMaps ==
  ASSUME AInv, AInv', MapDone, pc \in Forward, pc' \in Forward,
         Mapped' = Mapped, UNCHANGED <<depends, steps, map, before, torn>>,
         \A t \in Mapped : \A x \in Subtasks(t) : files'[x] = files[x]
  PROVE  MapDone'
<1>1. /\ Files0' = Files0 /\ Map0' = Map0
      /\ \A u : Parent(u)' = Parent(u) /\ Subtasks(u)' = Subtasks(u) /\ LastSubtask(u)' = LastSubtask(u)
  BY PlanSame
<1>2. ~ Cut' /\ MapAgrees' /\ pc # "idle" /\ pc' # "idle" /\ outcome = "none" /\ outcome' = "none"
  BY DEF Cut, Rollback, Forward, MapAgrees, AInv, Shape
<1>3. torn = {} => \A x \in DOMAIN map : x[2] # 0 => files'[x] = files[x]
  <2>1. SUFFICES ASSUME torn = {}, NEW x \in DOMAIN map, x[2] # 0 PROVE files'[x] = files[x]
    OBVIOUS
  <2>2. DOMAIN map = ({Parent(t) : t \in Tasks \ Mapped}) \cup UNION {Subtasks(t) : t \in Mapped}
    BY <2>1, MapIsNow DEF MapIs
  <2>3. \A t \in Tasks : x # Parent(t)
    BY <2>1 DEF Parent
  <2>4. QED
    BY <2>2, <2>3
<1>4. torn = {} => MapIs(map, Mapped, files')
  BY <1>3, MapIsNow DEF MapIs
<1>5. torn' = {} => MapIs(map, Mapped, files)'
  BY <1>1, <1>4 DEF MapIs
<1>6. QED
  BY <1>1, <1>2, <1>5 DEF MapDone

LEMMA ProcessMaps ==
  ASSUME AInv, AInv', MapDone, ProcessTask PROVE MapDone'
<1>0. TypeOK /\ Remembered
  BY DEF AInv
<1>1. /\ pc = "task" /\ pos <= Len(request) /\ Task \in Tasks
      /\ UNCHANGED <<depends, steps, map, before, rewrites, torn>>
  BY <1>0, TaskAt DEF ProcessTask, plan, args, ends
<1>2. CASE pc' = "drop created" /\ fault' = "missing"
  BY <1>1, <1>2, BackedOut DEF Forward, Cut
<1>3. CASE files' = [files EXCEPT ![Parent(Task)] = RewrittenDepends(Task)] /\ pc' \in {"task", "check"}
  <2>1. Mapped' = Mapped /\ pc \in Forward /\ pc' \in Forward
    BY <1>1, <1>3 DEF Mapped, Done, Parent, Forward
  <2>2. ASSUME NEW t \in Mapped, NEW x \in Subtasks(t) PROVE files'[x] = files[x]
    <3>1. t \in Tasks
      BY DEF Mapped, Done
    <3>2. x # Parent(Task)
      BY <1>0, <3>1, SubtaskNotParent
    <3>3. QED
      <4>1. files = [y \in DOMAIN files |-> files[y]] /\ x \in DOMAIN files
        <5>1. t \in Done
          BY DEF Mapped
        <5>2. x \in created
          BY <1>0, <5>1 DEF Remembered
        <5>3. QED
          BY <1>1, <2>1, <5>2 DEF AInv, DiskOK, GoodFiles, Undo, OnDisk
      <4>2. QED
        BY <1>3, <3>2, <4>1
  <2>3. QED
    BY <1>1, <2>1, <2>2, OnwardMaps
<1>4. QED
  BY <1>1, <1>2, <1>3 DEF ProcessTask, Raise

LEMMA CheckMaps ==
  ASSUME AInv, AInv', MapDone, CheckOutput PROVE MapDone'
<1>1. /\ pc = "check"
      /\ UNCHANGED <<depends, steps, map, files, before, rewrites, torn>>
  BY DEF CheckOutput, plan, args, ends, disk, memory
<1>2. CASE pc' = "drop created" /\ fault' \in {"exists", "too many", "nonce"}
  BY <1>1, <1>2, BackedOut DEF Forward, Cut
<1>3. CASE pc' = "write"
  BY <1>1, <1>3, OnwardMaps DEF Mapped, Done, Parent, Forward
<1>4. QED
  BY <1>2, <1>3 DEF CheckOutput, Raise

LEMMA WriteMaps ==
  ASSUME AInv, AInv', MapDone, WriteSubtask PROVE MapDone'
<1>0. TypeOK /\ Remembered
  BY DEF AInv
<1>1. /\ pc = "write"
      /\ UNCHANGED <<depends, steps, map, before, rewrites>>
  BY DEF WriteSubtask, plan, args, memory
<1>2. CASE pc' = "drop created" /\ torn' = torn \cup {"split"}
  BY <1>1, <1>2, BackedOut DEF Forward
<1>3. CASE /\ files' = [x \in DOMAIN files \cup {<<Task, part>>} |->
                          IF x = <<Task, part>>
                          THEN SubtaskDepends(Task, part, files[Parent(Task)])
                          ELSE files[x]]
           /\ UNCHANGED <<pc, torn>>
  <2>1. Mapped' = Mapped /\ pc \in Forward /\ pc' \in Forward /\ Mapped = Done
    BY <1>1, <1>3 DEF Mapped, Done, Parent, Forward
  <2>2. ASSUME NEW t \in Mapped, NEW x \in Subtasks(t) PROVE files'[x] = files[x]
    <3>1. t \in Tasks /\ Task \notin Done
      BY <1>0, <1>1 DEF Mapped, Done, Remembered
    <3>2. x[1] = t /\ t # Task
      BY <1>0, <2>1, <3>1, Ids
    <3>3. x # <<Task, part>>
      BY <3>2
    <3>4. x \in DOMAIN files
      <4>1. x \in created
        BY <1>0, <2>1 DEF Remembered
      <4>2. QED
        BY <1>1, <2>1, <4>1 DEF AInv, Undo, OnDisk
    <3>5. QED
      BY <1>3, <3>3, <3>4
  <2>3. QED
    BY <1>1, <1>3, <2>1, <2>2, OnwardMaps
<1>4. QED
  BY <1>2, <1>3 DEF WriteSubtask, Raise, Torn

LEMMA UnlinkMaps ==
  ASSUME AInv, AInv', MapDone, UnlinkParent PROVE MapDone'
<1>0. TypeOK /\ Remembered /\ Shape
  BY DEF AInv
<1>1. /\ pc = "write" /\ Task \in Tasks /\ Task \notin Done
      /\ UNCHANGED <<depends, steps, map, before, request, pos>>
  BY <1>0, TaskAt DEF UnlinkParent, plan, args, memory, Shape, Remembered
<1>2. CASE pc' = "drop created" /\ torn' = torn \cup {"split"}
  BY <1>1, <1>2, BackedOut DEF Forward
<1>3. CASE /\ files' = [x \in DOMAIN files \ {Parent(Task)} |-> files[x]]
           /\ rewrites' = [rewrites EXCEPT ![Task] = LastSubtask(Task)]
           /\ pc' = "map" /\ torn' = torn
  <2>1. Mapped' = Mapped /\ Mapped = Done
    <3>1. \A u \in Tasks : u # Task => (u \in Done' <=> u \in Done)
      BY <1>0, <1>1, <1>3 DEF Done, Parent, TypeOK
    <3>2. Mapped' = Done' \ {Task} /\ Mapped = Done
      BY <1>1, <1>3 DEF Mapped, Task
    <3>3. Done \subseteq Tasks /\ Done' \subseteq Tasks
      BY DEF Done
    <3>4. QED
      BY <1>1, <3>1, <3>2, <3>3
  <2>2. ASSUME NEW t \in Mapped, NEW x \in Subtasks(t) PROVE files'[x] = files[x]
    <3>1. t \in Tasks /\ t \in Done
      BY <2>1 DEF Done
    <3>2. x # Parent(Task)
      BY <1>0, <3>1, SubtaskNotParent
    <3>3. x \in DOMAIN files
      <4>1. x \in created
        BY <1>0, <2>1 DEF Remembered
      <4>2. QED
        BY <1>1, <4>1 DEF AInv, Undo, OnDisk, Forward
    <3>4. QED
      BY <1>3, <3>2, <3>3
  <2>3. QED
    BY <1>1, <1>3, <2>1, <2>2, OnwardMaps DEF Forward
<1>4. QED
  BY <1>2, <1>3 DEF UnlinkParent, Raise, Torn

LEMMA ShortLine ==
  ASSUME NEW D, NEW t
  PROVE  RewrittenLine([deps |-> D, short |-> TRUE], t)
           = [deps |-> {IF y = Parent(t) THEN LastSubtask(t) ELSE y : y \in D}, short |-> TRUE]
BY DEF RewrittenLine

LEMMA MapMaps ==
  ASSUME AInv, AInv', MapDone, RewriteMap PROVE MapDone'
<1>0. TypeOK /\ Remembered /\ Shape
  BY DEF AInv
<1>1. /\ pc = "map" /\ Task \in Tasks /\ Task \in Done /\ outcome = "none"
      /\ UNCHANGED <<depends, steps, files, before, rewrites, torn, outcome>>
  BY <1>0, TaskAt DEF RewriteMap, plan, args, memory, ends, Shape, Remembered
<1>2. CASE pc' = "drop created" /\ fault' = "map"
  BY <1>1, <1>2, BackedOut DEF Forward, Cut
<1>3. CASE /\ map' = [x \in (DOMAIN map \ {Parent(Task)}) \cup Subtasks(Task) |->
                        IF x[1] = Task THEN [deps |-> files[x], short |-> FALSE]
                                       ELSE RewrittenLine(map[x], Task)]
           /\ pc' = "task"
  <2>1. PICK t \in Tasks : t = Task
    BY <1>1
  <2>2. Done' = Done /\ Mapped' = Done /\ Mapped = Done \ {t} /\ t \in Done /\ Done \subseteq Tasks
    BY <1>1, <1>3, <2>1 DEF Mapped, Done, Parent
  <2>3. /\ Files0' = Files0 /\ Map0' = Map0
        /\ \A u : Parent(u)' = Parent(u) /\ Subtasks(u)' = Subtasks(u) /\ LastSubtask(u)' = LastSubtask(u)
    BY <1>1, PlanSame
  <2>4. ASSUME torn = {} PROVE MapIs(map', Done, files)
    <3>1. MapIs(map, Done \ {t}, files)
      BY <1>1, <2>2, <2>4, MapIsNow DEF Forward
    <3>2. DOMAIN map = ({Parent(u) : u \in Tasks \ (Done \ {t})}) \cup UNION {Subtasks(u) : u \in Done \ {t}}
      BY <3>1 DEF MapIs
    <3>3. {Parent(u) : u \in Tasks \ (Done \ {t})} = ({Parent(u) : u \in Tasks \ Done}) \cup {Parent(t)}
      BY <2>2
    <3>4. /\ Parent(t) \notin {Parent(u) : u \in Tasks \ Done}
          /\ Parent(t) \notin UNION {Subtasks(u) : u \in Done \ {t}}
      BY <1>0, <2>2, Ids, SubtaskNotParent
    <3>5. UNION {Subtasks(u) : u \in Done} = (UNION {Subtasks(u) : u \in Done \ {t}}) \cup Subtasks(t)
      BY <2>2
    <3>6. DOMAIN map' = (DOMAIN map \ {Parent(t)}) \cup Subtasks(t)
      BY <1>3, <2>1
    <3>7. DOMAIN map' = ({Parent(u) : u \in Tasks \ Done}) \cup UNION {Subtasks(u) : u \in Done}
      BY <3>2, <3>3, <3>4, <3>5, <3>6
    <3>8. ASSUME NEW x \in DOMAIN map', x[2] = 0
          PROVE  map'[x] = [deps |-> {IF u \in Done THEN LastSubtask(u) ELSE Parent(u) : u \in depends[x[1]]},
                            short |-> TRUE]
      <4>1. ASSUME NEW u \in Done, x \in Subtasks(u) PROVE FALSE
        BY <1>0, <2>2, <3>8, <4>1, Ids
      <4>2. PICK w \in Tasks \ Done : x = Parent(w)
        BY <3>7, <4>1
      <4>3. x \in DOMAIN map /\ x[1] = w /\ w # t
        BY <2>2, <3>2, <4>2 DEF Parent
      <4>4. map[x] = [deps |-> {IF u \in Done \ {t} THEN LastSubtask(u) ELSE Parent(u) : u \in depends[w]},
                      short |-> TRUE]
        BY <3>1, <3>8, <4>3 DEF MapIs
      <4>5. map'[x] = RewrittenLine(map[x], t)
        BY <1>3, <2>1, <3>8, <4>3
      <4>6. RewrittenLine(map[x], t) =
              [deps |-> {IF y = Parent(t) THEN LastSubtask(t) ELSE y : y \in map[x].deps}, short |-> TRUE]
        <5>1. PICK D : D = {IF u \in Done \ {t} THEN LastSubtask(u) ELSE Parent(u) : u \in depends[w]}
          OBVIOUS
        <5>2. map[x] = [deps |-> D, short |-> TRUE]
          BY <4>4, <5>1
        <5>3. map[x].deps = D
          BY <5>2
        <5>4. QED
          BY <5>2, <5>3, ShortLine
      <4>7. \A u \in depends[w] :
              /\ u = t => Parent(u) = Parent(t)
              /\ u # t => (IF u \in Done \ {t} THEN LastSubtask(u) ELSE Parent(u)) # Parent(t)
        <5>1. depends[w] \subseteq Tasks
          BY <1>0 DEF TypeOK
        <5>2. \A u \in Done \ {t} : LastSubtask(u) # Parent(t)
          BY <1>0, <2>2, Ids DEF LastSubtask, Parent, Remembered
        <5>3. QED
          BY <1>0, <5>1, <5>2, Ids
      <4>8. {IF y = Parent(t) THEN LastSubtask(t) ELSE y : y \in map[x].deps}
              = {IF u \in Done THEN LastSubtask(u) ELSE Parent(u) : u \in depends[w]}
        <5>1. map[x].deps = {IF u \in Done \ {t} THEN LastSubtask(u) ELSE Parent(u) : u \in depends[w]}
          BY <4>4
        <5>2. ASSUME NEW u \in depends[w], NEW y, y = IF u \in Done \ {t} THEN LastSubtask(u) ELSE Parent(u)
              PROVE  (IF y = Parent(t) THEN LastSubtask(t) ELSE y) = IF u \in Done THEN LastSubtask(u) ELSE Parent(u)
          BY <2>2, <4>7, <5>2
        <5>3. QED
          BY <5>1, <5>2
      <4>9. QED
        BY <4>3, <4>5, <4>6, <4>8
    <3>9. ASSUME NEW x \in DOMAIN map', x[2] # 0
          PROVE  map'[x] = [deps |-> files[x], short |-> FALSE]
      <4>1. \A u : x # Parent(u)
        BY <3>9 DEF Parent
      <4>2. PICK u \in Done : x \in Subtasks(u)
        BY <3>7, <4>1
      <4>3. x[1] = u
        BY <1>0, <2>2, <4>2, Ids
      <4>4. CASE u = t
        BY <1>3, <2>1, <3>9, <4>3, <4>4
      <4>5. CASE u # t
        <5>1. x \in DOMAIN map
          BY <3>2, <4>2, <4>5
        <5>2. map[x] = [deps |-> files[x], short |-> FALSE]
          BY <3>1, <3>9, <5>1 DEF MapIs
        <5>3. map'[x] = RewrittenLine(map[x], t)
          BY <1>3, <2>1, <3>9, <4>3, <4>5
        <5>4. QED
          BY <5>2, <5>3 DEF RewrittenLine
      <4>6. QED
        BY <4>4, <4>5
    <3>10. QED
      BY <3>7, <3>8, <3>9 DEF MapIs
  <2>5. torn' = {} => MapIs(map, Mapped, files)'
    BY <1>1, <2>2, <2>3, <2>4 DEF MapIs
  <2>6. ~ Cut' /\ MapAgrees' /\ pc # "idle" /\ pc' # "idle"
    BY <1>1, <1>3 DEF Cut, Rollback, MapAgrees
  <2>7. QED
    BY <1>1, <2>3, <2>5, <2>6 DEF MapDone
<1>4. QED
  BY <1>2, <1>3 DEF RewriteMap, Raise

LEMMA RollbackMaps ==
  ASSUME AInv, AInv', MapDone, DropCreated \/ RestoreParents \/ RestoreMap \/ Killed PROVE MapDone'
<1>1. CASE DropCreated \/ RestoreParents
  <2>1. /\ pc \in Rollback /\ pc' \in {"restore parents", "restore map"}
        /\ UNCHANGED <<depends, steps, before, torn, fault>>
    BY <1>1 DEF DropCreated, RestoreParents, plan, args, ends, Rollback
  <2>2. torn' = {} => ~ Cut'
    BY <2>1 DEF MapDone, Cut, Rollback
  <2>3. QED
    BY <2>1, <2>2, BackedOut DEF Forward, Rollback
<1>2. CASE RestoreMap
  <2>1. /\ pc \in Rollback /\ pc' = "idle" /\ outcome' = "failed"
        /\ UNCHANGED <<depends, steps, before, torn, fault>>
    BY <1>2 DEF RestoreMap, plan, args, Rollback
  <2>2. torn' = {} => fault' \notin {"write", "unlink"}
    BY <2>1 DEF MapDone, Cut
  <2>3. torn' = {} => disk' = before
    BY <2>1, <2>2 DEF AInv, FailureUndone
  <2>4. ~ Cut'
    BY <2>1 DEF Cut, Rollback
  <2>5. QED
    BY <2>1, <2>3, <2>4, BackedOut DEF Forward, Rollback
<1>3. CASE Killed
  BY <1>3, BackedOut DEF Killed, plan, args, Torn, Forward
<1>4. QED
  BY <1>1, <1>2, <1>3

LEMMA SucceedMaps ==
  ASSUME AInv, AInv', MapDone, Ordered', Succeed PROVE MapDone'
<1>0. TypeOK /\ Remembered /\ DiskOK
  BY DEF AInv
<1>1. /\ pc = "task" /\ pos > Len(request) /\ pc' = "idle" /\ outcome' = "ok"
      /\ UNCHANGED <<depends, steps, request, before, files, map, rewrites, torn>>
  BY DEF Succeed, plan, args, disk, memory
<1>2. ~ Cut'
  BY <1>1 DEF Cut, Rollback
<1>3. SUFFICES ASSUME torn = {} PROVE MapAgrees'
  BY <1>1, <1>2 DEF MapDone, MapAgrees, Forward
<1>4. Mapped = Done /\ MapIs(map, Done, files)
  BY <1>1, <1>3, MapIsNow DEF Mapped, Forward
<1>5. /\ Done = {t \in Tasks : IsSplit(t)}
      /\ DOMAIN files = (DOMAIN Files0 \ Gone) \cup UNION {Subtasks(t) : t \in Done}
  <2>1. before = <<Files0, Map0>> /\ before[1] = Files0
    BY <1>0, <1>1, <1>3 DEF MapDone, AInv, Shape
  <2>2. QED
    BY <1>1, <2>1, SplitAll
<1>6. DOMAIN map = DOMAIN files
  <2>1. DOMAIN Files0 \ Gone = {Parent(t) : t \in Tasks \ Done}
    BY <1>0, Ids DEF Files0, Gone, Done
  <2>2. QED
    BY <1>4, <1>5, <2>1 DEF MapIs
<1>7. ASSUME InOrder, NEW x \in DOMAIN map PROVE map[x].deps = files[x]
  <2>1. CASE x[2] # 0
    <3>1. map[x] = [deps |-> files[x], short |-> FALSE]
      BY <1>4, <1>7, <2>1 DEF MapIs
    <3>2. QED
      BY <3>1
  <2>2. CASE x[2] = 0
    <3>1. InOrder'
      BY <1>1, <1>7, SameCall
    <3>2. \A u : Exit(u)' = Exit(u)
      BY <1>1, SameCall
    <3>3. files'[x] = IF x[2] > 1 THEN {<<x[1], x[2] - 1>>} ELSE {Exit(u)' : u \in depends'[x[1]]}
      BY <1>1, <1>6, <3>1, <1>7 DEF Ordered, OrderKept
    <3>4. files[x] = {Exit(u) : u \in depends[x[1]]}
      BY <1>1, <2>2, <3>2, <3>3
    <3>5. x[1] \in Tasks
      BY <1>0, <1>7, KnownIs DEF DiskOK, GoodMap
    <3>6. depends[x[1]] \subseteq Tasks
      BY <1>0, <3>5 DEF TypeOK
    <3>7. \A u \in depends[x[1]] : Exit(u) = IF u \in Done THEN LastSubtask(u) ELSE Parent(u)
      BY <1>5, <3>6 DEF Exit
    <3>8. map[x].deps = {IF u \in Done THEN LastSubtask(u) ELSE Parent(u) : u \in depends[x[1]]}
      <4>1. map[x] = [deps |-> {IF u \in Done THEN LastSubtask(u) ELSE Parent(u) : u \in depends[x[1]]},
                      short |-> TRUE]
        BY <1>4, <1>7, <2>2 DEF MapIs
      <4>2. QED
        BY <4>1
    <3>9. QED
      BY <3>4, <3>7, <3>8
  <2>3. QED
    BY <2>1, <2>2
<1>8. (IF pc' = "idle" THEN TRUE ELSE FALSE) /\ (InOrder' => InOrder)
  BY <1>1, SameCall
<1>9. QED
  BY <1>1, <1>6, <1>7, <1>8 DEF MapAgrees

-----------------------------------------------------------------------------
(* What a call keeps whatever it meets.                                    *)

(* Every variable has its type.                                            *)
THEOREM AtomizerTyped == Spec => []TypeOK
<1>1. AInv => TypeOK
  BY DEF AInv
<1>2. QED
  BY <1>1, AInvHolds, PTL

(* A call that fails leaves files and MAP.md as it found them, whatever    *)
(* raised and however far it had come - but for an error among the files   *)
(* of one task.                                                            *)
THEOREM FailuresUndone == Spec => []FailureUndone
<1>1. AInv => FailureUndone
  BY DEF AInv
<1>2. QED
  BY <1>1, AInvHolds, PTL

(* Every step of every program has a file after any sequence of calls,     *)
(* failed or killed, except one killed in its rollback.                    *)
THEOREM StepsSurvive == Spec => []NoStepLost
<1>1. AInv => NoStepLost
  BY DEF AInv, Whole, HasSteps, NoStepLost
<1>2. QED
  BY <1>1, AInvHolds, PTL

-----------------------------------------------------------------------------
(* What a call does that succeeds, if the script finds the depends lines.  *)

LEMMA InitBInv ==
  ASSUME Init PROVE BInv
<1>1. /\ files = Files0 /\ map = Map0 /\ pc = "idle" /\ outcome = "none" /\ torn = {}
      /\ DOMAIN files = {Parent(t) : t \in Tasks}
  BY DEF Init, Files0, Map0
<1>2. Retried
  BY <1>1 DEF Retried, Began, Planned, Decent, Forward
<1>3. Ordered
  BY <1>1 DEF Ordered, OrderKept, Forward
<1>4. TypeOK
  BY InitAInv DEF AInv
<1>5. disk = <<Files0, Map0>>
  BY <1>1 DEF disk
<1>6. MapDone
  BY <1>1, <1>4, <1>5, PlannedAgrees DEF MapDone, Cut, Rollback, Forward
<1>7. QED
  BY <1>2, <1>3, <1>6 DEF BInv

LEMMA BInvKept ==
  ASSUME Verbatim = Tasks, AInv, AInv', BInv, [Next]_vars PROVE BInv'
<1>0. Retried /\ Ordered /\ MapDone
  BY DEF BInv
<1>1. CASE Call
  BY <1>0, <1>1, CallRetries, CallOrders, CallMaps DEF BInv
<1>2. CASE ProcessTask
  BY <1>0, <1>2, ProcessRetries, ProcessOrders, ProcessMaps DEF BInv, Retried
<1>3. CASE CheckOutput
  BY <1>0, <1>3, CheckRetries, CheckOrders, CheckMaps DEF BInv
<1>4. CASE WriteSubtask
  BY <1>0, <1>4, WriteRetries, WriteOrders, WriteMaps DEF BInv
<1>5. CASE UnlinkParent
  BY <1>0, <1>5, UnlinkRetries, UnlinkOrders, UnlinkMaps DEF BInv
<1>6. CASE RewriteMap
  BY <1>0, <1>6, MapRetries, MapOrders, MapMaps DEF BInv
<1>7. CASE Succeed
  <2>1. Retried'
    BY <1>0, <1>7, EndRetries DEF Succeed, plan, disk, args
  <2>2. Ordered'
    BY <1>0, <1>7, SucceedOrders
  <2>3. QED
    BY <1>0, <1>7, <2>1, <2>2, SucceedMaps DEF BInv
<1>8. CASE DropCreated \/ RestoreParents
  <2>1. /\ pc \in Rollback /\ pc' \in {"restore parents", "restore map"}
        /\ UNCHANGED <<depends, steps, request, before, rewrites>>
    BY <1>8 DEF DropCreated, RestoreParents, plan, args, memory, Rollback
  <2>2. Retried'
    BY <1>0, <1>8, <2>1, RollbackRetries DEF Rollback
  <2>3. Ordered'
    BY <1>0, <2>1, EndsOrdered DEF Forward
  <2>4. QED
    BY <1>0, <1>8, <2>2, <2>3, RollbackMaps DEF BInv
<1>9. CASE RestoreMap \/ Killed
  <2>1. /\ pc # "idle" /\ pc' = "idle" /\ outcome' \in {"failed", "killed"}
        /\ UNCHANGED <<depends, steps, request>> /\ (files' = files \/ CutShort)
    BY <1>9 DEF RestoreMap, Killed, plan, args
  <2>2. Retried'
    BY <1>0, <2>1, EndRetries
  <2>3. Ordered'
    BY <1>0, <2>1, EndsOrdered DEF Forward
  <2>4. QED
    BY <1>0, <1>9, <2>2, <2>3, RollbackMaps DEF BInv
<1>10. CASE UNCHANGED vars
  <2>1. UNCHANGED <<depends, steps, files, map, pc, request, pos, part, created, rewrites,
                    backups, before, outcome, fault, calls, torn>>
    BY <1>10 DEF vars, plan, disk, memory, args, ends
  <2>2. /\ Files0' = Files0 /\ Map0' = Map0 /\ Done' = Done /\ Mapped' = Mapped /\ (Cut' <=> Cut)
        /\ \A u : Parent(u)' = Parent(u) /\ Subtasks(u)' = Subtasks(u) /\ LastSubtask(u)' = LastSubtask(u)
        /\ \A u : Exit(u)' = Exit(u) /\ Waits(u)' = Waits(u) /\ Entry(u)' = Entry(u)
        /\ InOrder' = InOrder
    BY <2>1, SameCall, PlanSame DEF Done, Mapped, Cut, Task, Parent
  <2>3. Retried'
    <3>1. /\ Decent(files)' = Decent(files) /\ Decent(before[1])' = Decent(before[1])
          /\ \A i : StuckAt(files, i)' = StuckAt(files, i)
      BY <2>1, <2>2 DEF Decent, StuckAt
    <3>2. /\ Planned(files)' = Planned(files) /\ Planned(before[1])' = Planned(before[1])
          /\ \A i : StuckAt(before[1], i)' = StuckAt(before[1], i)
      BY <2>1, <2>2, <3>1 DEF Planned, StuckAt
    <3>3. Began(files)' = Began(files) /\ Began(before[1])' = Began(before[1])
      BY <2>1, <3>1, <3>2 DEF Began
    <3>4. QED
      BY <1>0, <2>1, <3>1, <3>2, <3>3 DEF Retried
  <2>4. OrderKept'
    <3>1. UNION {Entry(t)' : t \in Tasks} = UNION {Entry(t) : t \in Tasks}
      BY <2>2
    <3>2. \A x : {Exit(u)' : u \in depends[x]} = {Exit(u) : u \in depends[x]}
      BY <2>2
    <3>3. QED
      BY <1>0, <2>1, <2>2, <3>1, <3>2 DEF Ordered, OrderKept
  <2>5. Ordered'
    <3>1. Planned(before[1])' = Planned(before[1])
      BY <2>1, SameCall
    <3>2. \A x : Chained(x)' = Chained(x)
      BY <2>1, <2>2 DEF Chained
    <3>3. QED
      BY <1>0, <2>1, <2>2, <2>4, <3>1, <3>2 DEF Ordered
  <2>6. MapAgrees'
    BY <1>0, <2>1, <2>2 DEF MapDone, MapAgrees
  <2>7. MapDone'
    <3>1. disk' = disk
      BY <2>1 DEF disk
    <3>2. torn = {} /\ pc \in Forward => MapIs(map, Mapped, files)
      BY <1>0, MapIsNow
    <3>3. torn = {} /\ pc \in Forward => MapIs(map, Mapped, files)'
      BY <2>1, <2>2, <3>2 DEF MapIs
    <3>4. QED
      BY <1>0, <2>1, <2>2, <2>6, <3>1, <3>3 DEF MapDone
  <2>8. QED
    BY <2>3, <2>5, <2>7 DEF BInv
<1>11. QED
  BY <1>1, <1>2, <1>3, <1>4, <1>5, <1>6, <1>7, <1>8, <1>9, <1>10 DEF Next

LEMMA BInvHolds ==
  ASSUME Verbatim = Tasks PROVE Spec => []BInv
<1>1. Init => BInv
  BY InitBInv
<1>2. AInv /\ AInv' /\ BInv /\ [Next]_vars => BInv'
  BY BInvKept
<1>3. QED
  BY <1>1, <1>2, AInvHolds, PTL DEF Spec

(* A call that succeeds, be it on top of one that failed or was killed,    *)
(* has kept the plan's order, for every plan and every request that names  *)
(* dependents after what they depend on.                                   *)
THEOREM PlanOrderKept ==
  ASSUME Verbatim = Tasks PROVE Spec => []OrderKept
<1>1. BInv => OrderKept
  BY DEF BInv, Ordered
<1>2. QED
  BY <1>1, BInvHolds, PTL

(* MAP.md lists the task files there are, with the depends they have,      *)
(* whether calls succeed or fail, as long as none is torn.                 *)
THEOREM MapAgreesAlways ==
  ASSUME Verbatim = Tasks PROVE Spec => []MapAgrees
<1>1. BInv => MapAgrees
  BY DEF BInv, MapDone
<1>2. QED
  BY <1>1, BInvHolds, PTL
=============================================================================
