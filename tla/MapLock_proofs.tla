---------------------------- MODULE MapLock_proofs ----------------------------
(***************************************************************************)
(* For any number of processes: the types of MapLock, and who can leave a  *)
(* lockfile behind; and, as long as no lockfile comes to look stale and no *)
(* body raises, mutual exclusion and the refinement of AtomicMap, killed   *)
(* processes and calls on the lockfile that fail included.                 *)
(***************************************************************************)
EXTENDS MapLock, TLAPS

(* A process on the way through the body owns the lock.                    *)
Owned == \A p \in Procs : pc[p] \in Body \cup {"release"} => lock = p

(* The faults that are assumed away leave no trace.                        *)
Calm ==
  /\ ~ stale
  /\ \A p \in Procs : pc[p] \notin Cleanup \cup {"unlink", "raised"}

(* What the owner has read is MAP.md as it still is, and the temporary     *)
(* file is the owner's.                                                    *)
Copied ==
  \A p \in Procs :
    /\ pc[p] = "write" => content[p] = map
    /\ pc[p] = "replace" => tmp = {map \cup {p}}
    /\ pc[p] \in {"release", "returned"} => p \in map

(* An attempt that is under way is one of the MaxRetries.                  *)
Counted == \A p \in Procs : pc[p] \in {"stat", "unlink"} => tries[p] < MaxRetries

Typed == TypeOK /\ Counted

IInv == Typed /\ Owned /\ Calm /\ Copied

-----------------------------------------------------------------------------
(* The types hold whatever faults are allowed.                             *)
LEMMA TypedInit == Init => Typed
<1> SUFFICES ASSUME Init PROVE Typed
  OBVIOUS
<1>1. 0 \in 0 .. MaxRetries
  BY LockAssumption DEF LockAssumption
<1>2. TypeOK
  BY <1>1 DEF Init, TypeOK, Stage
<1>3. Counted
  BY DEF Init, Counted
<1>4. QED
  BY <1>2, <1>3 DEF Typed

LEMMA TypedStep == Typed /\ [Next]_vars => Typed'
<1> SUFFICES ASSUME Typed, [Next]_vars PROVE Typed'
  OBVIOUS
<1> USE LockAssumption DEF LockAssumption, Typed, TypeOK, Counted
<1> USE DEF Stage, Body, Cleanup, Ended, Goto
<1>1. ASSUME NEW p \in Procs, TryAcquire(p) PROVE Typed'
  <2>1. TypeOK'
    BY <1>1 DEF TryAcquire, AttemptLeft
  <2>2. Counted'
    BY <1>1 DEF TryAcquire, AttemptLeft
  <2>3. QED
    BY <2>1, <2>2
<1>16. ASSUME NEW p \in Procs, AcquireRaises(p) PROVE Typed'
  BY <1>16 DEF AcquireRaises
<1>2. ASSUME NEW p \in Procs, IsStale(p) PROVE Typed'
  BY <1>2 DEF IsStale
<1>3. ASSUME NEW p \in Procs, ReclaimStale(p) PROVE Typed'
  <2>1. tries[p] \in Nat /\ tries[p] < MaxRetries
    BY <1>3 DEF ReclaimStale
  <2>2. tries' \in [Procs -> 0 .. MaxRetries]
    BY <1>3, <2>1 DEF ReclaimStale
  <2>3. TypeOK'
    BY <1>3, <2>2 DEF ReclaimStale, Unlink, UnlinkFails
  <2>4. Counted'
    BY <1>3, <2>1 DEF ReclaimStale
  <2>5. QED
    BY <2>3, <2>4
<1>4. ASSUME NEW p \in Procs, Timeout(p) PROVE Typed'
  BY <1>4 DEF Timeout
<1>5. ASSUME NEW p \in Procs, ReadMap(p) PROVE Typed'
  BY <1>5 DEF ReadMap
<1>6. ASSUME NEW p \in Procs, WriteTmp(p) PROVE Typed'
  BY <1>6 DEF WriteTmp
<1>7. ASSUME NEW p \in Procs, Replace(p) PROVE Typed'
  BY <1>7 DEF Replace
<1>8. ASSUME NEW p \in Procs, Raise(p) PROVE Typed'
  BY <1>8 DEF Raise
<1>9. ASSUME NEW p \in Procs, CleanTmp(p) PROVE Typed'
  BY <1>9 DEF CleanTmp
<1>10. ASSUME NEW p \in Procs, CleanLock(p) PROVE Typed'
  BY <1>10 DEF CleanLock, OwnUnlink, Unlink, UnlinkFails
<1>11. ASSUME NEW p \in Procs, Release(p) PROVE Typed'
  BY <1>11 DEF Release, OwnUnlink, Unlink, UnlinkFails
<1>12. ASSUME NEW p \in Procs, Killed(p) PROVE Typed'
  BY <1>12 DEF Killed
<1>13. CASE GrowStale
  BY <1>13 DEF GrowStale
<1>14. CASE UNCHANGED vars
  BY <1>14 DEF vars
<1>15. QED
  BY <1>1, <1>2, <1>3, <1>4, <1>5, <1>6, <1>7, <1>8, <1>9, <1>10, <1>11, <1>12,
     <1>13, <1>14, <1>16
     DEF Next, Step, AllEnded

(* Every variable keeps its type, whatever raises, ages or dies.           *)
THEOREM TypesHold == Spec => []TypeOK
<1>1. Typed => TypeOK
  BY DEF Typed
<1>2. QED
  BY TypedInit, TypedStep, <1>1, PTL DEF Spec

-----------------------------------------------------------------------------
(* The lockfile, whatever ages, raises or dies: the one it names has still *)
(* to unlink it, is dead, or could not write or unlink it.                 *)
Held ==
  lock # NoOwner =>
    \/ pc[lock] \in Body \cup {"clean_tmp", "clean_lock", "release", "dead"}
    \/ lock \in failed

LEMMA HeldStep ==
  ASSUME TypeOK, Held, [Next]_vars PROVE Held'
<1> USE LockAssumption DEF LockAssumption, TypeOK, Stage, Body, Cleanup, Ended,
                           Goto, Unlink, UnlinkFails, OwnUnlink, Held
<1>1. ASSUME NEW p \in Procs, TryAcquire(p) PROVE Held'
  BY <1>1 DEF TryAcquire, CanCreate
<1>11. ASSUME NEW p \in Procs, AcquireRaises(p) PROVE Held'
  BY <1>11 DEF AcquireRaises
<1>2. ASSUME NEW p \in Procs, IsStale(p) PROVE Held'
  BY <1>2 DEF IsStale
<1>3. ASSUME NEW p \in Procs, ReclaimStale(p) PROVE Held'
  BY <1>3 DEF ReclaimStale
<1>4. ASSUME NEW p \in Procs, Timeout(p) PROVE Held'
  BY <1>4 DEF Timeout
<1>5. ASSUME NEW p \in Procs, ReadMap(p) \/ WriteTmp(p) \/ Replace(p) \/ Raise(p)
      PROVE  Held'
  BY <1>5 DEF ReadMap, WriteTmp, Replace, Raise
<1>6. ASSUME NEW p \in Procs, CleanTmp(p) \/ CleanLock(p) \/ Release(p) PROVE Held'
  BY <1>6 DEF CleanTmp, CleanLock, Release
<1>7. ASSUME NEW p \in Procs, Killed(p) PROVE Held'
  BY <1>7 DEF Killed
<1>8. CASE GrowStale
  BY <1>8 DEF GrowStale
<1>9. CASE UNCHANGED vars
  BY <1>9 DEF vars
<1>10. QED
  BY <1>1, <1>2, <1>3, <1>4, <1>5, <1>6, <1>7, <1>8, <1>9, <1>11
     DEF Next, Step, AllEnded

(* Who leaves a lockfile behind: a process that was killed, or one that    *)
(* could not write its pid into it or unlink it.  No call that ends in any *)
(* other way does, even if its lock was taken over and unlinked by another *)
(* meanwhile.                                                              *)
THEOREM WhoLeavesLocks == Spec => []NoLockLeft
<1>1. Init => Held
  BY DEF Init, Held
<1>2. TypeOK /\ Held /\ [Next]_vars => Held'
  BY HeldStep
<1>3. TypeOK /\ Held => NoLockLeft
  BY DEF TypeOK, Held, NoLockLeft, Body, Ended
<1>4. QED
  BY TypesHold, <1>1, <1>2, <1>3, PTL DEF Spec

-----------------------------------------------------------------------------
(* Replacing MAP.md by a file with known content.                          *)
LEMMA ReplaceWrites ==
  ASSUME NEW p \in Procs, NEW c, Replace(p), tmp = {c}
  PROVE  map' = c /\ tmp' = {} /\ pc' = [pc EXCEPT ![p] = "release"]
<1>1. tmp # {}
  OBVIOUS
<1>2. UNION tmp = c
  <2>1. \A x : x \in UNION {c} <=> x \in c
    BY Zenon
  <2>2. UNION {c} = c
    BY <2>1
  <2>3. QED
    BY <2>2
<1>3. QED
  BY <1>1, <1>2 DEF Replace, Goto

(* The calm case: no stale-looking lockfile, no exception in a body.       *)

LEMMA InvInit == Init => IInv
<1> SUFFICES ASSUME Init PROVE IInv
  OBVIOUS
<1>1. Typed
  BY TypedInit
<1>2. Owned /\ Calm /\ Copied
  BY DEF Init, Owned, Calm, Copied, Body, Cleanup
<1>3. QED
  BY <1>1, <1>2 DEF IInv

LEMMA InvStep ==
  ASSUME Ages = "nobody", MayRaise = FALSE, IInv, [Next]_vars
  PROVE  IInv'
<1>0. Typed'
  BY TypedStep DEF IInv
<1> SUFFICES Owned' /\ Calm' /\ Copied'
  BY <1>0 DEF IInv
<1> USE LockAssumption DEF LockAssumption, IInv, Typed, TypeOK, Owned, Calm, Copied
<1> USE DEF Stage, Body, Cleanup, Ended, Goto
<1>1. ASSUME NEW p \in Procs, TryAcquire(p) PROVE Owned' /\ Calm' /\ Copied'
  BY <1>1 DEF TryAcquire, CanCreate
<1>15. ASSUME NEW p \in Procs, AcquireRaises(p) PROVE Owned' /\ Calm' /\ Copied'
  BY <1>15 DEF AcquireRaises, CanCreate
<1>2. ASSUME NEW p \in Procs, IsStale(p) PROVE Owned' /\ Calm' /\ Copied'
  BY <1>2 DEF IsStale
<1>3. ASSUME NEW p \in Procs, ReclaimStale(p) PROVE FALSE
  BY <1>3 DEF ReclaimStale
<1>4. ASSUME NEW p \in Procs, Timeout(p) PROVE Owned' /\ Calm' /\ Copied'
  BY <1>4 DEF Timeout
<1>5. ASSUME NEW p \in Procs, ReadMap(p) PROVE Owned' /\ Calm' /\ Copied'
  BY <1>5 DEF ReadMap
<1>6. ASSUME NEW p \in Procs, WriteTmp(p) PROVE Owned' /\ Calm' /\ Copied'
  BY <1>6 DEF WriteTmp
<1>7. ASSUME NEW p \in Procs, Replace(p) PROVE Owned' /\ Calm' /\ Copied'
  <2>1. tmp = {map \cup {p}}
    BY <1>7 DEF Replace
  <2>2. map' = map \cup {p} /\ tmp' = {} /\ pc' = [pc EXCEPT ![p] = "release"]
    BY <1>7, <2>1, ReplaceWrites
  <2>3. \A q \in Procs \ {p} : pc[q] \notin Body \cup {"release"}
    BY <1>7 DEF Replace
  <2>4. QED
    BY <1>7, <2>2, <2>3 DEF Replace
<1>8. ASSUME NEW p \in Procs, Raise(p) PROVE FALSE
  BY <1>8 DEF Raise
<1>9. ASSUME NEW p \in Procs, CleanTmp(p) \/ CleanLock(p) PROVE FALSE
  BY <1>9 DEF CleanTmp, CleanLock
<1>10. ASSUME NEW p \in Procs, Release(p) PROVE Owned' /\ Calm' /\ Copied'
  BY <1>10 DEF Release, OwnUnlink, Unlink, UnlinkFails
<1>11. ASSUME NEW p \in Procs, Killed(p) PROVE Owned' /\ Calm' /\ Copied'
  BY <1>11 DEF Killed
<1>12. CASE GrowStale
  BY <1>12 DEF GrowStale
<1>13. CASE UNCHANGED vars
  BY <1>13 DEF vars
<1>14. QED
  BY <1>1, <1>2, <1>3, <1>4, <1>5, <1>6, <1>7, <1>8, <1>9, <1>10, <1>11, <1>12,
     <1>13, <1>15
     DEF Next, Step, AllEnded

(* While no lockfile looks stale and no body raises, the lock of           *)
(* map_lock.py is exclusive for any number of callers, killed ones         *)
(* included.                                                               *)
THEOREM LockExcludes ==
  ASSUME Ages = "nobody", MayRaise = FALSE
  PROVE  Spec => []Mutex
<1>1. IInv /\ [Next]_vars => IInv'
  BY InvStep
<1>2. IInv => Mutex
  BY DEF IInv, Owned, Mutex
<1>3. QED
  BY InvInit, <1>1, <1>2, PTL DEF Spec

(* Under the same assumptions every update of MAP.md is atomic and none is *)
(* lost: MapLock implements AtomicMap.                                     *)
THEOREM UpdatesAreAtomic ==
  ASSUME Ages = "nobody", MayRaise = FALSE
  PROVE  Spec => AtomicUpdates
<1> DEFINE done == {p \in Procs : pc[p] = "returned"}
<1>1. Init => Atomic!AInit
  BY DEF Init, Atomic!AInit
<1>2. IInv /\ [Next]_vars => [Atomic!ANext]_<<map, done>>
  <2> SUFFICES ASSUME IInv, [Next]_vars PROVE [Atomic!ANext]_<<map, done>>
    OBVIOUS
  <2> USE DEF IInv, Typed, TypeOK, Goto
  <2>1. ASSUME NEW p \in Procs, Replace(p) PROVE [Atomic!ANext]_<<map, done>>
    <3>1. tmp = {map \cup {p}} /\ pc[p] = "replace"
      BY <2>1 DEF Replace, Copied
    <3>2. map' = map \cup {p} /\ pc' = [pc EXCEPT ![p] = "release"]
      BY <2>1, <3>1, ReplaceWrites
    <3>3. done' = done
      BY <3>1, <3>2
    <3>4. QED
      BY <3>2, <3>3 DEF Atomic!ANext, Atomic!Commit
  <2>2. ASSUME NEW p \in Procs, Release(p) PROVE [Atomic!ANext]_<<map, done>>
    <3>1. pc[p] = "release" /\ p \in map /\ map' = map
      BY <2>2 DEF Release, Calm, Copied, Cleanup
    <3>2. pc' = [pc EXCEPT ![p] = "returned"]
      BY <2>2, <3>1 DEF Release
    <3>3. done' = done \cup {p}
      BY <3>2
    <3>4. QED
      BY <3>1, <3>3 DEF Atomic!ANext, Atomic!Return
  <2>3. ASSUME map' = map,
               \A q \in Procs : pc'[q] = "returned" <=> pc[q] = "returned"
        PROVE  [Atomic!ANext]_<<map, done>>
    BY <2>3
  <2>4. ASSUME NEW p \in Procs,
               TryAcquire(p) \/ AcquireRaises(p) \/ IsStale(p) \/ ReclaimStale(p)
               \/ Timeout(p)
        PROVE  [Atomic!ANext]_<<map, done>>
    BY <2>3, <2>4 DEF TryAcquire, AcquireRaises, IsStale, ReclaimStale, Timeout
  <2>5. ASSUME NEW p \in Procs,
               ReadMap(p) \/ WriteTmp(p) \/ Raise(p) \/ CleanTmp(p) \/ CleanLock(p)
        PROVE  [Atomic!ANext]_<<map, done>>
    BY <2>3, <2>5 DEF ReadMap, WriteTmp, Raise, CleanTmp, CleanLock, Body
  <2>6. ASSUME NEW p \in Procs, Killed(p) PROVE [Atomic!ANext]_<<map, done>>
    BY <2>3, <2>6 DEF Killed, Ended
  <2>7. CASE GrowStale \/ UNCHANGED vars
    BY <2>3, <2>7 DEF GrowStale, vars
  <2>8. QED
    BY <2>1, <2>2, <2>4, <2>5, <2>6, <2>7 DEF Next, Step, AllEnded
<1>3. IInv /\ [Next]_vars => IInv'
  BY InvStep
<1>4. QED
  BY InvInit, <1>1, <1>2, <1>3, PTL DEF Spec, AtomicUpdates, Atomic!ASpec
=============================================================================
