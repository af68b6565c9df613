------------------------------- MODULE MapLock -------------------------------
(***************************************************************************)
(* The MAP.md lock (src/src/fsm_core/map_lock.py) around the only write    *)
(* made under it, update_map_status (src/src/fsm_core/map_io.py).  Every   *)
(* process makes one call; each file operation is a step of its own.       *)
(* MAP.md is the set of the processes whose update it holds.               *)
(***************************************************************************)
EXTENDS Naturals

CONSTANTS
  Procs,        \* callers of update_map_status
  MaxRetries,   \* LockConfig.max_retries
  Ages,         \* whose lockfile may grow older than stale_lock_seconds:
                \* nobody's, that of a "dead" process, or "any"
  MayRaise,     \* may the body of the with-statement raise?
  MayCrash,     \* may processes be killed?
  OSErrors,     \* may a call on the lockfile raise an OSError of any kind?
  NoOwner       \* the owner of a lockfile that does not exist

ASSUME LockAssumption ==
  /\ MaxRetries \in Nat \ {0}
  /\ Ages \in {"nobody", "dead", "any"}
  /\ MayRaise \in BOOLEAN /\ MayCrash \in BOOLEAN /\ OSErrors \in BOOLEAN
  /\ NoOwner \notin Procs

VARIABLES
  lock,      \* MAP.md.lock: the pid in it, NoOwner when there is no file
  stale,     \* is its mtime older than stale_lock_seconds?
  map,       \* MAP.md: the updates it holds
  tmp,       \* MAP.md.tmp: the one content it has, or no content
  pc,        \* next step of each process
  tries,     \* attempts each process has used up
  content,   \* what each process has read from MAP.md
  failed     \* history: processes that could not finish or remove a lockfile

vars == <<lock, stale, map, tmp, pc, tries, content, failed>>

(* Between the with-statement's entry and its last release.  The steps up  *)
(* to the replacement of MAP.md are the body.                              *)
Body == {"read", "write", "replace"}
Cleanup == {"clean_tmp", "clean_lock", "release_failed"}
Ended == {"returned", "raised", "timeout", "no_lock", "dead"}
Stage == {"try", "stat", "unlink", "release"} \cup Body \cup Cleanup \cup Ended

TypeOK ==
  /\ lock \in Procs \cup {NoOwner}
  /\ stale \in BOOLEAN
  /\ map \in SUBSET Procs
  /\ tmp \in SUBSET SUBSET Procs
  /\ pc \in [Procs -> Stage]
  /\ tries \in [Procs -> 0 .. MaxRetries]
  /\ content \in [Procs -> SUBSET Procs]
  /\ failed \subseteq Procs

Init ==
  /\ lock = NoOwner /\ stale = FALSE
  /\ map = {} /\ tmp = {}
  /\ pc = [p \in Procs |-> "try"]
  /\ tries = [p \in Procs |-> 0]
  /\ content = [p \in Procs |-> {}]
  /\ failed = {}

Goto(p, s) == pc' = [pc EXCEPT ![p] = s]

-----------------------------------------------------------------------------
(* Acquisition: at most MaxRetries attempts to create the file.            *)

(* mutant: one attempt too many *)
AttemptLeftLate(p) == tries[p] <= MaxRetries

AttemptLeft(p) == tries[p] < MaxRetries

(* mutant: open without O_EXCL *)
CanCreateShared == TRUE

CanCreate == lock = NoOwner

TryAcquire(p) ==
  /\ pc[p] = "try" /\ AttemptLeft(p)
  /\ \/ /\ CanCreate
        /\ lock' = p /\ stale' = FALSE
        /\ Goto(p, "read")
     \/ /\ ~ CanCreate
        /\ Goto(p, "stat")
        /\ UNCHANGED <<lock, stale>>
  /\ UNCHANGED <<map, tmp, tries, content, failed>>

(* LockAcquisitionError, or an OSError of the stat: the call ends before   *)
(* the with-statement is entered and nothing is cleaned up - not even the  *)
(* file that was created and whose pid could not be written.               *)
AcquireRaises(p) ==
  /\ OSErrors
  /\ \/ /\ pc[p] = "stat" \/ (pc[p] = "try" /\ AttemptLeft(p))
        /\ UNCHANGED <<lock, stale, failed>>
     \/ /\ pc[p] = "try" /\ AttemptLeft(p) /\ CanCreate
        /\ lock' = p /\ stale' = FALSE
        /\ failed' = failed \cup {p}
  /\ Goto(p, "no_lock")
  /\ UNCHANGED <<map, tmp, tries, content>>

(* mutant: an attempt that finds the lock busy is not counted *)
IsStaleUncounted(p) ==
  /\ pc[p] = "stat"
  /\ Goto(p, IF lock # NoOwner /\ stale THEN "unlink" ELSE "try")
  /\ UNCHANGED <<lock, stale, map, tmp, tries, content, failed>>

(* A file that is gone by now is not stale.                                *)
IsStale(p) ==
  /\ pc[p] = "stat"
  /\ \/ /\ lock # NoOwner /\ stale
        /\ Goto(p, "unlink")
        /\ UNCHANGED tries
     \/ /\ lock = NoOwner \/ ~ stale
        /\ Goto(p, "try")
        /\ tries' = [tries EXCEPT ![p] = @ + 1]
  /\ UNCHANGED <<lock, stale, map, tmp, content, failed>>

(* An unlink that fails is logged, and the call goes on.                   *)
Unlink == lock' = NoOwner /\ stale' = FALSE
UnlinkFails == OSErrors /\ lock # NoOwner /\ UNCHANGED <<lock, stale>>

(* The file unlinked is whatever file has that name by now.                *)
ReclaimStale(p) ==
  /\ pc[p] = "unlink"
  /\ Unlink \/ UnlinkFails
  /\ tries' = [tries EXCEPT ![p] = @ + 1]
  /\ Goto(p, "try")
  /\ UNCHANGED <<map, tmp, content, failed>>

Timeout(p) ==
  /\ pc[p] = "try" /\ ~ AttemptLeft(p)
  /\ Goto(p, "timeout")
  /\ UNCHANGED <<lock, stale, map, tmp, tries, content, failed>>

-----------------------------------------------------------------------------
(* The body: read MAP.md, write MAP.md.tmp, replace MAP.md by it.          *)

(* mutant: MAP.md is read before the lock is taken *)
ReadMapEarly(p) ==
  /\ pc[p] = "read"
  /\ Goto(p, "write")
  /\ UNCHANGED <<lock, stale, map, tmp, tries, content, failed>>

ReadMap(p) ==
  /\ pc[p] = "read"
  /\ content' = [content EXCEPT ![p] = map]
  /\ Goto(p, "write")
  /\ UNCHANGED <<lock, stale, map, tmp, tries, failed>>

WriteTmp(p) ==
  /\ pc[p] = "write"
  /\ tmp' = {content[p] \cup {p}}
  /\ Goto(p, "replace")
  /\ UNCHANGED <<lock, stale, map, tries, content, failed>>

(* os.replace raises when the temporary file is gone.                      *)
Replace(p) ==
  /\ pc[p] = "replace"
  /\ \/ /\ tmp # {}
        /\ map' = UNION tmp /\ tmp' = {}
        /\ Goto(p, "release")
     \/ /\ tmp = {}
        /\ Goto(p, "clean_tmp")
        /\ UNCHANGED <<map, tmp>>
  /\ UNCHANGED <<lock, stale, tries, content, failed>>

(* A read or write that fails, or a task MAP.md does not list.             *)
Raise(p) ==
  /\ MayRaise /\ pc[p] \in Body
  /\ Goto(p, "clean_tmp")
  /\ UNCHANGED <<lock, stale, map, tmp, tries, content, failed>>

-----------------------------------------------------------------------------
(* Release.  After an exception the lock is unlinked by the handler and    *)
(* once more by the finally clause.                                        *)

CleanTmp(p) ==
  /\ pc[p] = "clean_tmp"
  /\ tmp' = {} \/ (OSErrors /\ UNCHANGED tmp)
  /\ Goto(p, "clean_lock")
  /\ UNCHANGED <<lock, stale, map, tries, content, failed>>

OwnUnlink(p) ==
  \/ Unlink /\ UNCHANGED failed
  \/ UnlinkFails /\ failed' = failed \cup {p}

CleanLock(p) ==
  /\ pc[p] = "clean_lock"
  /\ OwnUnlink(p)
  /\ Goto(p, "release_failed")
  /\ UNCHANGED <<map, tmp, tries, content>>

(* mutant: the with-statement has no finally clause *)
ReleaseForgotten(p) ==
  /\ pc[p] \in {"release", "release_failed"}
  /\ Goto(p, IF pc[p] = "release" THEN "returned" ELSE "raised")
  /\ UNCHANGED <<lock, stale, map, tmp, tries, content, failed>>

Release(p) ==
  /\ pc[p] \in {"release", "release_failed"}
  /\ OwnUnlink(p)
  /\ Goto(p, IF pc[p] = "release" THEN "returned" ELSE "raised")
  /\ UNCHANGED <<map, tmp, tries, content>>

-----------------------------------------------------------------------------
Killed(p) ==
  /\ MayCrash /\ pc[p] \notin Ended
  /\ Goto(p, "dead")
  /\ UNCHANGED <<lock, stale, map, tmp, tries, content, failed>>

(* Time passes: the lockfile is older than stale_lock_seconds.             *)
GrowStale ==
  /\ lock # NoOwner /\ ~ stale
  /\ Ages = "any" \/ (Ages = "dead" /\ pc[lock] = "dead")
  /\ stale' = TRUE
  /\ UNCHANGED <<lock, map, tmp, pc, tries, content, failed>>

Step(p) ==
  \/ TryAcquire(p) \/ AcquireRaises(p) \/ IsStale(p) \/ ReclaimStale(p) \/ Timeout(p)
  \/ ReadMap(p) \/ WriteTmp(p) \/ Replace(p) \/ Raise(p)
  \/ CleanTmp(p) \/ CleanLock(p) \/ Release(p)

AllEnded == (\A p \in Procs : pc[p] \in Ended) /\ UNCHANGED vars

Next == (\E p \in Procs : Step(p) \/ Killed(p)) \/ GrowStale \/ AllEnded

Spec == Init /\ [][Next]_vars

(* Each caller is a running process.                                       *)
FairSpec == Spec /\ \A p \in Procs : WF_vars(Step(p))

-----------------------------------------------------------------------------
(* The lock is exclusive (map_lock.py:100): at most one process at a time  *)
(* runs the body of a with map_lock(...) statement.                        *)
Mutex == \A p, q \in Procs : pc[p] \in Body /\ pc[q] \in Body => p = q

(* The calls implement AtomicMap: MAP.md changes by whole updates, none is *)
(* undone by a later replacement, and a call returns after its update.     *)
Atomic == INSTANCE AtomicMap WITH returned <- {p \in Procs : pc[p] = "returned"}
AtomicUpdates == Atomic!ASpec

(* Whatever ages, raises or dies, no call hangs: each ends within its      *)
(* attempts.                                                               *)
CallsEnd == \A p \in Procs : <>(pc[p] \in Ended)

(* A lockfile outlives the calls in two cases only: its process was        *)
(* killed, or it could not write its pid or unlink the file.  No timeout,  *)
(* no exception of a body and no lock taken over by another leaves one.    *)
NoLockLeft ==
  (\A p \in Procs : pc[p] \in Ended) =>
    lock = NoOwner \/ pc[lock] = "dead" \/ lock \in failed
=============================================================================
