---------------------------- MODULE ActionDecider ----------------------------
(***************************************************************************)
(* The decision cascade of the dispatch loop (src/src/fsm_core/            *)
(* action_decider.py): a pure function from the task statuses to the next  *)
(* action.  A pipeline is a function st from the tasks the reader returned *)
(* to their statuses; lists of tasks are sets, since no rule of the        *)
(* cascade looks at their order.                                           *)
(***************************************************************************)
EXTENDS Naturals

CONSTANTS
  Tasks,   \* the tasks MAP.md lists
  Wave,    \* the wave each task's frontmatter gives
  Deps     \* the tasks each task's frontmatter depends on

ASSUME PlanAssumption ==
  /\ Wave \in [Tasks -> Nat]
  /\ Deps \in [Tasks -> SUBSET Tasks]

(* The statuses orchestrate.py itself writes.  VERIFY and PARTIAL are      *)
(* legal tokens in MAP.md too, which no rule of the cascade mentions.      *)
TaskState ==
  {"PENDING", "IN_PROGRESS", "REVIEW", "EXECUTING", "DONE", "FAILED", "BLOCKED"}

ActionKind ==
  {"error_no_tasks", "escalate_blocked", "dispatch_advisor",
   "wave_checkpoint_pending", "dispatch_wave", "all_done", "waiting"}

With(st, s) == {t \in DOMAIN st : st[t] = s}

InWave(st, w) == {t \in DOMAIN st : Wave[t] = w}

-----------------------------------------------------------------------------
(* The wave gate: the REVIEW tasks of the earliest wave that has any, and  *)
(* whether that whole wave has come to rest.                               *)

EarliestReview(st) ==
  {t \in With(st, "REVIEW") : \A u \in With(st, "REVIEW") : Wave[t] <= Wave[u]}

(* mutant: the gate ignores the wave's tasks that are still running *)
GateReachedEarly(st) == With(st, "REVIEW") # {}

GateReached(st) ==
  /\ With(st, "REVIEW") # {}
  /\ \A t \in EarliestReview(st) :
       \A u \in InWave(st, Wave[t]) : st[u] \in {"DONE", "REVIEW"}

(* The tasks of the first wave that is wholly DONE and holds a task that   *)
(* asks for the user's confirmation.                                       *)
Confirmable(st, confirm) ==
  {t \in DOMAIN st : /\ \A u \in InWave(st, Wave[t]) : st[u] = "DONE"
                     /\ InWave(st, Wave[t]) \cap confirm # {}}

Checkpoint(st, confirm) ==
  {t \in Confirmable(st, confirm) :
     \A u \in Confirmable(st, confirm) : Wave[t] <= Wave[u]}

(* mutant: a REVIEW dependency satisfies across waves too *)
DepsSatisfiedAcrossWaves(st, t) ==
  \A d \in Deps[t] : d \in DOMAIN st /\ st[d] \in {"DONE", "REVIEW"}

(* mutant: a dependency of the same wave has to be DONE as well *)
DepsSatisfiedDoneOnly(st, t) ==
  \A d \in Deps[t] : d \in DOMAIN st /\ st[d] = "DONE"

DepsSatisfied(st, t) ==
  \A d \in Deps[t] :
    /\ d \in DOMAIN st
    /\ \/ st[d] = "DONE"
       \/ st[d] = "REVIEW" /\ Wave[d] = Wave[t]

(* mutant: a task that is running is dispatched again *)
ReadyRunning(st) ==
  {t \in With(st, "PENDING") \cup With(st, "IN_PROGRESS") : DepsSatisfied(st, t)}

Ready(st) == {t \in With(st, "PENDING") : DepsSatisfied(st, t)}

-----------------------------------------------------------------------------
Action(kind, tasks) == [kind |-> kind, tasks |-> tasks]

(* mutant: any instead of all *)
AnyDone(st) == With(st, "DONE") # {}

EveryDone(st) == With(st, "DONE") = DOMAIN st

Decide(st, confirm) ==
  IF DOMAIN st = {} THEN Action("error_no_tasks", {})
  ELSE IF With(st, "BLOCKED") # {}
         THEN Action("escalate_blocked", With(st, "BLOCKED"))
  ELSE IF GateReached(st) THEN Action("dispatch_advisor", EarliestReview(st))
  ELSE IF Checkpoint(st, confirm) # {}
         THEN Action("wave_checkpoint_pending", Checkpoint(st, confirm))
  ELSE IF Ready(st) # {} THEN Action("dispatch_wave", Ready(st))
  ELSE IF EveryDone(st) THEN Action("all_done", {})
  ELSE Action("waiting", {})
=============================================================================
