--------------------------- MODULE ReviewPipeline ---------------------------
(***************************************************************************)
(* What the dispatch loop comes to for its tasks when no cycle is cut off: *)
(* tasks are started together, finish one by one, come under review        *)
(* together, and two votes decide for all of them in one step - although   *)
(* the loop writes one status, entry or envelope at a time, between which  *)
(* workers and scanners go on.                                             *)
(***************************************************************************)
EXTENDS Naturals

CONSTANTS
  Tasks, Wave, Deps,   \* the plan
  MaxReviseRounds,     \* MAX_REVISE_ROUNDS
  MayHeal              \* may workers be given up?

VARIABLES
  stage,   \* where every task is
  rounds,  \* repairs of every task so far
  gates,   \* open reviews, each the set of the tasks it is about
  votes    \* votes of the two scanners of each open review

pvars == <<stage, rounds, gates, votes>>

PInit ==
  /\ stage = [t \in Tasks |-> "PENDING"]
  /\ rounds = [t \in Tasks |-> 0]
  /\ gates = {} /\ votes = {}

(* The tasks of T move to s.                                               *)
Move(T, s) == stage' = [t \in Tasks |-> IF t \in T THEN s ELSE stage[t]]

In(T, s) == T \subseteq Tasks /\ \A t \in T : stage[t] = s

Startable(t) ==
  \A d \in Deps[t] : stage[d] = "DONE" \/ (stage[d] = "REVIEW" /\ Wave[d] = Wave[t])

Start(T) ==
  /\ In(T, "PENDING") /\ \A t \in T : Startable(t)
  /\ Move(T, "IN_PROGRESS")
  /\ UNCHANGED <<rounds, gates, votes>>

Finish(t) ==
  /\ stage[t] = "IN_PROGRESS"
  /\ Move({t}, "REVIEW") \/ Move({t}, "FAILED")
  /\ UNCHANGED <<rounds, gates, votes>>

Heal(T) ==
  /\ MayHeal /\ In(T, "IN_PROGRESS")
  /\ Move(T, "PENDING")
  /\ UNCHANGED <<rounds, gates, votes>>

(* A worker given up, and the one started instead of it, answer in the     *)
(* same cycle: the second answer stands.                                   *)
FinishAgain(t) ==
  /\ MayHeal /\ stage[t] \in {"REVIEW", "FAILED"}
  /\ Move({t}, "REVIEW") \/ Move({t}, "FAILED")
  /\ UNCHANGED <<rounds, gates, votes>>

(* The review of a wave's tasks.                                           *)
Open(T) ==
  /\ T # {} /\ In(T, "REVIEW") /\ \A t, u \in T : Wave[t] = Wave[u]
  /\ Move(T, "EXECUTING")
  /\ gates' = gates \cup {T}
  /\ UNCHANGED <<rounds, votes>>

Vote(T, b) ==
  /\ T \in gates /\ In(T, "EXECUTING")
  /\ \A v \in votes : ~ (v.gate = T /\ v.by = b)
  /\ \E verdict \in {"ok", "error", "revise"}, flagged \in SUBSET T :
       votes' = votes \cup {[gate |-> T, by |-> b, verdict |-> verdict, flagged |-> flagged]}
  /\ UNCHANGED <<stage, rounds, gates>>

(* The tasks that two votes send to a repair: those they flag, or all.     *)
ToRepair(T, v, w) ==
  IF (v.flagged \cup w.flagged) \cap T = {} THEN T ELSE (v.flagged \cup w.flagged) \cap T

(* A task that has had its repairs is given up; the tasks of the review    *)
(* that nobody flagged are reviewed again.                                 *)
SendBack(T, F) ==
  /\ stage' = [t \in Tasks |->
       IF t \in F
         THEN IF rounds[t] + 1 > MaxReviseRounds THEN "BLOCKED" ELSE "PENDING"
       ELSE IF t \in T THEN "REVIEW" ELSE stage[t]]
  /\ rounds' = [t \in Tasks |->
       IF t \in F /\ ~ (rounds[t] + 1 > MaxReviseRounds) THEN rounds[t] + 1 ELSE rounds[t]]

Judge(v, w) ==
  /\ v.gate = w.gate /\ v.by = 0 /\ w.by = 1
  /\ v.gate \in gates /\ In(v.gate, "EXECUTING")
  /\ \/ /\ "error" \in {v.verdict, w.verdict}
        /\ Move(v.gate, "REVIEW") /\ UNCHANGED rounds
     \/ /\ v.verdict = "ok" /\ w.verdict = "ok"
        /\ Move(v.gate, "DONE") /\ UNCHANGED rounds
     \/ /\ "revise" \in {v.verdict, w.verdict} /\ "error" \notin {v.verdict, w.verdict}
        /\ SendBack(v.gate, ToRepair(v.gate, v, w))
  /\ gates' = gates \ {v.gate}
  /\ votes' = {x \in votes : x.gate # v.gate}

PNext ==
  \/ \E T \in SUBSET Tasks : Start(T) \/ Heal(T) \/ Open(T)
  \/ \E t \in Tasks : Finish(t) \/ FinishAgain(t)
  \/ \E T \in gates, b \in {0, 1} : Vote(T, b)
  \/ \E v, w \in votes : Judge(v, w)

PSpec == PInit /\ [][PNext]_pvars
=============================================================================
