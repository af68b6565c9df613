----------------------------- MODULE MCBenchRun -----------------------------
(* Instances of BenchRun for TLC: a plan of one wave without dependencies. *)
EXTENDS BenchRun

OneWave == [t \in Tasks |-> 1]
OneToDo == [t \in Tasks |-> IF t = 1 THEN "PENDING" ELSE "DONE"]
NoDeps == [t \in Tasks |-> {}]
=============================================================================
