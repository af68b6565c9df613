--------------------------- MODULE MCOrchestrator ---------------------------
(* Instances of Orchestrator for TLC: the plans, as functions of the tasks. *)
EXTENDS Orchestrator

(* Two tasks of one wave; the second builds on the first. *)
PairTasks == {1, 2}
PairWave == [t \in PairTasks |-> 1]
PairDeps == [t \in PairTasks |-> IF t = 2 THEN {1} ELSE {}]

(* Two tasks of one wave that run side by side, and a task of the next     *)
(* wave that builds on the first.                                          *)
WavesTasks == {1, 2, 3}
WavesWave == [t \in WavesTasks |-> IF t = 3 THEN 2 ELSE 1]
WavesDeps == [t \in WavesTasks |-> IF t = 3 THEN {1} ELSE {}]
=============================================================================
