------------------------------- MODULE Waves -------------------------------
(***************************************************************************)
(* dag_waves.compute_waves: the waves of a task list by Kahn's algorithm,  *)
(* and, when it gets stuck, the tasks on a cycle, found by a depth-first   *)
(* search from each task that is left.  The list and its depends lines are *)
(* the input.  Sets are visited in an order Python does not fix.           *)
(***************************************************************************)
EXTENDS Naturals, Sequences, FiniteSets

CONSTANTS Tasks  \* the ids that may be listed or depended on

ASSUME TasksAssumption == IsFiniteSet(Tasks)

VARIABLES
  graph,      \* the dependencies of each listed task
  remaining,  \* the same, without the tasks of the waves so far
  waves,
  members,    \* cycle members found
  probe,      \* search from one task: the tasks on the stack and those seen
  todo,       \* tasks still to be searched from
  result      \* "running", or how compute_waves ended

vars == <<graph, remaining, waves, members, probe, todo, result>>

NoProbe == [start |-> {}, stack |-> {}, visited |-> {}]

TypeOK ==
  /\ DOMAIN graph \subseteq Tasks /\ \A t \in DOMAIN graph : graph[t] \subseteq Tasks
  /\ DOMAIN remaining \subseteq DOMAIN graph
  /\ \A t \in DOMAIN remaining : remaining[t] \subseteq graph[t]
  /\ waves \in Seq((SUBSET Tasks) \ {{}})
  /\ members \subseteq Tasks /\ todo \subseteq Tasks
  /\ probe \in [start : SUBSET Tasks, stack : SUBSET Tasks, visited : SUBSET Tasks]
  /\ result \in {"running", "searching", "unknown", "waves", "cycle"}

Init ==
  /\ \E L \in SUBSET Tasks : graph \in [L -> SUBSET Tasks]
  /\ remaining = graph
  /\ waves = <<>>
  /\ members = {} /\ todo = {}
  /\ probe = NoProbe
  /\ result = "running"

(* _build_graph: ValueError on a dependency that is not listed.            *)
Unknown == \E t \in DOMAIN graph : ~ graph[t] \subseteq DOMAIN graph

RaiseUnknown ==
  /\ result = "running" /\ Unknown
  /\ result' = "unknown"
  /\ UNCHANGED <<graph, remaining, waves, members, probe, todo>>

(* mutant: a task is taken with its dependency, one task too early *)
ZeroInAlmost ==
  {t \in DOMAIN remaining : \A d \in remaining[t] : d \in DOMAIN remaining /\ remaining[d] = {}}

ZeroIn == {t \in DOMAIN remaining : remaining[t] = {}}

(* mutant: the dependents keep their edges to the wave *)
WithoutWaveKept(wave) == [t \in DOMAIN remaining \ wave |-> remaining[t]]

WithoutWave(wave) == [t \in DOMAIN remaining \ wave |-> remaining[t] \ wave]

PeelWave ==
  /\ result = "running" /\ ~ Unknown /\ ZeroIn # {}
  /\ waves' = Append(waves, ZeroIn)
  /\ remaining' = WithoutWave(ZeroIn)
  /\ UNCHANGED <<graph, members, probe, todo, result>>

Stuck ==
  /\ result = "running" /\ ~ Unknown /\ ZeroIn = {}
  /\ result' = IF DOMAIN remaining = {} THEN "waves" ELSE "searching"
  /\ todo' = DOMAIN remaining
  /\ UNCHANGED <<graph, remaining, waves, members, probe>>

(* _find_cycle_members: the edges among the tasks that are left.           *)
Edges(t) == graph[t] \cap DOMAIN remaining

StartProbe ==
  /\ result = "searching" /\ probe = NoProbe
  /\ \E t \in todo :
       /\ todo' = todo \ {t}
       /\ probe' = [start |-> {t}, stack |-> Edges(t), visited |-> {}]
  /\ UNCHANGED <<graph, remaining, waves, members, result>>

(* mutant: what was searched is not remembered *)
VisitedNot(t) == probe.visited

Visited(t) == probe.visited \cup {t}

(* _reaches_self.  What the stack holds twice is skipped the second time.  *)
Pop ==
  /\ result = "searching" /\ probe # NoProbe
  /\ \E t \in probe.stack :
       \/ t \in probe.start /\ members' = members \cup {t} /\ probe' = NoProbe
       \/ /\ t \notin probe.start
          /\ probe' = [probe EXCEPT !.visited = Visited(t),
                                    !.stack = (@ \ {t}) \cup IF t \in probe.visited THEN {}
                                                             ELSE Edges(t) \ Visited(t)]
          /\ UNCHANGED members
  /\ UNCHANGED <<graph, remaining, waves, todo, result>>

NotReached ==
  /\ result = "searching" /\ probe # NoProbe /\ probe.stack = {}
  /\ probe' = NoProbe
  /\ UNCHANGED <<graph, remaining, waves, members, todo, result>>

(* DependencyCycleError; if no member is found, all that is left.          *)
RaiseCycle ==
  /\ result = "searching" /\ probe = NoProbe /\ todo = {}
  /\ result' = "cycle"
  /\ members' = IF members # {} THEN members ELSE DOMAIN remaining
  /\ UNCHANGED <<graph, remaining, waves, probe, todo>>

Next == RaiseUnknown \/ PeelWave \/ Stuck \/ StartProbe \/ Pop \/ NotReached \/ RaiseCycle

Spec == Init /\ [][Next]_vars

(* The function runs to its end.                                           *)
FairSpec == Spec /\ WF_vars(Next)

-----------------------------------------------------------------------------
Earlier(i) == UNION {waves[j] : j \in 1 .. i - 1}

(* The waves so far are a layering of the graph: every task is in one of   *)
(* them or left, its dependencies are all in earlier waves, and it is in   *)
(* the first wave of which that is so.                                     *)
WavesLayered ==
  /\ DOMAIN remaining = DOMAIN graph \ Earlier(Len(waves) + 1)
  /\ \A i \in 1 .. Len(waves) : \A t \in waves[i] :
       /\ t \notin Earlier(i) /\ graph[t] \subseteq Earlier(i)
       /\ i > 1 => ~ graph[t] \subseteq Earlier(i - 1)

Closed(S) == \A t \in S : graph[t] \subseteq S

(* The tasks that follow t along dependencies, in one step or more.        *)
Below(t) ==
  {u \in DOMAIN graph : \A S \in SUBSET DOMAIN graph : graph[t] \subseteq S /\ Closed(S) => u \in S}

OnCycle == {t \in DOMAIN graph : t \in Below(t)}

(* A list of known tasks gets its waves if and only if no task is on a     *)
(* cycle; otherwise the error names the tasks that are, and not those that *)
(* only depend on them.                                                    *)
CyclesNamed ==
  /\ result = "waves" => OnCycle = {} /\ DOMAIN graph = Earlier(Len(waves) + 1)
  /\ result = "cycle" => OnCycle # {} /\ members = OnCycle

(* compute_waves returns or raises on every graph: the search from a task  *)
(* that leads into a cycle it is not on ends as well.                      *)
AlwaysReturns == <>(result \in {"unknown", "waves", "cycle"})
=============================================================================
