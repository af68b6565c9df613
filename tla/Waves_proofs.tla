---------------------------- MODULE Waves_proofs ----------------------------
(***************************************************************************)
(* For every list of tasks: the waves layer its dependencies, a list gets  *)
(* waves if and only if it has no cycle, and the error names the tasks on  *)
(* cycles and no others.  WInv is the inductive invariant.                 *)
(***************************************************************************)
EXTENDS Waves, FiniteSetTheorems, WellFoundedInduction, TLAPS

-----------------------------------------------------------------------------
(* Kahn's algorithm: a task that is left waits for exactly those of its    *)
(* dependencies that are left, and for one of the last wave or later.      *)
Peeled ==
  LET n == Len(waves) IN
  /\ Earlier(n + 1) \subseteq DOMAIN graph
  /\ \A t \in DOMAIN remaining : remaining[t] = graph[t] \ Earlier(n + 1)
  /\ n > 0 => \A t \in DOMAIN remaining : ~ graph[t] \subseteq Earlier(n)

(* How the peeling ends.                                                   *)
Ended ==
  /\ result \notin {"running", "unknown"} => ~ Unknown /\ ZeroIn = {}
  /\ result = "waves" => DOMAIN remaining = {}
  /\ result \in {"searching", "cycle"} => DOMAIN remaining # {}

(* A search from t has found only what t leads to, and of that every       *)
(* successor of what it is done with.                                      *)
Reached(t) == probe.stack \cup probe.visited

Searches(t) ==
  /\ probe.start = {t}
  /\ Reached(t) \subseteq Below(t) \cap DOMAIN remaining
  /\ t \notin probe.visited
  /\ \A u \in {t} \cup probe.visited : Edges(u) \subseteq Reached(t)

Probing ==
  /\ result = "running" => members = {} /\ probe = NoProbe
  /\ result = "searching" =>
       /\ todo \subseteq DOMAIN remaining
       /\ members \subseteq OnCycle
       /\ OnCycle \subseteq members \cup todo \cup probe.start
       /\ probe # NoProbe => \E t \in DOMAIN remaining : Searches(t)
  /\ result = "cycle" => members = OnCycle

WInv == TypeOK /\ WavesLayered /\ Peeled /\ Ended /\ Probing

-----------------------------------------------------------------------------
(* Below(t) is the least closed set that holds what t depends on.          *)
LEMMA BelowLeast ==
  ASSUME NEW t \in DOMAIN graph, NEW S \in SUBSET DOMAIN graph, graph[t] \subseteq S, Closed(S)
  PROVE  Below(t) \subseteq S
BY DEF Below

LEMMA BelowClosed ==
  ASSUME ~ Unknown, NEW t \in DOMAIN graph
  PROVE  /\ Below(t) \in SUBSET DOMAIN graph
         /\ graph[t] \subseteq Below(t)
         /\ Closed(Below(t))
<1>1. Below(t) \in SUBSET DOMAIN graph
  BY DEF Below
<1>2. graph[t] \subseteq Below(t)
  BY DEF Below, Unknown
<1>3. ASSUME NEW u \in Below(t), NEW w \in graph[u] PROVE w \in Below(t)
  <2>1. w \in DOMAIN graph
    BY <1>1, <1>3 DEF Unknown
  <2>2. ASSUME NEW S \in SUBSET DOMAIN graph, graph[t] \subseteq S, Closed(S) PROVE w \in S
    <3>1. u \in S
      BY <2>2, BelowLeast
    <3>2. QED
      BY <1>3, <2>2, <3>1 DEF Closed
  <2>3. QED
    BY <2>1, <2>2 DEF Below
<1>4. QED
  BY <1>1, <1>2, <1>3 DEF Closed

LEMMA EarlierGrows ==
  ASSUME NEW i \in Nat, NEW j \in Nat, i <= j
  PROVE  Earlier(i) \subseteq Earlier(j)
<1>1. 1 .. i - 1 \subseteq 1 .. j - 1
  OBVIOUS
<1>2. QED
  BY <1>1 DEF Earlier

LEMMA EarlierIn ==
  ASSUME NEW i \in Nat, NEW t
  PROVE  t \in Earlier(i) <=> \E j \in 1 .. i - 1 : t \in waves[j]
BY DEF Earlier

(* The waves before a wave are closed, so no task of a wave is on a cycle. *)
LEMMA LayersClosed ==
  ASSUME WavesLayered, NEW i \in 1 .. Len(waves) + 1, Len(waves) \in Nat
  PROVE  Closed(Earlier(i))
<1> SUFFICES ASSUME NEW t \in Earlier(i) PROVE graph[t] \subseteq Earlier(i)
  BY DEF Closed
<1>1. PICK j \in 1 .. i - 1 : t \in waves[j]
  BY EarlierIn
<1>2. graph[t] \subseteq Earlier(j)
  BY <1>1 DEF WavesLayered
<1>3. Earlier(j) \subseteq Earlier(i)
  BY EarlierGrows
<1>4. QED
  BY <1>2, <1>3

LEMMA LayersAcyclic ==
  ASSUME WavesLayered, Peeled, Len(waves) \in Nat
  PROVE  OnCycle \cap Earlier(Len(waves) + 1) = {}
<1> SUFFICES ASSUME NEW t \in OnCycle, t \in Earlier(Len(waves) + 1) PROVE FALSE
  OBVIOUS
<1>1. PICK j \in 1 .. Len(waves) : t \in waves[j]
  BY EarlierIn
<1>2. t \notin Earlier(j) /\ graph[t] \subseteq Earlier(j)
  BY <1>1 DEF WavesLayered
<1>3. Closed(Earlier(j))
  BY LayersClosed
<1>4. Earlier(j) \in SUBSET DOMAIN graph
  BY EarlierGrows DEF Peeled
<1>5. t \in DOMAIN graph /\ t \in Below(t)
  BY DEF OnCycle
<1>6. QED
  BY <1>2, <1>3, <1>4, <1>5, BelowLeast

(* If every task that is left waits for one that is left, one is on a      *)
(* cycle: take a task with the fewest below it.                            *)
LEMMA CycleLeft ==
  ASSUME TypeOK, Peeled, WavesLayered, ~ Unknown, ZeroIn = {}, DOMAIN remaining # {}
  PROVE  OnCycle # {}
<1> DEFINE family == {Below(t) : t \in DOMAIN remaining}
<1>0. DOMAIN remaining \subseteq DOMAIN graph /\ DOMAIN graph \subseteq Tasks
  BY DEF TypeOK
<1>1. family \subseteq FiniteSubsetsOf(Tasks) /\ family # {}
  <2>1. ASSUME NEW t \in DOMAIN remaining PROVE Below(t) \in FiniteSubsetsOf(Tasks)
    <3>1. Below(t) \subseteq Tasks
      BY <1>0, BelowClosed
    <3>2. QED
      BY <3>1, TasksAssumption, FS_FiniteSubsetsOfFinite
  <2>2. QED
    BY <2>1
<1>2. PICK B \in family : \A C \in family : ~ (<<C, B>> \in StrictSubsetOrdering(Tasks))
  <2> HIDE DEF family
  <2>1. QED
    BY <1>1, FS_StrictSubsetOrderingWellFounded, WFMin
<1>3. PICK t \in DOMAIN remaining : B = Below(t)
  OBVIOUS
<1>4. PICK u \in remaining[t] : TRUE
  BY DEF ZeroIn
<1>5. u \in graph[t] /\ u \in DOMAIN remaining
  BY <1>0, <1>4 DEF Peeled, WavesLayered, Unknown
<1>6. u \in Below(t) /\ Below(u) \subseteq Below(t)
  <2>1. Closed(Below(t)) /\ graph[t] \subseteq Below(t) /\ Below(t) \in SUBSET DOMAIN graph
    BY <1>0, BelowClosed
  <2>2. u \in Below(t) /\ graph[u] \subseteq Below(t)
    BY <1>5, <2>1 DEF Closed
  <2>3. QED
    BY <1>0, <1>5, <2>1, <2>2, BelowLeast
<1>7. u \in Below(u)
  <2> SUFFICES ASSUME u \notin Below(u) PROVE FALSE
    OBVIOUS
  <2>1. Below(u) \in SUBSET Tasks /\ Below(t) \in SUBSET Tasks
    BY <1>0, <1>5, BelowClosed
  <2>2. <<Below(u), Below(t)>> \in StrictSubsetOrdering(Tasks)
    BY <1>6, <2>1 DEF StrictSubsetOrdering
  <2>3. QED
    BY <1>2, <1>3, <1>5, <2>2
<1>8. QED
  BY <1>0, <1>5, <1>7 DEF OnCycle

(* Nothing below a task is forgotten: a search that has come to its end    *)
(* without its task has shown that it is on no cycle.                      *)
LEMMA SearchedThrough ==
  ASSUME WInv, result = "searching", NEW t \in DOMAIN remaining, Searches(t), probe.stack = {}
  PROVE  t \notin OnCycle
<1> DEFINE S == probe.visited \cup Earlier(Len(waves) + 1)
<1>0. /\ DOMAIN remaining = DOMAIN graph \ Earlier(Len(waves) + 1)
      /\ Earlier(Len(waves) + 1) \subseteq DOMAIN graph
      /\ Len(waves) \in Nat /\ ~ Unknown
  BY DEF WInv, TypeOK, WavesLayered, Peeled, Ended
<1>1. S \in SUBSET DOMAIN graph
  BY <1>0 DEF Searches, Reached
<1>2. \A u \in {t} \cup probe.visited : graph[u] \subseteq S
  <2> SUFFICES ASSUME NEW u \in {t} \cup probe.visited PROVE graph[u] \subseteq S
    OBVIOUS
  <2>1. u \in DOMAIN graph /\ graph[u] \subseteq DOMAIN graph
    BY <1>0 DEF Unknown, Searches, Reached
  <2>2. graph[u] \cap DOMAIN remaining \subseteq probe.visited
    BY DEF Searches, Reached, Edges
  <2>3. QED
    BY <1>0, <2>1, <2>2
<1>3. Closed(Earlier(Len(waves) + 1))
  BY <1>0, LayersClosed DEF WInv
<1>4. Closed(S)
  BY <1>2, <1>3 DEF Closed
<1>5. Below(t) \subseteq S
  BY <1>0, <1>1, <1>2, <1>4, BelowLeast
<1>6. t \notin S
  BY <1>0 DEF Searches
<1>7. QED
  BY <1>5, <1>6 DEF OnCycle

-----------------------------------------------------------------------------
LEMMA InitWInv ==
  ASSUME Init PROVE WInv
<1> USE DEF Init, NoProbe
<1>1. Len(waves) = 0
  OBVIOUS
<1>2. PICK L \in SUBSET Tasks : graph \in [L -> SUBSET Tasks]
  OBVIOUS
<1>3. TypeOK
  BY <1>2 DEF TypeOK
<1>4. Earlier(1) = {}
  BY DEF Earlier
<1>5. WavesLayered /\ Peeled
  BY <1>1, <1>2, <1>4 DEF WavesLayered, Peeled
<1>6. Ended /\ Probing
  BY DEF Ended, Probing
<1>7. QED
  BY <1>3, <1>5, <1>6 DEF WInv

(* The graph does not change, and with it what is below what.              *)
LEMMA SameGraph ==
  ASSUME UNCHANGED graph
  PROVE  OnCycle' = OnCycle /\ (Unknown' <=> Unknown) /\ \A t : Below(t)' = Below(t)
BY DEF OnCycle, Below, Closed, Unknown

LEMMA SameWaves ==
  ASSUME WInv, UNCHANGED <<graph, remaining, waves>>
  PROVE  WavesLayered' /\ Peeled' /\ ZeroIn' = ZeroIn /\ \A t : Edges(t)' = Edges(t)
<1>1. \A i : Earlier(i)' = Earlier(i)
  BY DEF Earlier
<1>2. QED
  BY <1>1 DEF WInv, WavesLayered, Peeled, ZeroIn, Edges

LEMMA PeelKeeps ==
  ASSUME WInv, PeelWave PROVE WInv'
<1>a. PICK n \in Nat : n = Len(waves)
  BY DEF WInv, TypeOK
<1>0. /\ TypeOK /\ n \in Nat /\ Len(waves) = n /\ waves \in Seq((SUBSET Tasks) \ {{}})
      /\ ZeroIn \in (SUBSET Tasks) \ {{}} /\ ZeroIn \subseteq DOMAIN remaining
      /\ DOMAIN remaining \subseteq DOMAIN graph
  BY <1>a DEF WInv, TypeOK, PeelWave, ZeroIn
<1>1. /\ waves' \in Seq((SUBSET Tasks) \ {{}}) /\ Len(waves') = n + 1
      /\ \A i \in 1 .. n : waves'[i] = waves[i]
      /\ waves'[n + 1] = ZeroIn
  BY <1>0 DEF PeelWave
<1>2. \A i \in 1 .. n + 1 : Earlier(i)' = Earlier(i)
  BY <1>0, <1>1 DEF Earlier
<1>3. Earlier(n + 2)' = Earlier(n + 1) \cup ZeroIn
  <2>1. 1 .. (n + 2) - 1 = (1 .. (n + 1) - 1) \cup {n + 1}
    BY <1>0
  <2>2. \A j \in 1 .. (n + 1) - 1 : waves'[j] = waves[j]
    BY <1>0, <1>1
  <2>3. QED
    BY <1>1, <2>1, <2>2 DEF Earlier
<1>4. /\ DOMAIN remaining' = DOMAIN remaining \ ZeroIn
      /\ \A t \in DOMAIN remaining' : remaining'[t] = remaining[t] \ ZeroIn
      /\ UNCHANGED <<graph, members, probe, todo, result>>
      /\ result = "running" /\ ~ Unknown
  BY DEF PeelWave, WithoutWave
<1>5. TypeOK'
  BY <1>0, <1>1, <1>4 DEF TypeOK
<1>6. WavesLayered'
  <2>1. DOMAIN remaining' = DOMAIN graph' \ Earlier(Len(waves) + 1)'
    BY <1>0, <1>1, <1>3, <1>4 DEF WInv, WavesLayered
  <2>2. ASSUME NEW i \in 1 .. n, NEW t \in waves'[i]
        PROVE  /\ t \notin Earlier(i)' /\ graph'[t] \subseteq Earlier(i)'
               /\ i > 1 => ~ graph'[t] \subseteq Earlier(i - 1)'
    BY <1>0, <1>1, <1>2, <1>4, <2>2 DEF WInv, WavesLayered
  <2>3. ASSUME NEW t \in ZeroIn
        PROVE  /\ t \notin Earlier(n + 1)' /\ graph'[t] \subseteq Earlier(n + 1)'
               /\ n + 1 > 1 => ~ graph'[t] \subseteq Earlier(n)'
    BY <1>0, <1>1, <1>2, <1>4 DEF WInv, WavesLayered, Peeled, ZeroIn
  <2>4. \A i \in 1 .. n + 1 : i = n + 1 \/ i \in 1 .. n
    BY <1>0
  <2>5. (n + 1) - 1 = n
    BY <1>0
  <2>6. ASSUME NEW i \in 1 .. n + 1, NEW t \in waves'[i]
        PROVE  /\ t \notin Earlier(i)' /\ graph'[t] \subseteq Earlier(i)'
               /\ i > 1 => ~ graph'[t] \subseteq Earlier(i - 1)'
    BY <1>1, <2>2, <2>3, <2>4, <2>5, <2>6
  <2>7. QED
    BY <1>0, <1>1, <2>1, <2>6 DEF WavesLayered
<1>7. Peeled'
  <2>0. (n + 1) + 1 = n + 2 /\ n + 1 > 0 /\ n + 1 \in 1 .. n + 1
    BY <1>0
  <2>1. Earlier(n + 2)' \subseteq DOMAIN graph'
    BY <1>0, <1>3, <1>4 DEF WInv, Peeled
  <2>2. \A t \in DOMAIN remaining' : remaining'[t] = graph'[t] \ Earlier(n + 2)'
    BY <1>0, <1>3, <1>4 DEF WInv, Peeled
  <2>3. \A t \in DOMAIN remaining' : ~ graph'[t] \subseteq Earlier(n + 1)'
    BY <1>0, <1>2, <1>4, <2>0 DEF WInv, Peeled, ZeroIn
  <2>4. QED
    BY <1>0, <1>1, <2>0, <2>1, <2>2, <2>3 DEF Peeled
<1>8. Ended' /\ Probing'
  BY <1>4 DEF WInv, Ended, Probing, NoProbe
<1>9. QED
  BY <1>5, <1>6, <1>7, <1>8 DEF WInv

LEMMA StuckKeeps ==
  ASSUME WInv, Stuck PROVE WInv'
<1>1. UNCHANGED <<graph, remaining, waves, members, probe>> /\ ~ Unknown /\ ZeroIn = {}
  BY DEF Stuck
<1>2. WavesLayered' /\ Peeled' /\ ZeroIn' = ZeroIn /\ OnCycle' = OnCycle /\ ~ Unknown'
  BY <1>1, SameWaves, SameGraph
<1>3. TypeOK'
  BY <1>1 DEF WInv, TypeOK, Stuck
<1>4. Ended'
  BY <1>1, <1>2 DEF Ended, Stuck
<1>5. members = {} /\ probe = NoProbe
  BY DEF WInv, Probing, Stuck
<1>6. OnCycle \subseteq DOMAIN remaining
  BY LayersAcyclic DEF WInv, TypeOK, WavesLayered, OnCycle
<1>7. Probing'
  BY <1>1, <1>2, <1>5, <1>6 DEF Probing, Stuck, NoProbe
<1>8. QED
  BY <1>2, <1>3, <1>4, <1>7 DEF WInv

LEMMA RaiseUnknownKeeps ==
  ASSUME WInv, RaiseUnknown PROVE WInv'
<1>1. UNCHANGED <<graph, remaining, waves>>
  BY DEF RaiseUnknown
<1>2. WavesLayered' /\ Peeled'
  BY <1>1, SameWaves
<1>3. QED
  BY <1>2 DEF WInv, TypeOK, Ended, Probing, RaiseUnknown

(* What each step of the search leaves alone.                              *)
Searching == result = "searching" /\ UNCHANGED <<graph, remaining, waves>>

LEMMA SearchKeepsRest ==
  ASSUME WInv, Searching,
         result' = "searching" \/ result' = "cycle"
  PROVE  WavesLayered' /\ Peeled' /\ Ended'
<1>1. WavesLayered' /\ Peeled' /\ ZeroIn' = ZeroIn /\ ~ Unknown'
  BY SameWaves, SameGraph DEF Searching, WInv, Ended
<1>2. QED
  BY <1>1 DEF WInv, Ended, Searching

LEMMA StartProbeKeeps ==
  ASSUME WInv, StartProbe PROVE WInv'
<1>1. PICK t \in todo :
        /\ todo' = todo \ {t}
        /\ probe' = [start |-> {t}, stack |-> Edges(t), visited |-> {}]
  BY DEF StartProbe
<1>2. result = "searching" /\ probe = NoProbe /\ UNCHANGED <<graph, remaining, waves, members, result>>
  BY DEF StartProbe
<1>3. WavesLayered' /\ Peeled' /\ Ended'
  BY <1>2, SearchKeepsRest DEF Searching
<1>4. t \in DOMAIN remaining /\ t \in DOMAIN graph /\ ~ Unknown
  BY <1>2 DEF WInv, TypeOK, Ended, Probing
<1>5. Edges(t) \subseteq Below(t) \cap DOMAIN remaining /\ Edges(t) \subseteq Tasks
  BY <1>4, BelowClosed DEF Edges, WInv, TypeOK
<1>6. TypeOK'
  BY <1>1, <1>2, <1>5 DEF WInv, TypeOK
<1>7. Searches(t)'
  <2>1. \A u : Edges(u)' = Edges(u) /\ Below(u)' = Below(u)
    BY <1>2, SameWaves, SameGraph
  <2>2. QED
    BY <1>1, <1>2, <1>5, <2>1 DEF Searches, Reached
<1>8. Probing'
  <2>1. OnCycle' = OnCycle /\ probe.start = {}
    BY <1>2, SameGraph DEF NoProbe
  <2>2. QED
    BY <1>1, <1>2, <1>4, <1>7, <2>1 DEF WInv, Probing
<1>9. QED
  BY <1>3, <1>6, <1>8 DEF WInv

(* The task itself is on the stack: it is on a cycle.                      *)
LEMMA FoundKeeps ==
  ASSUME WInv, result = "searching", probe # NoProbe,
         NEW t \in probe.stack, t \in probe.start,
         members' = members \cup {t}, probe' = NoProbe,
         UNCHANGED <<graph, remaining, waves, todo, result>>
  PROVE  WInv'
<1>1. WavesLayered' /\ Peeled' /\ Ended'
  BY SearchKeepsRest DEF Searching
<1>2. PICK s \in DOMAIN remaining : Searches(s)
  BY DEF WInv, Probing
<1>3. t = s /\ probe.start = {t} /\ t \in OnCycle /\ t \in Tasks
  BY <1>2 DEF Searches, Reached, OnCycle, WInv, TypeOK
<1>4. TypeOK'
  BY <1>3 DEF WInv, TypeOK, NoProbe
<1>5. OnCycle' = OnCycle
  BY SameGraph
<1>6. Probing'
  BY <1>3, <1>5 DEF WInv, Probing, NoProbe
<1>7. QED
  BY <1>1, <1>4, <1>6 DEF WInv

LEMMA FollowKeeps ==
  ASSUME WInv, result = "searching", probe # NoProbe,
         NEW t \in probe.stack, t \notin probe.start,
         probe' = [probe EXCEPT !.visited = Visited(t),
                                !.stack = (@ \ {t}) \cup IF t \in probe.visited THEN {}
                                                         ELSE Edges(t) \ Visited(t)],
         UNCHANGED <<graph, remaining, waves, todo, members, result>>
  PROVE  WInv'
<1>1. WavesLayered' /\ Peeled' /\ Ended'
  BY SearchKeepsRest DEF Searching
<1>2. PICK s \in DOMAIN remaining : Searches(s)
  BY DEF WInv, Probing
<1>3. \A u : Edges(u)' = Edges(u) /\ Below(u)' = Below(u)
  BY SameWaves, SameGraph
<1>4. probe \in [start : SUBSET Tasks, stack : SUBSET Tasks, visited : SUBSET Tasks]
  BY DEF WInv, TypeOK
<1>5. /\ probe'.start = probe.start
      /\ probe'.visited = probe.visited \cup {t}
      /\ probe'.stack = (probe.stack \ {t}) \cup
                          IF t \in probe.visited THEN {} ELSE Edges(t) \ Visited(t)
  BY <1>4 DEF Visited
<1>6. t \in DOMAIN remaining /\ t \in Below(s) /\ t # s
  BY <1>2 DEF Searches, Reached
<1>7. Edges(t) \subseteq Below(s) \cap DOMAIN remaining /\ Edges(t) \subseteq Tasks
  BY <1>6, BelowClosed DEF Edges, WInv, TypeOK, Ended, Closed
<1>8. TypeOK'
  BY <1>4, <1>7 DEF WInv, TypeOK, Visited
<1>9. Reached(s)' = Reached(s) \cup Edges(t)
  <2>1. t \in probe.visited => Edges(t) \subseteq Reached(s)
    BY <1>2 DEF Searches
  <2>2. QED
    BY <1>5, <2>1 DEF Reached, Visited
<1>10. Searches(s)'
  <2>1. probe'.start = {s} /\ s \notin probe'.visited
    BY <1>2, <1>5, <1>6 DEF Searches
  <2>2. Reached(s)' \subseteq Below(s)' \cap DOMAIN remaining'
    BY <1>2, <1>3, <1>7, <1>9 DEF Searches
  <2>3. \A u \in {s} \cup probe'.visited : Edges(u)' \subseteq Reached(s)'
    BY <1>2, <1>3, <1>5, <1>9 DEF Searches
  <2>4. QED
    BY <2>1, <2>2, <2>3 DEF Searches
<1>11. Probing'
  <2>1. OnCycle' = OnCycle
    BY SameGraph
  <2>2. QED
    BY <1>5, <1>10, <2>1 DEF WInv, Probing
<1>12. QED
  BY <1>1, <1>8, <1>11 DEF WInv

LEMMA NotReachedKeeps ==
  ASSUME WInv, NotReached PROVE WInv'
<1>1. /\ result = "searching" /\ probe # NoProbe /\ probe.stack = {} /\ probe' = NoProbe
      /\ UNCHANGED <<graph, remaining, waves, members, todo, result>>
  BY DEF NotReached
<1>2. WavesLayered' /\ Peeled' /\ Ended'
  BY <1>1, SearchKeepsRest DEF Searching
<1>3. PICK s \in DOMAIN remaining : Searches(s)
  BY <1>1 DEF WInv, Probing
<1>4. s \notin OnCycle /\ probe.start = {s}
  BY <1>1, <1>3, SearchedThrough DEF Searches
<1>5. OnCycle' = OnCycle
  BY <1>1, SameGraph
<1>6. Probing'
  BY <1>1, <1>4, <1>5 DEF WInv, Probing, NoProbe
<1>7. TypeOK'
  BY <1>1 DEF WInv, TypeOK, NoProbe
<1>8. QED
  BY <1>2, <1>6, <1>7 DEF WInv

LEMMA RaiseCycleKeeps ==
  ASSUME WInv, RaiseCycle PROVE WInv'
<1>1. /\ result = "searching" /\ probe = NoProbe /\ todo = {} /\ result' = "cycle"
      /\ members' = IF members # {} THEN members ELSE DOMAIN remaining
      /\ UNCHANGED <<graph, remaining, waves, probe, todo>>
  BY DEF RaiseCycle
<1>2. WavesLayered' /\ Peeled' /\ Ended'
  BY <1>1, SearchKeepsRest DEF Searching
<1>3. OnCycle # {}
  BY <1>1, CycleLeft DEF WInv, Ended
<1>4. members = OnCycle
  BY <1>1 DEF WInv, Probing, NoProbe
<1>5. OnCycle' = OnCycle
  BY <1>1, SameGraph
<1>6. TypeOK' /\ Probing'
  BY <1>1, <1>3, <1>4, <1>5 DEF WInv, TypeOK, Probing
<1>7. QED
  BY <1>2, <1>6 DEF WInv

-----------------------------------------------------------------------------
(* compute_waves keeps all of it, on any list of tasks.                    *)
LEMMA WInvHolds == Spec => []WInv
<1>1. Init => WInv
  BY InitWInv
<1>2. WInv /\ [Next]_vars => WInv'
  <2> SUFFICES ASSUME WInv, [Next]_vars PROVE WInv'
    OBVIOUS
  <2>1. CASE RaiseUnknown
    BY <2>1, RaiseUnknownKeeps
  <2>2. CASE PeelWave
    BY <2>2, PeelKeeps
  <2>3. CASE Stuck
    BY <2>3, StuckKeeps
  <2>4. CASE StartProbe
    BY <2>4, StartProbeKeeps
  <2>5. CASE Pop
    <3>1. /\ result = "searching" /\ probe # NoProbe
          /\ UNCHANGED <<graph, remaining, waves, todo, result>>
      BY <2>5 DEF Pop
    <3>2. PICK t \in probe.stack :
            \/ t \in probe.start /\ members' = members \cup {t} /\ probe' = NoProbe
            \/ /\ t \notin probe.start
               /\ probe' = [probe EXCEPT !.visited = Visited(t),
                                         !.stack = (@ \ {t}) \cup IF t \in probe.visited THEN {}
                                                                  ELSE Edges(t) \ Visited(t)]
               /\ UNCHANGED members
      BY <2>5 DEF Pop
    <3>3. QED
      BY <3>1, <3>2, FoundKeeps, FollowKeeps
  <2>6. CASE NotReached
    BY <2>6, NotReachedKeeps
  <2>7. CASE RaiseCycle
    BY <2>7, RaiseCycleKeeps
  <2>8. CASE UNCHANGED vars
    <3>1. UNCHANGED <<graph, remaining, waves, members, probe, todo, result>>
      BY <2>8 DEF vars
    <3>2. WavesLayered' /\ Peeled' /\ ZeroIn' = ZeroIn /\ \A t : Edges(t)' = Edges(t)
      BY <3>1, SameWaves
    <3>3. OnCycle' = OnCycle /\ (Unknown' <=> Unknown) /\ \A t : Below(t)' = Below(t)
      BY <3>1, SameGraph
    <3>4. \A t : Searches(t) => Searches(t)'
      BY <3>1, <3>2, <3>3 DEF Searches, Reached
    <3>5. TypeOK' /\ Ended' /\ Probing'
      BY <3>1, <3>2, <3>3, <3>4 DEF WInv, TypeOK, Ended, Probing
    <3>6. QED
      BY <3>2, <3>5 DEF WInv
  <2>9. QED
    BY <2>1, <2>2, <2>3, <2>4, <2>5, <2>6, <2>7, <2>8 DEF Next
<1>3. QED
  BY <1>1, <1>2, PTL DEF Spec

(* Types hold in every state.                                              *)
THEOREM WavesTyped == Spec => []TypeOK
<1>1. WInv => TypeOK
  BY DEF WInv
<1>2. QED
  BY <1>1, WInvHolds, PTL

(* The waves layer the dependencies, each task as early as can be, for     *)
(* every list of tasks compute_waves is given.                             *)
THEOREM WavesAreLayers == Spec => []WavesLayered
<1>1. WInv => WavesLayered
  BY DEF WInv
<1>2. QED
  BY <1>1, WInvHolds, PTL

(* compute_waves tells a list with a cycle from one without, and its error *)
(* names exactly the tasks on cycles, for every list.                      *)
THEOREM CyclesAreNamed == Spec => []CyclesNamed
<1>1. ASSUME WInv PROVE CyclesNamed
  <2>1. ASSUME result = "waves"
        PROVE  OnCycle = {} /\ DOMAIN graph = Earlier(Len(waves) + 1)
    <3>1. DOMAIN graph = Earlier(Len(waves) + 1)
      BY <1>1, <2>1 DEF WInv, Ended, WavesLayered, Peeled
    <3>2. QED
      BY <1>1, <3>1, LayersAcyclic DEF WInv, TypeOK, OnCycle
  <2>2. ASSUME result = "cycle" PROVE OnCycle # {} /\ members = OnCycle
    BY <1>1, <2>2, CycleLeft DEF WInv, Ended, Probing
  <2>3. QED
    BY <2>1, <2>2 DEF CyclesNamed
<1>2. QED
  BY <1>1, WInvHolds, PTL
=============================================================================
