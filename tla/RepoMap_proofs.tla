---------------------------- MODULE RepoMap_proofs ----------------------------
(***************************************************************************)
(* For any files, lines, tool calls and number of changes: what the        *)
(* sidecar says of a file that was not changed under a hook is true, of    *)
(* its text and of what the agent has seen, and so is what a hook answers. *)
(***************************************************************************)
EXTENDS RepoMap, FiniteSetTheorems, WellFoundedInduction, TLAPS

-----------------------------------------------------------------------------
(* Versions.                                                               *)

(* The contents have a latest one.                                         *)
LEMMA LatestVersion ==
  ASSUME NEW S \in SUBSET Version, S # {}
  PROVE  \E n \in S : \A m \in S : m <= n
<1> DEFINE Above(n) == {m \in S : m > n}
           family == {Above(n) : n \in S}
<1>1. S \subseteq Nat /\ IsFiniteSet(S)
  <2>1. MaxChanges \in Nat
    BY RepoMapAssumption DEF RepoMapAssumption
  <2>2. Version \subseteq Nat /\ IsFiniteSet(Version)
    BY <2>1, FS_Interval DEF Version
  <2>3. QED
    BY <2>2, FS_Subset
<1>2. family \subseteq FiniteSubsetsOf(Nat) /\ family # {}
  <2>1. \A n \in S : IsFiniteSet(Above(n))
    BY <1>1, FS_Subset
  <2>2. QED
    BY <1>1, <2>1 DEF FiniteSubsetsOf
<1>3. PICK A \in family : \A B \in family : ~ (<<B, A>> \in StrictSubsetOrdering(Nat))
  <2> HIDE DEF family
  <2>1. QED
    BY <1>2, FS_StrictSubsetOrderingWellFounded, WFMin
<1>4. PICK n \in S : A = Above(n)
  OBVIOUS
<1>5. \A m \in S : ~ (m > n)
  <2> SUFFICES ASSUME NEW m \in S, m > n PROVE FALSE
    OBVIOUS
  <2>1. Above(m) \subseteq Above(n)
    <3>1. \A k \in S : k > m => k > n
      BY <1>1
    <3>2. QED
      BY <3>1
  <2>2. m \in Above(n) /\ m \notin Above(m)
    BY <1>1
  <2>3. <<Above(m), A>> \in StrictSubsetOrdering(Nat)
    BY <1>1, <1>4, <2>1, <2>2 DEF StrictSubsetOrdering
  <2>4. QED
    BY <1>3, <2>3
<1>6. QED
  BY <1>1, <1>5

LEMMA NowIsLatest ==
  ASSUME TypeOK, NEW f \in Files
  PROVE  Now \in Version /\ \A g \in Files : content[g] <= Now
<1> DEFINE S == {content[g] : g \in Files}
<1>1. S \subseteq Version /\ S # {}
  BY DEF TypeOK
<1>2. \E n \in S : \A m \in S : m <= n
  <2> HIDE DEF S
  <2>1. QED
    BY <1>1, LatestVersion
<1>3. \E n \in Version : n \in S /\ \A g \in Files : content[g] <= n
  BY <1>1, <1>2
<1>4. QED
  BY <1>3 DEF Now

(* A change gives a file a content it never had.                           *)
LEMMA ChangeIsNew ==
  ASSUME TypeOK, NEW f \in Files, Change(f)
  PROVE  /\ content' \in [Files -> Version] /\ content'[f] > content[f]
         /\ \A g \in Files : g # f => content'[g] = content[g]
         /\ context' = [context EXCEPT ![f] = {}] /\ outlined' = outlined \ {f}
         /\ raced \subseteq raced' /\ raced' \subseteq raced \cup {f}
         /\ HalfDone(f) => f \in raced'
<1>1. Now \in Version /\ content[f] <= Now /\ Now < MaxChanges
  BY NowIsLatest DEF Change
<1>2. Now + 1 \in Version /\ content[f] \in Version
  BY <1>1, RepoMapAssumption DEF RepoMapAssumption, Version, TypeOK
<1>3. content'[f] = Now + 1
  BY DEF Change, TypeOK
<1>4. content'[f] > content[f]
  BY <1>1, <1>2, <1>3, RepoMapAssumption DEF RepoMapAssumption, Version
<1>5. QED
  BY <1>2, <1>4 DEF Change, TypeOK

-----------------------------------------------------------------------------
(* Types, and what a tool call is about.                                   *)

Busy ==
  \A c \in Calls :
    IF pc[c] = "idle" THEN call[c] = NoCall ELSE call[c].tool \in Tool /\ File(c) \in Files

(* The entry just made is one.                                             *)
Indexed == \A c \in Calls : pc[c] = "use" => Entry(c) \in FileIndex

TInv == TypeOK /\ Busy /\ Indexed

Call == [tool : Tool \cup {None}, file : Files \cup {None}, lines : SUBSET Lines,
         bounded : BOOLEAN, since : Version, text : Version, map : Map]

LEMMA NoCallType == NoCall \in Call
BY RepoMapAssumption DEF NoCall, Call, Empty, Map, Version, RepoMapAssumption

LEMMA TypeInit == Init => TInv
BY NoCallType, RepoMapAssumption
   DEF Init, TInv, TypeOK, Busy, Indexed, Call, Empty, Map, Version, RepoMapAssumption, Stage

LEMMA TypeChange ==
  ASSUME TypeOK, NEW f \in Files, Change(f)
  PROVE  /\ content' \in [Files -> Version] /\ context' \in [Files -> SUBSET Lines]
         /\ outlined' \subseteq Files /\ raced' \subseteq Files
BY ChangeIsNew DEF TypeOK

(* The step of a call: what it leaves of the map and of the calls.         *)
LEMMA TypeCall ==
  ASSUME TInv, NEW c \in Calls, NEW s \in Stage, Goto(c, s), s # "idle",
         NEW v \in Call, v.tool \in Tool, v.file \in Files,
         s = "use" => v.map[v.file] \in FileIndex,
         call' = [call EXCEPT ![c] = v],
         sidecar' \in Map, content' \in [Files -> Version],
         context' \in [Files -> SUBSET Lines],
         outlined' \subseteq Files, raced' \subseteq Files, UNCHANGED clearing
  PROVE  TInv'
BY DEF TInv, TypeOK, Busy, Indexed, Entry, Call, Goto, File

LEMMA TypeFinish ==
  ASSUME TInv, NEW c \in Calls, Finish(c),
         sidecar' \in Map, content' \in [Files -> Version],
         context' \in [Files -> SUBSET Lines],
         outlined' \subseteq Files, raced' \subseteq Files, UNCHANGED clearing
  PROVE  TInv'
<1>1. call \in [Calls -> Call] /\ call' = [call EXCEPT ![c] = NoCall] /\ NoCall \in Call
  BY NoCallType DEF Finish, TInv, TypeOK, Call
<1>2. call' \in [Calls -> Call]
  BY <1>1
<1>3. pc' \in [Calls -> Stage] /\ pc' = [pc EXCEPT ![c] = "idle"]
  BY DEF Finish, Goto, TInv, TypeOK, Stage
<1>4. Busy' /\ Indexed'
  BY <1>1, <1>3 DEF TInv, TypeOK, Busy, Indexed, Entry, File
<1>5. QED
  BY <1>2, <1>3, <1>4 DEF TInv, TypeOK, Call

LEMMA CallFacts ==
  ASSUME TInv, NEW c \in Calls
  PROVE  /\ call[c] \in Call /\ call[c].map \in Map
         /\ call[c].lines \subseteq Lines
         /\ pc[c] # "idle" => call[c].tool \in Tool /\ File(c) \in Files
         /\ pc[c] # "idle" => Entry(c) \in FileIndex \cup {None}
         /\ Found(c) => Entry(c) \in FileIndex
BY DEF TInv, TypeOK, Busy, Indexed, Call, Map, File, Entry, Found, IsCacheValid

LEMMA TypeCalls ==
  ASSUME TInv, UNCHANGED clearing,
         (\E f \in Files : OutsideChange(f)) \/ \E c \in Calls : StartCall(c) \/ Step(c)
  PROVE  TInv'
<1>a. /\ sidecar \in Map /\ content \in [Files -> Version]
      /\ context \in [Files -> SUBSET Lines]
      /\ outlined \subseteq Files /\ raced \subseteq Files
      /\ call \in [Calls -> Call] /\ TypeOK
  BY DEF TInv, TypeOK, Call
<1>1. CASE \E f \in Files : OutsideChange(f)
  BY <1>1, TypeChange DEF OutsideChange, TInv, TypeOK, Busy, Indexed, Entry, File
<1>3. ASSUME NEW c \in Calls, StartCall(c) PROVE TInv'
  <2>1. PICK t \in Tool, f \in Files, L \in (SUBSET Lines) \ {{}}, b \in BOOLEAN :
          /\ call' = [call EXCEPT ![c] = [@ EXCEPT !.tool = t, !.file = f, !.lines = L,
                        !.bounded = b, !.since = IF t = "Edit" THEN 0 ELSE content[f]]]
          /\ Goto(c, IF t = "Edit" THEN "tool" ELSE "load")
    BY <1>3 DEF StartCall
  <2> DEFINE v == [call[c] EXCEPT !.tool = t, !.file = f, !.lines = L,
                     !.bounded = b, !.since = IF t = "Edit" THEN 0 ELSE content[f]]
  <2>2. content[f] \in Version /\ 0 \in Version
    BY <1>a, RepoMapAssumption DEF RepoMapAssumption, Version
  <2>3. v \in Call /\ v.tool = t /\ v.file = f
    BY <1>a, <2>2 DEF Call
  <2>4. call' = [call EXCEPT ![c] = v]
    BY <2>1, <1>a
  <2>5. UNCHANGED <<content, sidecar, context, outlined, raced>>
    BY <1>3 DEF StartCall, agent
  <2> HIDE DEF v
  <2>6. QED
    BY <2>1, <2>3, <2>4, <2>5, <1>a, TypeCall DEF Stage
<1>4. ASSUME NEW c \in Calls, LoadMap(c) \/ PostLoad(c) PROVE TInv'
  <2> DEFINE v == [call[c] EXCEPT !.map = sidecar]
  <2>1. v \in Call /\ v.tool = call[c].tool /\ v.file = call[c].file
    BY <1>a DEF Call
  <2>2. call' = [call EXCEPT ![c] = v]
    BY <1>4 DEF LoadMap, PostLoad
  <2>3. Goto(c, "look") \/ Goto(c, "save")
    BY <1>4 DEF LoadMap, PostLoad
  <2>4. call[c].tool \in Tool /\ call[c].file \in Files
    BY <1>4, CallFacts DEF LoadMap, PostLoad, File
  <2>5. UNCHANGED <<content, sidecar, context, outlined, raced>>
    BY <1>4 DEF LoadMap, PostLoad, agent
  <2> HIDE DEF v
  <2>6. QED
    BY <2>1, <2>2, <2>3, <2>4, <2>5, <1>a, TypeCall DEF Stage
<1>5. ASSUME NEW c \in Calls, IndexFile(c) PROVE TInv'
  <2> DEFINE v == [call[c] EXCEPT !.text = content[File(c)]]
  <2>1. call[c].tool \in Tool /\ File(c) \in Files
    BY <1>5, CallFacts DEF IndexFile
  <2>2. v \in Call /\ v.tool = call[c].tool /\ v.file = File(c)
    BY <2>1, <1>a DEF Call, File
  <2>3. call' = [call EXCEPT ![c] = v] /\ Goto(c, "stat")
    BY <1>5 DEF IndexFile
  <2>4. UNCHANGED <<content, sidecar, context, outlined, raced>>
    BY <1>5 DEF IndexFile, agent
  <2> HIDE DEF v
  <2>5. QED
    BY <2>1, <2>2, <2>3, <2>4, <1>a, TypeCall DEF Stage
<1>6. ASSUME NEW c \in Calls, StoreIndex(c) PROVE TInv'
  <2> DEFINE entry == [text |-> call[c].text, mtime |-> content[File(c)],
                       seen |-> FreshSeen(Entry(c)), outline |-> FALSE]
             m == [call[c].map EXCEPT ![File(c)] = entry]
             v == [call[c] EXCEPT !.map = m, !.text = 0]
  <2>1. call[c].tool \in Tool /\ File(c) \in Files /\ call[c].map \in Map
    BY <1>6, CallFacts DEF StoreIndex
  <2>2. entry \in FileIndex
    BY <2>1, <1>a DEF FileIndex, FreshSeen, Call
  <2>3. m \in Map
    BY <2>1, <2>2 DEF Map
  <2>4. 0 \in Version
    BY RepoMapAssumption DEF RepoMapAssumption, Version
  <2>5. call' = [call EXCEPT ![c] = v] /\ sidecar' = m
    BY <1>6, <1>a DEF StoreIndex, Call
  <2>6. UNCHANGED <<content, context, outlined, raced>> /\ Goto(c, "use")
    BY <1>6 DEF StoreIndex, agent
  <2>7. m[File(c)] \in FileIndex
    BY <2>1, <2>2 DEF Map
  <2> HIDE DEF m
  <2>8. v \in Call /\ v.tool = call[c].tool /\ v.file = File(c) /\ v.map = m
    BY <2>3, <2>4, <1>a DEF Call, File
  <2> HIDE DEF v
  <2>9. QED
    BY <2>1, <2>3, <2>5, <2>6, <2>7, <2>8, <1>a, TypeCall DEF Stage
<1>7. ASSUME NEW c \in Calls, PreRead(c) PROVE TInv'
  <2>1. call[c].tool \in Tool /\ File(c) \in Files /\ call[c].map \in Map
        /\ Entry(c) \in FileIndex /\ call[c].lines \subseteq Lines
    BY <1>7, CallFacts DEF PreRead, Found
  <2>2. sidecar' \in Map
    <3>1. CASE sidecar' = [call[c].map EXCEPT ![File(c)].outline = TRUE]
      <4>1. [call[c].map[File(c)] EXCEPT !.outline = TRUE] \in FileIndex \cup {None}
        BY <2>1 DEF Entry, FileIndex
      <4>2. QED
        BY <3>1, <4>1, <2>1 DEF Map
    <3>2. QED
      BY <1>7, <3>1, <1>a DEF PreRead
  <2>3. outlined' \subseteq Files /\ UNCHANGED <<content, context, raced>>
    BY <1>7, <1>a, <2>1 DEF PreRead
  <2>4. CASE HandOver(c) /\ Goto(c, "tool")
    <3> DEFINE v == [NoCall EXCEPT !.tool = call[c].tool, !.file = File(c),
                                   !.lines = call[c].lines]
    <3>1. v \in Call /\ v.tool = call[c].tool /\ v.file = File(c)
      BY <2>1, NoCallType DEF Call, NoCall
    <3>2. call' = [call EXCEPT ![c] = v]
      BY <2>4 DEF HandOver
    <3> HIDE DEF v
    <3>3. QED
      BY <2>1, <2>2, <2>3, <2>4, <3>1, <3>2, <1>a, TypeCall DEF Stage
  <2>5. CASE Finish(c)
    BY <2>2, <2>3, <2>5, <1>a, TypeFinish
  <2>6. QED
    BY <1>7, <2>4, <2>5 DEF PreRead
<1>8. ASSUME NEW c \in Calls, RunRead(c) PROVE TInv'
  <2>1. File(c) \in Files /\ call[c].lines \subseteq Lines /\ call[c].tool \in Tool
    BY <1>8, CallFacts DEF RunRead
  <2>2. context' \in [Files -> SUBSET Lines]
    BY <1>8, <2>1, <1>a DEF RunRead
  <2>3. QED
    BY <1>8, <2>1, <2>2, <1>a DEF RunRead, Goto, TInv, TypeOK, Busy, Indexed, Entry, File, Stage
<1>9. ASSUME NEW c \in Calls, RunEdit(c) PROVE TInv'
  <2>1. CASE Finish(c) /\ UNCHANGED <<content, agent, raced>>
    BY <1>9, <2>1, <1>a, TypeFinish DEF RunEdit, agent
  <2>2. CASE Change(File(c)) /\ Goto(c, "post") /\ UNCHANGED call
    <3>1. File(c) \in Files /\ call[c].tool \in Tool
      BY <1>9, CallFacts DEF RunEdit
    <3>2. /\ content' \in [Files -> Version] /\ context' \in [Files -> SUBSET Lines]
          /\ outlined' \subseteq Files /\ raced' \subseteq Files
      BY <2>2, <3>1, <1>a, TypeChange
    <3>3. QED
      BY <1>9, <2>2, <3>1, <3>2 DEF RunEdit, Goto, TInv, TypeOK, Busy, Indexed, Entry, File, Stage
  <2>3. QED
    BY <1>9, <2>1, <2>2 DEF RunEdit
<1>10. ASSUME NEW c \in Calls, PostSave(c) \/ PostGrep(c) PROVE TInv'
  <2>1. call[c].map \in Map /\ call[c].lines \subseteq Lines
        /\ Entry(c) \in FileIndex \cup {None}
    BY <1>10, CallFacts DEF PostSave, PostGrep, Found
  <2>2. Updated(c) \in FileIndex \cup {None}
    BY <2>1 DEF Updated, FileIndex
  <2>3. sidecar' \in Map
    BY <1>10, <2>1, <2>2 DEF PostSave, PostGrep, Map
  <2>4. Finish(c) /\ UNCHANGED <<content, context, outlined, raced>>
    BY <1>10 DEF PostSave, PostGrep, agent
  <2>5. QED
    BY <2>3, <2>4, <1>a, TypeFinish
<1>11. QED
  BY <1>1, <1>3, <1>4, <1>5, <1>6, <1>7, <1>8, <1>9, <1>10 DEF Step

(* The hook that clears agent_seen: its copy is a map, and it keeps the     *)
(* entries it has.                                                         *)
LEMMA TypeClear ==
  ASSUME TInv, Stop \/ SessionStart \/ SaveCleared PROVE TInv'
<1>1. ASSUME NEW e \in FileIndex \cup {None} PROVE Cleared(e) \in FileIndex \cup {None}
  BY <1>1 DEF Cleared, FileIndex
<1>2. sidecar \in Map /\ [f \in Files |-> Cleared(sidecar[f])] \in Map
  BY <1>1 DEF TInv, TypeOK, Map
<1>3. /\ UNCHANGED <<content, pc, call, raced>>
      /\ context' \in [Files -> SUBSET Lines] /\ outlined' \subseteq Files
  BY DEF Stop, SessionStart, SaveCleared, Forget, agent, TInv, TypeOK
<1>4. sidecar' \in Map
  BY <1>2 DEF Stop, SessionStart, SaveCleared, TInv, TypeOK
<1>5. clearing' \in [map : Map, session : BOOLEAN] \cup {None}
  <2>1. ASSUME NEW m \in Map, NEW b \in BOOLEAN
        PROVE  [map |-> m, session |-> b] \in [map : Map, session : BOOLEAN]
    OBVIOUS
  <2>2. clearing' = clearing \/ clearing' = None \/ Clear(FALSE) \/ Clear(TRUE)
    BY DEF Stop, SessionStart, SaveCleared
  <2>3. clearing' \in {clearing, None} \/ clearing' \in [map : Map, session : BOOLEAN]
    BY <1>2, <2>1, <2>2 DEF Clear
  <2>4. QED
    BY <2>3 DEF TInv, TypeOK
<1>6. QED
  BY <1>3, <1>4, <1>5 DEF TInv, TypeOK, Busy, Indexed, Entry, File

LEMMA TypeStep == TInv /\ [Next]_vars => TInv'
<1>1. ASSUME TInv, UNCHANGED vars PROVE TInv'
  BY <1>1 DEF vars, agent, TInv, TypeOK, Busy, Indexed, Entry, File
<1>2. QED
  BY <1>1, TypeCalls, TypeClear DEF Next

(* Every variable keeps its type: in particular a hook under way is always *)
(* about a file, and its copy is a map of the project.                     *)
THEOREM TypesHold == Spec => []TypeOK
<1>1. TInv => TypeOK
  BY DEF TInv
<1>2. QED
  BY TypeInit, TypeStep, <1>1, PTL DEF Spec

-----------------------------------------------------------------------------
(* What the copies of the map say.                                         *)

(* Of a file not changed under a hook, an entry with its present mtime     *)
(* tells the truth; and no mtime is ahead of the file.                     *)
Honest(e, f) ==
  e # None =>
    /\ e.mtime <= content[f]
    /\ e.mtime = content[f] /\ f \notin raced =>
         /\ e.text = content[f]
         /\ e.seen \subseteq context[f] /\ (e.outline => f \in outlined)

(* The same after the step.                                                *)
StaysHonest(e, f) ==
  e # None =>
    /\ e.mtime <= content'[f]
    /\ e.mtime = content'[f] /\ f \notin raced' =>
         /\ e.text = content'[f]
         /\ e.seen \subseteq context'[f] /\ (e.outline => f \in outlined')

MapsHonest ==
  \A f \in Files :
    /\ Honest(sidecar[f], f)
    /\ \A c \in Calls : Honest(call[c].map[f], f)

(* What a call under way has read is not older than its start, and what it *)
(* is about to record is so.                                               *)
CallHonest(c) ==
  /\ call[c].since <= content[File(c)]
  /\ pc[c] = "stat" =>
       /\ call[c].since <= call[c].text
       /\ File(c) \in raced \/ call[c].text = content[File(c)]
  /\ pc[c] = "use" =>
       /\ call[c].since <= Entry(c).text
       /\ Entry(c).seen = {} /\ Entry(c).outline = FALSE
  /\ pc[c] \in {"post", "save"} /\ call[c].tool = "Read" =>
       File(c) \in raced \/ call[c].lines \subseteq context[File(c)]

CallsHonest == \A c \in Calls : pc[c] # "idle" => CallHonest(c)

HInv == MapsHonest /\ CallsHonest

(* The copy of the hook that clears, and that a session's first hook runs  *)
(* alone.                                                                  *)
Blank(e) == e # None => e.seen = {} /\ e.outline = FALSE

ClearingHonest ==
  clearing # None =>
    /\ \A f \in Files : Honest(clearing.map[f], f) /\ Blank(clearing.map[f])
    /\ clearing.session => Quiet

LEMMA HonestInit == Init => HInv
BY DEF Init, HInv, MapsHonest, CallsHonest, Honest, NoCall, Empty

(* A file changes, or the agent gets to know more.                         *)
WorldMoves ==
  \/ \E g \in Files : Change(g)
  \/ /\ UNCHANGED <<content, raced>> /\ outlined \subseteq outlined'
     /\ \A f \in Files : context[f] \subseteq context'[f]

(* Neither makes an entry untrue.                                          *)
LEMMA HonestStays ==
  ASSUME TypeOK, NEW f \in Files, NEW e \in FileIndex \cup {None}, Honest(e, f), WorldMoves
  PROVE  StaysHonest(e, f)
<1>1. CASE \E g \in Files : Change(g)
  <2>1. PICK g \in Files : Change(g)
    BY <1>1
  <2>2. /\ content'[g] > content[g] /\ content[g] \in Nat /\ content'[g] \in Nat
        /\ content[f] \in Nat
        /\ \A h \in Files : h # g => content'[h] = content[h]
        /\ context' = [context EXCEPT ![g] = {}] /\ outlined' = outlined \ {g}
        /\ raced \subseteq raced'
    BY <2>1, ChangeIsNew DEF TypeOK, Version
  <2>3. e # None => e.mtime \in Nat
    BY DEF FileIndex, Version
  <2>4. CASE f = g
    BY <2>2, <2>3, <2>4 DEF Honest, StaysHonest
  <2>5. CASE f # g
    BY <2>2, <2>5 DEF Honest, StaysHonest, TypeOK
  <2>6. QED
    BY <2>4, <2>5
<1>2. CASE ~ \E g \in Files : Change(g)
  BY <1>2 DEF Honest, StaysHonest, WorldMoves
<1>3. QED
  BY <1>1, <1>2

LEMMA MapsStay ==
  ASSUME TInv, MapsHonest, WorldMoves, NEW f \in Files
  PROVE  /\ StaysHonest(sidecar[f], f)
         /\ \A c \in Calls : StaysHonest(call[c].map[f], f)
<1>1. sidecar[f] \in FileIndex \cup {None}
  BY DEF TInv, TypeOK, Map
<1>2. \A c \in Calls : call[c].map[f] \in FileIndex \cup {None}
  BY CallFacts DEF Map
<1>3. QED
  BY <1>1, <1>2, HonestStays DEF MapsHonest, TInv

(* A call that stands still stays right: what changes under it is raced.   *)
LEMMA CallStays ==
  ASSUME TInv, WorldMoves, NEW c \in Calls, pc[c] # "idle", CallHonest(c),
         pc'[c] = pc[c], call'[c] = call[c]
  PROVE  CallHonest(c)'
<1>1. File(c) \in Files /\ File(c)' = File(c) /\ Entry(c)' = Entry(c)
  BY CallFacts DEF File, Entry
<1>2. content[File(c)] \in Nat /\ call[c].since \in Nat
  BY <1>1, CallFacts DEF TInv, TypeOK, Version, Call
<1>3. CASE \E g \in Files : Change(g)
  <2>1. PICK g \in Files : Change(g)
    BY <1>3
  <2>2. /\ content'[g] > content[g] /\ content'[g] \in Nat
        /\ \A h \in Files : h # g => content'[h] = content[h]
        /\ context' = [context EXCEPT ![g] = {}]
        /\ raced \subseteq raced'
        /\ HalfDone(g) => g \in raced'
    BY <2>1, ChangeIsNew DEF TInv, TypeOK, Version
  <2>3. CASE File(c) = g
    <3>1. \/ g \in raced'
          \/ pc[c] # "stat" /\ ~ (call[c].tool = "Read" /\ pc[c] \in {"post", "save"})
      BY <2>2, <2>3 DEF HalfDone
    <3>2. call[c].since <= content'[File(c)]
      BY <1>2, <2>2, <2>3 DEF CallHonest
    <3>3. QED
      BY <1>1, <2>3, <3>1, <3>2 DEF CallHonest
  <2>4. CASE File(c) # g
    BY <1>1, <2>2, <2>4 DEF CallHonest, TInv, TypeOK
  <2>5. QED
    BY <2>3, <2>4
<1>4. CASE ~ \E g \in Files : Change(g)
  <2>1. /\ content' = content /\ raced' = raced
        /\ context[File(c)] \subseteq context'[File(c)]
    BY <1>1, <1>4 DEF WorldMoves
  <2>2. QED
    BY <1>1, <2>1 DEF CallHonest
<1>5. QED
  BY <1>3, <1>4

(* A step of one call leaves the others to the world.                      *)
LEMMA OthersStay ==
  ASSUME TInv, HInv, WorldMoves, NEW c \in Calls, NEW s, Goto(c, s),
         NEW v, call' = [call EXCEPT ![c] = v], s # "idle" => CallHonest(c)'
  PROVE  CallsHonest'
<1>1. \A d \in Calls : d # c => pc'[d] = pc[d] /\ call'[d] = call[d]
  BY DEF Goto, TInv, TypeOK
<1>2. pc'[c] = s
  BY DEF Goto, TInv, TypeOK
<1>3. QED
  BY <1>1, <1>2, CallStays DEF HInv, CallsHonest

(* The maps after a step: copies made before it, and one entry that is     *)
(* shown to be honest on its own.                                          *)
LEMMA MapsFollow ==
  ASSUME TInv, HInv, WorldMoves,
         \A f \in Files :
           /\ \/ StaysHonest(sidecar'[f], f)
              \/ sidecar'[f] = sidecar[f] \/ \E d \in Calls : sidecar'[f] = call[d].map[f]
           /\ \A c \in Calls :
                \/ StaysHonest(call'[c].map[f], f)
                \/ call'[c].map[f] = sidecar[f] \/ call'[c].map[f] = call[c].map[f]
                \/ call'[c].map[f] = None
  PROVE  MapsHonest'
<1>1. \A f \in Files : StaysHonest(None, f)
  BY DEF StaysHonest
<1>2. \A f \in Files :
        /\ StaysHonest(sidecar'[f], f)
        /\ \A c \in Calls : StaysHonest(call'[c].map[f], f)
  BY <1>1, MapsStay DEF HInv
<1>3. QED
  BY <1>2 DEF MapsHonest, Honest, StaysHonest

-----------------------------------------------------------------------------
(* The steps of a call.                                                    *)

LEMMA HonestStart ==
  ASSUME TInv, HInv, NEW c \in Calls, StartCall(c) PROVE HInv'
<1>1. PICK t \in Tool, f \in Files, L \in (SUBSET Lines) \ {{}}, b \in BOOLEAN :
        /\ call' = [call EXCEPT ![c] = [@ EXCEPT !.tool = t, !.file = f, !.lines = L,
                      !.bounded = b, !.since = IF t = "Edit" THEN 0 ELSE content[f]]]
        /\ Goto(c, IF t = "Edit" THEN "tool" ELSE "load")
  BY DEF StartCall
<1> DEFINE v == [call[c] EXCEPT !.tool = t, !.file = f, !.lines = L,
                   !.bounded = b, !.since = IF t = "Edit" THEN 0 ELSE content[f]]
<1>2. UNCHANGED <<content, sidecar, context, outlined, raced>> /\ WorldMoves
  BY DEF StartCall, agent, WorldMoves
<1>3. /\ v.file = f /\ v.map = call[c].map /\ v.since \in {0, content[f]}
      /\ call' = [call EXCEPT ![c] = v] /\ call \in [Calls -> Call]
  BY <1>1 DEF TInv, TypeOK, Call
<1> HIDE DEF v
<1>4. call'[c] = v /\ \A d \in Calls : d # c => call'[d] = call[d]
  BY <1>3
<1>5. pc'[c] \in {"tool", "load"}
  BY <1>1 DEF Goto, TInv, TypeOK
<1>6. CallHonest(c)'
  BY <1>2, <1>3, <1>4, <1>5 DEF CallHonest, File, TInv, TypeOK, Version
<1>7. CallsHonest'
  BY <1>1, <1>2, <1>3, <1>6, OthersStay
<1>8. MapsHonest'
  BY <1>2, <1>3, <1>4, MapsFollow
<1>9. QED
  BY <1>7, <1>8 DEF HInv

LEMMA HonestLoad ==
  ASSUME TInv, HInv, NEW c \in Calls, LoadMap(c) \/ PostLoad(c) PROVE HInv'
<1> DEFINE v == [call[c] EXCEPT !.map = sidecar]
<1>1. UNCHANGED <<content, sidecar, context, outlined, raced>> /\ WorldMoves
  BY DEF LoadMap, PostLoad, agent, WorldMoves
<1>2. /\ v.file = call[c].file /\ v.tool = call[c].tool /\ v.lines = call[c].lines
      /\ v.since = call[c].since /\ v.map = sidecar
      /\ call' = [call EXCEPT ![c] = v] /\ call \in [Calls -> Call]
  BY DEF LoadMap, PostLoad, TInv, TypeOK, Call
<1> HIDE DEF v
<1>3. call'[c] = v /\ \A d \in Calls : d # c => call'[d] = call[d]
  BY <1>2
<1>4. PICK s \in {"look", "save"} :
        /\ Goto(c, s) /\ pc'[c] = s
        /\ pc[c] = IF s = "look" THEN "load" ELSE "post"
  <2>1. CASE LoadMap(c)
    BY <2>1 DEF LoadMap, Goto, TInv, TypeOK
  <2>2. CASE PostLoad(c)
    BY <2>2 DEF PostLoad, Goto, TInv, TypeOK
  <2>3. QED
    BY <2>1, <2>2
<1>5. CallHonest(c)
  BY <1>4 DEF HInv, CallsHonest
<1>6. CallHonest(c)'
  BY <1>1, <1>2, <1>3, <1>4, <1>5 DEF CallHonest, File
<1>7. CallsHonest'
  BY <1>1, <1>2, <1>4, <1>6, OthersStay
<1>8. MapsHonest'
  BY <1>1, <1>2, <1>3, MapsFollow
<1>9. QED
  BY <1>7, <1>8 DEF HInv

LEMMA HonestIndex ==
  ASSUME TInv, HInv, NEW c \in Calls, IndexFile(c) PROVE HInv'
<1> DEFINE v == [call[c] EXCEPT !.text = content[File(c)]]
<1>1. UNCHANGED <<content, sidecar, context, outlined, raced>> /\ WorldMoves
  BY DEF IndexFile, agent, WorldMoves
<1>2. /\ v.file = call[c].file /\ v.text = content[File(c)]
      /\ v.since = call[c].since /\ v.map = call[c].map
      /\ call' = [call EXCEPT ![c] = v] /\ call \in [Calls -> Call]
  BY DEF IndexFile, TInv, TypeOK, Call
<1> HIDE DEF v
<1>3. call'[c] = v /\ \A d \in Calls : d # c => call'[d] = call[d]
  BY <1>2
<1>4. pc[c] = "look" /\ Goto(c, "stat") /\ pc'[c] = "stat"
  BY DEF IndexFile, Goto, TInv, TypeOK
<1>5. CallHonest(c)
  BY <1>4 DEF HInv, CallsHonest
<1>6. CallHonest(c)'
  BY <1>1, <1>2, <1>3, <1>4, <1>5 DEF CallHonest, File
<1>7. CallsHonest'
  BY <1>1, <1>2, <1>4, <1>6, OthersStay
<1>8. MapsHonest'
  BY <1>1, <1>2, <1>3, MapsFollow
<1>9. QED
  BY <1>7, <1>8 DEF HInv

(* The text was read before the mtime is taken; what the agent has seen of *)
(* an older content is dropped.                                            *)
LEMMA HonestStore ==
  ASSUME TInv, HInv, NEW c \in Calls, StoreIndex(c) PROVE HInv'
<1> DEFINE entry == [text |-> call[c].text, mtime |-> content[File(c)],
                     seen |-> FreshSeen(Entry(c)), outline |-> FALSE]
           m == [call[c].map EXCEPT ![File(c)] = entry]
           v == [call[c] EXCEPT !.map = m, !.text = 0]
<1>1. UNCHANGED <<content, context, outlined, raced>> /\ WorldMoves
  BY DEF StoreIndex, agent, WorldMoves
<1>2. File(c) \in Files /\ call[c].map \in Map /\ pc[c] = "stat"
  BY CallFacts DEF StoreIndex
<1>3. /\ call' = [call EXCEPT ![c] = v] /\ call \in [Calls -> Call] /\ sidecar' = m
      /\ v.file = call[c].file /\ v.since = call[c].since /\ v.map = m
  BY DEF StoreIndex, TInv, TypeOK, Call
<1>4. /\ entry.text = call[c].text /\ entry.mtime = content[File(c)]
      /\ entry.seen = {} /\ entry.outline = FALSE
      /\ m[File(c)] = entry
      /\ \A f \in Files : f # File(c) => m[f] = call[c].map[f]
  BY <1>2 DEF Map, FreshSeen
<1> HIDE DEF entry, m, v
<1>5. call'[c] = v /\ \A d \in Calls : d # c => call'[d] = call[d]
  BY <1>3
<1>6. Goto(c, "use") /\ pc'[c] = "use"
  BY DEF StoreIndex, Goto, TInv, TypeOK
<1>7. CallHonest(c)
  BY <1>2 DEF HInv, CallsHonest
<1>8. CallHonest(c)'
  BY <1>1, <1>2, <1>3, <1>4, <1>5, <1>6, <1>7 DEF CallHonest, File, Entry
<1>9. CallsHonest'
  BY <1>1, <1>3, <1>6, <1>8, OthersStay
<1>10. StaysHonest(entry, File(c))
  BY <1>1, <1>2, <1>4, <1>7 DEF StaysHonest, CallHonest, TInv, TypeOK, Version
<1>11. MapsHonest'
  <2>1. \A f \in Files : StaysHonest(m[f], f) \/ m[f] = call[c].map[f]
    BY <1>4, <1>10
  <2>2. QED
    BY <2>1, <1>1, <1>3, <1>5, MapsFollow
<1>12. QED
  BY <1>9, <1>11 DEF HInv

LEMMA HonestPre ==
  ASSUME TInv, HInv, NEW c \in Calls, PreRead(c) PROVE HInv'
<1>1. /\ File(c) \in Files /\ call[c].map \in Map /\ Entry(c) \in FileIndex /\ pc[c] # "idle"
  BY CallFacts DEF PreRead, Found
<1>2. /\ UNCHANGED <<content, context, raced>>
      /\ outlined \subseteq outlined' /\ WorldMoves
  BY DEF PreRead, WorldMoves
<1>3. Honest(Entry(c), File(c)) /\ \A f \in Files : Honest(call[c].map[f], f)
  BY <1>1 DEF HInv, MapsHonest, Entry
<1>4. \A f \in Files :
        \/ StaysHonest(sidecar'[f], f) \/ sidecar'[f] = sidecar[f]
        \/ sidecar'[f] = call[c].map[f]
  <2>1. CASE UNCHANGED sidecar
    BY <2>1
  <2>2. CASE /\ sidecar' = [call[c].map EXCEPT ![File(c)].outline = TRUE]
             /\ outlined' = outlined \cup {f \in {File(c)} : Entry(c).text = content[f]}
    <3> DEFINE e == [Entry(c) EXCEPT !.outline = TRUE]
    <3>1. /\ e.mtime = Entry(c).mtime /\ e.text = Entry(c).text /\ e.seen = Entry(c).seen
      BY <1>1 DEF FileIndex
    <3>2. /\ sidecar'[File(c)] = e
          /\ \A f \in Files : f # File(c) => sidecar'[f] = call[c].map[f]
      BY <1>1, <2>2 DEF Map, Entry
    <3> HIDE DEF e
    <3>3. Entry(c) # None
      BY <1>1, NoneAssumption
    <3>4. StaysHonest(e, File(c))
      BY <3>1, <3>3, <1>1, <1>2, <1>3, <2>2 DEF Honest, StaysHonest
    <3>5. QED
      BY <3>2, <3>4
  <2>3. QED
    BY <2>1, <2>2 DEF PreRead
<1>5. CASE HandOver(c) /\ Goto(c, "tool")
  <2> DEFINE v == [NoCall EXCEPT !.tool = call[c].tool, !.file = File(c),
                                 !.lines = call[c].lines]
  <2>1. v.file = File(c) /\ v.since = 0 /\ v.map = Empty
    BY DEF NoCall
  <2>2. call' = [call EXCEPT ![c] = v] /\ call \in [Calls -> Call]
    BY <1>5 DEF HandOver, TInv, TypeOK, Call
  <2> HIDE DEF v
  <2>3. call'[c] = v /\ \A d \in Calls : d # c => call'[d] = call[d]
    BY <2>2
  <2>4. pc'[c] = "tool"
    BY <1>5 DEF Goto, TInv, TypeOK
  <2>5. CallHonest(c)'
    BY <1>1, <1>2, <2>1, <2>3, <2>4 DEF CallHonest, File, TInv, TypeOK, Version
  <2>6. CallsHonest'
    BY <1>2, <1>5, <2>2, <2>5, OthersStay
  <2>7. MapsHonest'
    BY <1>2, <1>4, <2>1, <2>3, MapsFollow DEF Empty
  <2>8. QED
    BY <2>6, <2>7 DEF HInv
<1>6. CASE Finish(c)
  <2>1. call' = [call EXCEPT ![c] = NoCall] /\ call \in [Calls -> Call] /\ Goto(c, "idle")
    BY <1>6 DEF Finish, TInv, TypeOK, Call
  <2>2. call'[c] = NoCall /\ \A d \in Calls : d # c => call'[d] = call[d]
    BY <2>1
  <2>3. CallsHonest'
    BY <1>2, <2>1, OthersStay
  <2>4. MapsHonest'
    BY <1>2, <1>4, <2>2, MapsFollow DEF NoCall, Empty
  <2>5. QED
    BY <2>3, <2>4 DEF HInv
<1>7. QED
  BY <1>5, <1>6 DEF PreRead

LEMMA HonestTool ==
  ASSUME TInv, HInv, NEW c \in Calls, RunRead(c) \/ RunEdit(c) PROVE HInv'
<1>1. File(c) \in Files /\ UNCHANGED sidecar /\ call \in [Calls -> Call]
      /\ CallHonest(c) /\ pc[c] = "tool"
  BY CallFacts DEF RunRead, RunEdit, HInv, CallsHonest, TInv, TypeOK, Call
<1>2. CASE RunRead(c)
  <2>1. /\ context' = [context EXCEPT ![File(c)] = @ \cup call[c].lines]
        /\ UNCHANGED <<content, call, outlined, raced>>
        /\ Goto(c, "post") /\ pc' = [pc EXCEPT ![c] = "post"]
    BY <1>2 DEF RunRead, Goto
  <2>2. \A f \in Files : context[f] \subseteq context'[f]
    BY <2>1, <1>1 DEF TInv, TypeOK
  <2>3. WorldMoves
    BY <2>1, <2>2 DEF WorldMoves
  <2>4. CallHonest(c)'
    BY <1>1, <2>1 DEF CallHonest, File, TInv, TypeOK
  <2>5. CallsHonest'
    <3>1. call' = [call EXCEPT ![c] = call[c]]
      BY <2>1, <1>1
    <3>2. QED
      BY <2>1, <2>3, <2>4, <3>1, OthersStay
  <2>6. MapsHonest'
    BY <1>1, <2>1, <2>3, MapsFollow
  <2>7. QED
    BY <2>5, <2>6 DEF HInv
<1>3. CASE RunEdit(c) /\ Change(File(c)) /\ Goto(c, "post") /\ UNCHANGED call
  <2>1. WorldMoves
    BY <1>1, <1>3 DEF WorldMoves
  <2>2. call[c].tool = "Edit" /\ pc'[c] = "post"
    BY <1>3 DEF RunEdit, Goto, TInv, TypeOK
  <2>3. CallHonest(c)'
    <3>1. content'[File(c)] > content[File(c)] /\ content'[File(c)] \in Nat
          /\ content[File(c)] \in Nat /\ call[c].since \in Nat
      BY <1>1, <1>3, ChangeIsNew DEF TInv, TypeOK, Version, Call
    <3>2. QED
      BY <1>1, <1>3, <2>2, <3>1 DEF CallHonest, File
  <2>4. CallsHonest'
    <3>1. call' = [call EXCEPT ![c] = call[c]]
      BY <1>1, <1>3
    <3>2. QED
      BY <1>3, <2>1, <2>3, <3>1, OthersStay
  <2>5. MapsHonest'
    BY <1>1, <1>3, <2>1, MapsFollow
  <2>6. QED
    BY <2>4, <2>5 DEF HInv
<1>4. CASE RunEdit(c) /\ Finish(c) /\ UNCHANGED <<content, agent, raced>>
  <2>1. WorldMoves
    BY <1>4 DEF WorldMoves, agent
  <2>2. call' = [call EXCEPT ![c] = NoCall] /\ Goto(c, "idle")
    BY <1>4 DEF Finish
  <2>3. call'[c] = NoCall /\ \A d \in Calls : d # c => call'[d] = call[d]
    BY <1>1, <2>2
  <2>4. CallsHonest'
    BY <2>1, <2>2, OthersStay
  <2>5. MapsHonest'
    BY <1>1, <2>1, <2>3, MapsFollow DEF NoCall, Empty
  <2>6. QED
    BY <2>4, <2>5 DEF HInv
<1>5. QED
  BY <1>2, <1>3, <1>4 DEF RunEdit

(* The hooks after a tool: the lines recorded are in the agent's context,  *)
(* or the file was changed in between.                                     *)
LEMMA HonestSave ==
  ASSUME TInv, HInv, NEW c \in Calls, PostSave(c) \/ PostGrep(c) PROVE HInv'
<1>1. /\ File(c) \in Files /\ call[c].map \in Map /\ CallHonest(c)
      /\ Entry(c) \in FileIndex \cup {None} /\ call \in [Calls -> Call]
  BY CallFacts DEF PostSave, PostGrep, Found, HInv, CallsHonest, TInv, TypeOK, Call
<1>2. /\ UNCHANGED <<content, context, outlined, raced>> /\ WorldMoves
      /\ call' = [call EXCEPT ![c] = NoCall] /\ Goto(c, "idle")
  BY DEF PostSave, PostGrep, agent, WorldMoves, Finish
<1>3. Honest(Entry(c), File(c))
  BY <1>1 DEF HInv, MapsHonest, Entry
<1>4. \A f \in Files : StaysHonest(sidecar'[f], f) \/ sidecar'[f] = call[c].map[f]
  <2>1. CASE PostGrep(c)
    BY <2>1 DEF PostGrep
  <2>2. CASE PostSave(c)
    <3>1. /\ sidecar'[File(c)] = Updated(c)
          /\ \A f \in Files : f # File(c) => sidecar'[f] = call[c].map[f]
      BY <2>2, <1>1 DEF PostSave, Map
    <3>2. CASE Updated(c) = None
      BY <3>1, <3>2 DEF StaysHonest
    <3>3. CASE Updated(c) # None
      <4>1. /\ Entry(c) # None /\ call[c].tool = "Read" /\ pc[c] = "save"
            /\ Updated(c) = [Entry(c) EXCEPT !.seen = @ \cup call[c].lines]
        BY <2>2, <3>3 DEF Updated, PostSave
      <4>2. /\ Updated(c).mtime = Entry(c).mtime /\ Updated(c).text = Entry(c).text
            /\ Updated(c).seen = Entry(c).seen \cup call[c].lines
            /\ Updated(c).outline = Entry(c).outline
        BY <4>1, <1>1 DEF FileIndex
      <4>3. File(c) \in raced \/ call[c].lines \subseteq context[File(c)]
        BY <4>1, <1>1 DEF CallHonest
      <4>4. StaysHonest(Updated(c), File(c))
        BY <4>1, <4>2, <4>3, <1>2, <1>3 DEF Honest, StaysHonest
      <4>5. QED
        BY <3>1, <4>4
    <3>4. QED
      BY <3>2, <3>3
  <2>3. QED
    BY <2>1, <2>2
<1>5. call'[c] = NoCall /\ \A d \in Calls : d # c => call'[d] = call[d]
  BY <1>1, <1>2
<1>6. CallsHonest'
  BY <1>2, OthersStay
<1>7. MapsHonest'
  BY <1>2, <1>4, <1>5, MapsFollow DEF NoCall, Empty
<1>8. QED
  BY <1>6, <1>7 DEF HInv

LEMMA ClearedIs ==
  ASSUME NEW e \in FileIndex \cup {None}
  PROVE  /\ Blank(Cleared(e)) /\ (Cleared(e) = None <=> e = None)
         /\ e # None => Cleared(e).mtime = e.mtime /\ Cleared(e).text = e.text
<1>1. CASE e = None
  BY <1>1 DEF Cleared, Blank
<1>2. CASE e # None
  <2>1. e \in FileIndex /\ Cleared(e) = [e EXCEPT !.seen = {}, !.outline = FALSE]
    BY <1>2 DEF Cleared
  <2>2. Cleared(e) \in FileIndex
    BY <2>1 DEF FileIndex
  <2>3. /\ Cleared(e).mtime = e.mtime /\ Cleared(e).text = e.text
        /\ Cleared(e).seen = {} /\ Cleared(e).outline = FALSE
    BY <2>1 DEF FileIndex
  <2>4. QED
    BY <1>2, <2>2, <2>3, NoneAssumption DEF Blank
<1>3. QED
  BY <1>1, <1>2

(* What is cleared claims nothing, whatever the agent forgets.             *)
LEMMA BlankIsHonest ==
  ASSUME TInv, NEW f \in Files, NEW e, Honest(e, f), Blank(e), UNCHANGED <<content, raced>>
  PROVE  StaysHonest(e, f)
BY DEF Honest, StaysHonest, Blank

(* A session begins when no hook of a call holds a copy of the map.        *)
LEMMA HonestClear ==
  ASSUME TInv, HInv, ClearingHonest, Stop \/ SessionStart \/ SaveCleared PROVE HInv'
<1>1. UNCHANGED <<content, pc, call, raced>>
  BY DEF Stop, SessionStart, SaveCleared
<1>2. CASE UNCHANGED <<sidecar, agent>>
  BY <1>1, <1>2 DEF agent, HInv, MapsHonest, CallsHonest, Honest, CallHonest, File, Entry
<1>3. CASE UNCHANGED agent /\ clearing # None /\ sidecar' = clearing.map
  <2>1. UNCHANGED <<content, context, outlined, raced>>
    BY <1>1, <1>3 DEF agent
  <2>2. \A f \in Files : Honest(sidecar'[f], f)
    BY <1>3 DEF ClearingHonest
  <2>3. MapsHonest'
    BY <1>1, <2>1, <2>2 DEF HInv, MapsHonest, Honest
  <2>4. CallsHonest'
    BY <1>1, <2>1 DEF HInv, CallsHonest, CallHonest, File, Entry
  <2>5. QED
    BY <2>3, <2>4 DEF HInv
<1>4. ASSUME Quiet, \A f \in Files : Honest(sidecar'[f], f) /\ Blank(sidecar'[f])
      PROVE  HInv'
  <2>1. \A c \in Calls : pc'[c] = "idle" /\ call'[c].map = Empty
    BY <1>1, <1>4 DEF Quiet, TInv, Busy, NoCall
  <2>2. \A f \in Files : \A c \in Calls : Honest(call[c].map[f], f)'
    BY <2>1 DEF Honest, Empty
  <2>3. \A f \in Files : Honest(sidecar[f], f)'
    <3>1. \A f \in Files : StaysHonest(sidecar'[f], f)
      BY <1>1, <1>4, BlankIsHonest
    <3>2. QED
      BY <3>1 DEF Honest, StaysHonest
  <2>4. CallsHonest'
    BY <2>1 DEF CallsHonest
  <2>5. QED
    BY <2>2, <2>3, <2>4 DEF HInv, MapsHonest
<1>5. CASE Stop
  BY <1>2, <1>5 DEF Stop
<1>6. CASE SessionStart
  <2>1. CASE UNCHANGED agent
    BY <1>2, <1>6, <2>1 DEF SessionStart
  <2>2. CASE sidecar = Empty
    <3>1. \A f \in Files : sidecar'[f] = None
      BY <1>6, <2>2 DEF SessionStart, Empty
    <3>2. \A f \in Files : Honest(sidecar'[f], f) /\ Blank(sidecar'[f])
      BY <3>1 DEF Honest, Blank
    <3>3. Quiet
      BY <1>6 DEF SessionStart
    <3>4. QED
      BY <1>4, <3>2, <3>3
  <2>3. QED
    BY <1>6, <2>1, <2>2 DEF SessionStart
<1>7. CASE SaveCleared
  <2>1. CASE clearing.session
    <3>1. \A f \in Files : Honest(sidecar'[f], f) /\ Blank(sidecar'[f])
      BY <1>7 DEF SaveCleared, ClearingHonest
    <3>2. Quiet
      BY <1>7, <2>1 DEF SaveCleared, ClearingHonest
    <3>3. QED
      BY <1>4, <3>1, <3>2
  <2>2. CASE ~ clearing.session
    BY <1>3, <1>7, <2>2 DEF SaveCleared
  <2>3. QED
    BY <2>1, <2>2
<1>8. QED
  BY <1>5, <1>6, <1>7

(* A call's step, and a change by others, only move the world.             *)
LEMMA CallsMove ==
  ASSUME TInv, (\E f \in Files : OutsideChange(f)) \/ \E c \in Calls : StartCall(c) \/ Step(c)
  PROVE  WorldMoves
<1>1. CASE \E f \in Files : OutsideChange(f)
  BY <1>1 DEF OutsideChange, WorldMoves
<1>2. ASSUME NEW c \in Calls, RunRead(c) PROVE WorldMoves
  <2>1. /\ context' = [context EXCEPT ![File(c)] = @ \cup call[c].lines]
        /\ UNCHANGED <<content, outlined, raced>>
    BY <1>2 DEF RunRead
  <2>2. \A f \in Files : context[f] \subseteq context'[f]
    BY <2>1 DEF TInv, TypeOK
  <2>3. QED
    BY <2>1, <2>2 DEF WorldMoves
<1>3. ASSUME NEW c \in Calls, RunEdit(c) PROVE WorldMoves
  <2>1. File(c) \in Files
    BY <1>3, CallFacts DEF RunEdit
  <2>2. Change(File(c)) \/ UNCHANGED <<content, agent, raced>>
    BY <1>3 DEF RunEdit
  <2>3. QED
    BY <2>1, <2>2 DEF WorldMoves, agent
<1>4. ASSUME NEW c \in Calls,
             \/ StartCall(c) \/ LoadMap(c) \/ IndexFile(c) \/ StoreIndex(c) \/ PreRead(c)
             \/ PostLoad(c) \/ PostSave(c) \/ PostGrep(c)
      PROVE  WorldMoves
  <2>1. UNCHANGED <<content, context, raced>> /\ outlined \subseteq outlined'
    BY <1>4 DEF StartCall, LoadMap, IndexFile, StoreIndex, PreRead, PostLoad, PostSave,
                PostGrep, agent
  <2>2. QED
    BY <2>1 DEF WorldMoves
<1>5. QED
  BY <1>1, <1>2, <1>3, <1>4 DEF Step

(* While a session's first hook runs no call is under way, and none begins.*)
LEMMA QuietStays ==
  ASSUME TInv, Starting, Quiet, NEW c \in Calls, StartCall(c) \/ Step(c) PROVE FALSE
<1>1. pc[c] = "idle"
  BY DEF Quiet
<1>2. QED
  BY <1>1 DEF StartCall, Step, LoadMap, IndexFile, StoreIndex, PreRead, PostLoad, PostSave,
              PostGrep, RunRead, RunEdit, Found

LEMMA ClearingInit == Init => ClearingHonest
BY DEF Init, ClearingHonest

LEMMA ClearingStep ==
  ASSUME TInv, HInv, ClearingHonest, [Next]_vars PROVE ClearingHonest'
<1>1. ASSUME UNCHANGED clearing,
             (\E f \in Files : OutsideChange(f)) \/ \E c \in Calls : StartCall(c) \/ Step(c),
             clearing # None
      PROVE  ClearingHonest'
  <2>1. WorldMoves
    BY <1>1, CallsMove
  <2>2. clearing.map \in Map
    BY <1>1 DEF TInv, TypeOK
  <2>3. \A f \in Files : StaysHonest(clearing.map[f], f) /\ Blank(clearing.map[f])
    BY <1>1, <2>1, <2>2, HonestStays DEF ClearingHonest, TInv, Map
  <2>4. clearing.session => Quiet'
    <3> SUFFICES ASSUME clearing.session PROVE Quiet'
      OBVIOUS
    <3>1. Starting /\ Quiet
      BY <1>1 DEF Starting, ClearingHonest
    <3>2. \E f \in Files : OutsideChange(f)
      BY <1>1, <3>1, QuietStays
    <3>3. QED
      BY <3>1, <3>2 DEF OutsideChange, Quiet
  <2>5. QED
    BY <1>1, <2>3, <2>4 DEF ClearingHonest, Honest, StaysHonest
<1>2. CASE clearing' = None
  BY <1>2 DEF ClearingHonest
<1>3. CASE Stop \/ SessionStart
  <2>1. CASE UNCHANGED clearing
    BY <1>2, <1>3, <2>1 DEF Stop, SessionStart
  <2>2. CASE (Stop /\ Clear(FALSE)) \/ (SessionStart /\ UNCHANGED agent /\ Clear(TRUE))
    <3>1. /\ UNCHANGED <<content, pc, call, agent, raced>>
          /\ clearing'.map = [f \in Files |-> Cleared(sidecar[f])]
          /\ clearing'.session => Quiet
      <4> DEFINE m == [f \in Files |-> Cleared(sidecar[f])]
      <4>1. CASE Stop /\ Clear(FALSE)
        <5>1. clearing' = [map |-> m, session |-> FALSE]
          BY <4>1 DEF Clear
        <5> HIDE DEF m
        <5>2. clearing'.map = m /\ clearing'.session = FALSE
          BY <5>1
        <5>3. QED
          BY <4>1, <5>2 DEF Stop, m
      <4>2. CASE SessionStart /\ UNCHANGED agent /\ Clear(TRUE)
        <5>1. clearing' = [map |-> m, session |-> TRUE]
          BY <4>2 DEF Clear
        <5> HIDE DEF m
        <5>2. clearing'.map = m
          BY <5>1
        <5>3. QED
          BY <4>2, <5>2 DEF SessionStart, m
      <4>3. QED
        BY <2>2, <4>1, <4>2
    <3>2. \A f \in Files : sidecar[f] \in FileIndex \cup {None}
      BY DEF TInv, TypeOK, Map
    <3>3. \A f \in Files : Honest(clearing'.map[f], f) /\ Blank(clearing'.map[f])
      <4> TAKE f \in Files
      <4>1. Honest(sidecar[f], f) /\ clearing'.map[f] = Cleared(sidecar[f])
        BY <3>1 DEF HInv, MapsHonest
      <4>2. Honest(Cleared(sidecar[f]), f) /\ Blank(Cleared(sidecar[f]))
        BY <3>2, <4>1, ClearedIs DEF Honest, Blank
      <4>3. QED
        BY <4>1, <4>2
    <3>4. QED
      BY <3>1, <3>3 DEF ClearingHonest, Honest, Quiet, agent
  <2>3. Stop => Clear(FALSE)
    BY DEF Stop
  <2>4. SessionStart => UNCHANGED clearing \/ (UNCHANGED agent /\ Clear(TRUE))
    BY Zenon DEF SessionStart
  <2>5. QED
    BY <1>3, <2>1, <2>2, <2>3, <2>4, Zenon
<1>4. CASE UNCHANGED vars
  BY <1>4 DEF vars, agent, ClearingHonest, Honest, Quiet
<1>5. QED
  BY <1>1, <1>2, <1>3, <1>4 DEF Next, SaveCleared

LEMMA HonestStep == TInv /\ HInv /\ ClearingHonest /\ [Next]_vars => HInv'
<1> SUFFICES ASSUME TInv, HInv, ClearingHonest, [Next]_vars PROVE HInv'
  OBVIOUS
<1>1. CASE \E f \in Files : OutsideChange(f)
  <2>1. WorldMoves /\ UNCHANGED <<sidecar, pc, call>>
    BY <1>1 DEF OutsideChange, WorldMoves
  <2>2. MapsHonest'
    BY <2>1, MapsFollow
  <2>3. CallsHonest'
    BY <2>1, CallStays DEF HInv, CallsHonest
  <2>4. QED
    BY <2>2, <2>3 DEF HInv
<1>2. CASE Stop \/ SessionStart \/ SaveCleared
  BY <1>2, HonestClear
<1>3. CASE \E c \in Calls : StartCall(c) \/ Step(c)
  BY <1>3, HonestStart, HonestLoad, HonestIndex, HonestStore, HonestPre, HonestTool,
     HonestSave DEF Step
<1>4. CASE UNCHANGED vars
  BY <1>4 DEF vars, agent, HInv, MapsHonest, CallsHonest, Honest, CallHonest, File, Entry
<1>5. QED
  BY <1>1, <1>2, <1>3, <1>4 DEF Next

(* What a hook answers from is never older than its start, and what it     *)
(* says to be in the agent's context is there.                             *)
LEMMA AnswerAction ==
  ASSUME TInv, HInv, NEW c \in Calls, PreRead(c) \/ PostGrep(c), File(c) \notin raced
  PROVE  /\ Entry(c).text >= call[c].since
         /\ PreRead(c) /\ Decision(c) = "elide" => Overlap(c) \subseteq context[File(c)]
<1>1. /\ Found(c) /\ pc[c] # "idle" /\ File(c) \in Files /\ CallHonest(c)
      /\ Entry(c) \in FileIndex /\ call[c] \in Call
  BY CallFacts DEF PreRead, PostGrep, Found, HInv, CallsHonest
<1>2. /\ Entry(c).text \in Nat /\ call[c].since \in Nat /\ content[File(c)] \in Nat
  BY <1>1 DEF FileIndex, Call, Version, TInv, TypeOK
<1>3. CASE pc[c] = "use"
  BY <1>1, <1>2, <1>3 DEF CallHonest, Decision
<1>4. CASE IsCacheValid(Entry(c), File(c))
  <2>1. Entry(c).text = content[File(c)] /\ Entry(c).seen \subseteq context[File(c)]
    BY <1>1, <1>4 DEF IsCacheValid, HInv, MapsHonest, Honest, Entry
  <2>2. QED
    BY <1>1, <1>2, <2>1 DEF CallHonest, Overlap
<1>5. QED
  BY <1>1, <1>3, <1>4 DEF Found

-----------------------------------------------------------------------------
(* The theorems.                                                           *)

(* An entry of repo-map.json with the file's present mtime is the index of *)
(* its present text, unless the file changed between the two halves of a   *)
(* hook's work (get_or_index, is_cache_valid): however many hooks load,    *)
(* change and save their copies over one another.                          *)
THEOREM StampsVouch == Spec => []StampVouches
<1>1. HInv => StampVouches
  BY DEF HInv, MapsHonest, Honest, StampVouches, Vouched
<1>2. QED
  BY TypeInit, TypeStep, HonestInit, HonestStep, ClearingInit, ClearingStep, <1>1, PTL DEF Spec

(* And agent_seen claims only lines and outlines of the present text that  *)
(* the agent has seen in this session (update_seen, clear_seen).           *)
THEOREM SeenIsTold == Spec => []SeenIsTrue
<1>1. HInv => SeenIsTrue
  BY DEF HInv, MapsHonest, Honest, SeenIsTrue, Vouched
<1>2. QED
  BY TypeInit, TypeStep, HonestInit, HonestStep, ClearingInit, ClearingStep, <1>1, PTL DEF Spec

(* So what the hooks around Read and Grep tell the agent is never of an    *)
(* index older than the call, and what pre_read leaves out it has seen.    *)
THEOREM NothingStaleIsTold == Spec => AnswersAreTrue
<1>1. TInv /\ HInv /\ [Next]_vars =>
        [\A c \in Calls :
           (PreRead(c) \/ PostGrep(c)) /\ File(c) \notin raced =>
             /\ Entry(c).text >= call[c].since
             /\ PreRead(c) /\ Decision(c) = "elide" => Overlap(c) \subseteq context[File(c)]]_vars
  BY AnswerAction
<1>2. QED
  BY TypeInit, TypeStep, HonestInit, HonestStep, ClearingInit, ClearingStep, <1>1, PTL DEF Spec, AnswersAreTrue

==============================================================================
