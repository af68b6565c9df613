------------------------------ MODULE RepoMap -------------------------------
(***************************************************************************)
(* src/repo_map: the index of the project's files that the hooks around    *)
(* the Read, Edit and Grep tools keep in .claude/repo-map.json, with what  *)
(* the agent has seen of each file.                                        *)
(*                                                                         *)
(* One agent may have several tool calls under way; the hooks of each are  *)
(* processes that load the sidecar, change their copy and save it whole,   *)
(* without a lock.  The file itself is changed by the agent's edits and by *)
(* others that run no hooks.  The hooks at the end of a turn and at the    *)
(* start of a session load and save the sidecar the same way.  The content *)
(* of a file is the time of its last change, and so is its mtime: two      *)
(* changes never leave the same one.                                       *)
(***************************************************************************)
EXTENDS Naturals

CONSTANTS
  Files,
  Lines,    \* the line ranges the agent asks for
  Large,    \* the files above large_file_threshold
  Calls,    \* the tool calls that may be under way at a time
  MaxChanges, \* bound on the changes of files
  None

ASSUME RepoMapAssumption == Large \subseteq Files /\ MaxChanges \in Nat

VARIABLES
  content,  \* the present content of each file
  sidecar,  \* repo-map.json: the entry of each file, or None
  pc,       \* next step of each tool call
  call,     \* what it is about, and its hook's copy of the map
  context,  \* lines of the present content that the agent has read
  outlined, \* files of whose present content it has seen the outline
  clearing, \* copy of the hook that clears agent_seen, or None if none runs
  raced     \* history: files changed between the two halves of a hook's work

agent == <<context, outlined>>
vars == <<content, sidecar, pc, call, agent, clearing, raced>>

Version == 0 .. MaxChanges

(* Which content was indexed, the mtime that vouches for it, agent_seen.   *)
FileIndex == [text : Version, mtime : Version, seen : SUBSET Lines, outline : BOOLEAN]
ASSUME NoneAssumption == None \notin FileIndex

Map == [Files -> FileIndex \cup {None}]

Tool == {"Read", "Edit", "Grep"}
Stage == {"idle", "load", "look", "stat", "use", "tool", "post", "save"}

TypeOK ==
  /\ content \in [Files -> Version]
  /\ sidecar \in Map
  /\ pc \in [Calls -> Stage]
  /\ call \in [Calls -> [tool : Tool \cup {None}, file : Files \cup {None}, lines : SUBSET Lines,
                         bounded : BOOLEAN, since : Version, text : Version, map : Map]]
  /\ context \in [Files -> SUBSET Lines]
  /\ outlined \subseteq Files /\ raced \subseteq Files
  /\ clearing \in [map : Map, session : BOOLEAN] \cup {None}

Empty == [f \in Files |-> None]

NoCall == [tool |-> None, file |-> None, lines |-> {}, bounded |-> TRUE, since |-> 0,
           text |-> 0, map |-> Empty]

Init ==
  /\ content = [f \in Files |-> 0]
  /\ sidecar = Empty
  /\ pc = [c \in Calls |-> "idle"]
  /\ call = [c \in Calls |-> NoCall]
  /\ context = [f \in Files |-> {}]
  /\ outlined = {} /\ raced = {} /\ clearing = None

Goto(c, s) == pc' = [pc EXCEPT ![c] = s]
File(c) == call[c].file
Entry(c) == call[c].map[File(c)]

-----------------------------------------------------------------------------
(* Changes of files.                                                       *)

(* Its text is indexed but not its mtime taken, or it was read but that    *)
(* not recorded yet.                                                       *)
HalfDone(f) ==
  \E c \in Calls :
    /\ File(c) = f
    /\ \/ pc[c] = "stat"
       \/ call[c].tool = "Read" /\ pc[c] \in {"post", "save"}

Now == CHOOSE t \in Version : t \in {content[f] : f \in Files} /\ \A f \in Files : content[f] <= t

Change(f) ==
  /\ Now < MaxChanges
  /\ content' = [content EXCEPT ![f] = Now + 1]
  /\ context' = [context EXCEPT ![f] = {}]
  /\ outlined' = outlined \ {f}
  /\ raced' = IF HalfDone(f) THEN raced \cup {f} ELSE raced

(* A formatter, git, or another program, without hooks.                    *)
OutsideChange(f) == Change(f) /\ UNCHANGED <<sidecar, pc, call>>

-----------------------------------------------------------------------------
(* Tool calls.  A Read has a hook before and one after it, Edit and Grep   *)
(* one after.                                                              *)

Starting == clearing # None /\ clearing.session

(* Without a range it is the whole file, which matters for a large one.    *)
(* A session makes no call before its first hook has ended; a hook that    *)
(* clears takes the place of a call in the bound on what is under way.     *)
StartCall(c) ==
  /\ pc[c] = "idle" /\ ~ Starting
  /\ clearing # None => \E d \in Calls \ {c} : pc[d] = "idle"
  /\ \E t \in Tool, f \in Files, L \in (SUBSET Lines) \ {{}}, b \in BOOLEAN :
       /\ ~ b => L = Lines /\ f \in Large
       /\ t # "Read" => L = Lines /\ b
       /\ call' = [call EXCEPT ![c] = [@ EXCEPT !.tool = t, !.file = f, !.lines = L, !.bounded = b,
                            !.since = IF t = "Edit" THEN 0 ELSE content[f]]]
       /\ Goto(c, IF t = "Edit" THEN "tool" ELSE "load")
  /\ UNCHANGED <<content, sidecar, agent, raced>>

LoadMap(c) ==
  /\ pc[c] = "load"
  /\ call' = [call EXCEPT ![c].map = sidecar]
  /\ Goto(c, "look")
  /\ UNCHANGED <<content, sidecar, agent, raced>>

(* mutant: any entry is valid *)
IsCacheValidAlways(entry, f) == entry # None

IsCacheValid(entry, f) == entry # None /\ entry.mtime = content[f]

(* get_or_index, when the entry is not valid: the text is read first ...   *)
IndexFile(c) ==
  /\ pc[c] = "look" /\ ~ IsCacheValid(Entry(c), File(c))
  /\ call' = [call EXCEPT ![c].text = content[File(c)]]
  /\ Goto(c, "stat")
  /\ UNCHANGED <<content, sidecar, agent, raced>>

(* mutant: what was seen of the old content is kept *)
FreshSeenKept(old) == IF old = None THEN {} ELSE old.seen

FreshSeen(old) == {}

(* ... and the mtime after that; the whole copy is saved.                  *)
StoreIndex(c) ==
  /\ pc[c] = "stat"
  /\ LET entry == [text |-> call[c].text, mtime |-> content[File(c)],
                   seen |-> FreshSeen(Entry(c)), outline |-> FALSE]
     IN /\ call' = [call EXCEPT ![c].map[File(c)] = entry, ![c].text = 0]
        /\ sidecar' = call'[c].map
  /\ Goto(c, "use")
  /\ UNCHANGED <<content, agent, raced>>

(* What a hook tells of an entry it has found valid or just made.          *)
Found(c) == \/ pc[c] = "use"
            \/ pc[c] = "look" /\ IsCacheValid(Entry(c), File(c))

Overlap(c) == call[c].lines \cap Entry(c).seen

Decision(c) ==
  IF ~ Entry(c).outline THEN "outline"
  ELSE IF File(c) \in Large /\ ~ call[c].bounded THEN "deny"
  ELSE IF Overlap(c) # {} THEN "elide" ELSE "pass"

(* The tool follows, and a hook of its own process.                        *)
HandOver(c) == call' = [call EXCEPT ![c] = [NoCall EXCEPT !.tool = call[c].tool, !.file = File(c),
                                                          !.lines = call[c].lines]]
Finish(c) == call' = [call EXCEPT ![c] = NoCall] /\ Goto(c, "idle")

(* _dispatch of pre_read: the outline of a file is shown once, with its    *)
(* first read however large it is, and that is saved with the whole copy.  *)
(* The marker of an overlap goes along with a read of all the lines.       *)
PreRead(c) ==
  /\ Found(c) /\ call[c].tool = "Read"
  /\ \/ /\ Decision(c) = "outline"
        /\ sidecar' = [call[c].map EXCEPT ![File(c)].outline = TRUE]
        /\ outlined' = outlined \cup {f \in {File(c)} : Entry(c).text = content[f]}
     \/ Decision(c) # "outline" /\ UNCHANGED <<sidecar, outlined>>
  /\ \/ Decision(c) = "deny" /\ Finish(c)
     \/ Decision(c) # "deny" /\ HandOver(c) /\ Goto(c, "tool")
  /\ UNCHANGED <<content, context, raced>>

(* The tool itself reads the lines as they are now, or changes the file;   *)
(* no hook runs after an edit that fails.                                  *)
RunRead(c) ==
  /\ pc[c] = "tool" /\ call[c].tool = "Read"
  /\ context' = [context EXCEPT ![File(c)] = @ \cup call[c].lines]
  /\ Goto(c, "post")
  /\ UNCHANGED <<content, sidecar, call, outlined, raced>>

RunEdit(c) ==
  /\ pc[c] = "tool" /\ call[c].tool = "Edit"
  /\ \/ Change(File(c)) /\ Goto(c, "post") /\ UNCHANGED call
     \/ Finish(c) /\ UNCHANGED <<content, agent, raced>>
  /\ UNCHANGED sidecar

PostLoad(c) ==
  /\ pc[c] = "post"
  /\ call' = [call EXCEPT ![c].map = sidecar]
  /\ Goto(c, "save")
  /\ UNCHANGED <<content, sidecar, agent, raced>>

(* mutant: the update vouches for the file as it is now *)
UpdatedStamp(c) ==
  IF Entry(c) = None \/ call[c].tool # "Read" THEN None
  ELSE [Entry(c) EXCEPT !.seen = @ \cup call[c].lines, !.mtime = content[File(c)]]

(* post_read adds the lines to whatever entry there is; post_edit drops    *)
(* the entry.                                                              *)
Updated(c) ==
  IF Entry(c) = None \/ call[c].tool # "Read" THEN None
  ELSE [Entry(c) EXCEPT !.seen = @ \cup call[c].lines]

PostSave(c) ==
  /\ pc[c] = "save"
  /\ sidecar' = [call[c].map EXCEPT ![File(c)] = Updated(c)]
  /\ Finish(c)
  /\ UNCHANGED <<content, agent, raced>>

(* post_grep names the symbols around a hit and saves its copy.            *)
PostGrep(c) ==
  /\ Found(c) /\ call[c].tool = "Grep"
  /\ sidecar' = call[c].map
  /\ Finish(c)
  /\ UNCHANGED <<content, agent, raced>>

-----------------------------------------------------------------------------
Quiet == \A c \in Calls : pc[c] = "idle"

Cleared(entry) == IF entry = None THEN None ELSE [entry EXCEPT !.seen = {}, !.outline = FALSE]

Clear(session) ==
  clearing' = [map |-> [f \in Files |-> Cleared(sidecar[f])], session |-> session]

Forget == context' = [f \in Files |-> {}] /\ outlined' = {}

(* The stop hook loads the map: the turn ends, and the agent may forget;   *)
(* calls of agents in the background may be under way.                     *)
Stop ==
  /\ clearing = None /\ sidecar # Empty
  /\ \E c \in Calls : pc[c] = "idle"
  /\ Clear(FALSE)
  /\ UNCHANGED <<content, sidecar, pc, call, agent, raced>>

(* A new session has read nothing; its hook loads the map to clear it.     *)
SessionStart ==
  /\ clearing = None /\ Quiet
  /\ \/ sidecar = Empty /\ Forget /\ UNCHANGED clearing
     \/ sidecar # Empty /\ Clear(TRUE) /\ UNCHANGED agent
  /\ UNCHANGED <<content, sidecar, pc, call, raced>>

(* ... and saves it; what others saved in between is lost.                 *)
SaveCleared ==
  /\ clearing # None
  /\ sidecar' = clearing.map /\ clearing' = None
  /\ IF clearing.session THEN Forget ELSE UNCHANGED agent
  /\ UNCHANGED <<content, pc, call, raced>>

Step(c) ==
  \/ LoadMap(c) \/ IndexFile(c) \/ StoreIndex(c) \/ PreRead(c) \/ RunRead(c) \/ RunEdit(c)
  \/ PostLoad(c) \/ PostSave(c) \/ PostGrep(c)

Next ==
  \/ Stop \/ SessionStart \/ SaveCleared
  \/ /\ \/ \E f \in Files : OutsideChange(f)
        \/ \E c \in Calls : StartCall(c) \/ Step(c)
     /\ UNCHANGED clearing

Spec == Init /\ [][Next]_vars

-----------------------------------------------------------------------------
Vouched(entry, f) == entry # None /\ entry.mtime = content[f] /\ f \notin raced

(* The mtime of an entry vouches for it: whatever copies of the map are    *)
(* saved over one another, an old index never carries the file's present   *)
(* mtime - unless the file changed after a hook had read it and before it  *)
(* took the mtime.                                                         *)
StampVouches ==
  \A f \in Files : Vouched(sidecar[f], f) => sidecar[f].text = content[f]

(* agent_seen may forget, by an update that is lost, but it never claims   *)
(* more than the agent has in its context: lines of the present content    *)
(* read, and its outline seen, in this session.                            *)
SeenIsTrue ==
  \A f \in Files :
    Vouched(sidecar[f], f) =>
      /\ sidecar[f].seen \subseteq context[f]
      /\ sidecar[f].outline => f \in outlined

(* Nothing stale is told: the index a hook answers from is of a content    *)
(* the file has had since the hook was started, and lines it says are in   *)
(* the agent's context are.                                                *)
AnswersAreTrue ==
  [][\A c \in Calls :
       (PreRead(c) \/ PostGrep(c)) /\ File(c) \notin raced =>
         /\ Entry(c).text >= call[c].since
         /\ PreRead(c) /\ Decision(c) = "elide" => Overlap(c) \subseteq context[File(c)]]_vars
=============================================================================
