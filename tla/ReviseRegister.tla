--------------------------- MODULE ReviseRegister ---------------------------
(***************************************************************************)
(* How the REVISE rounds of one task are counted: _flag_one_for_revise of  *)
(* src/scripts/orchestrate.py keeps no counter but the REVISE entries in   *)
(* the Registers section of the task file, between whatever the workers    *)
(* and the scanners' guidance put there.                                   *)
(*                                                                         *)
(* The file is the sequence of its lines, each by what the code looks for: *)
(*   "registers"  the section's heading       "empty"  its empty marker    *)
(*   "head"       any other line that begins with ##                       *)
(*   "revise"     a line that begins with REVISE round n                   *)
(*   "revise##"   one with ## further on      "inline"  other text with ## *)
(*   "text"       anything else                                            *)
(***************************************************************************)
EXTENDS Naturals, Sequences, FiniteSets, SequencesExt

CONSTANTS
  Files,            \* the task files to begin with
  Guidance,         \* what the scanners may say: sequences of lines
  MaxReviseRounds,  \* MAX_REVISE_ROUNDS
  MaxFlags          \* bound on the times the task is flagged

Line == {"registers", "empty", "head", "revise", "revise##", "inline", "text"}

ASSUME RegisterAssumption ==
  /\ Files \subseteq Seq(Line)
  /\ Guidance \subseteq Seq({"head", "revise", "inline", "text"}) \ {<<>>}
  /\ MaxReviseRounds \in Nat /\ MaxFlags \in Nat

VARIABLES
  file,     \* the lines of the task file
  role,     \* its dispatch role
  status,   \* the task's status in MAP.md
  rounds,   \* times the task went back to PENDING for a repair
  cut       \* history: the round whose guidance was the first that Cuts, or 0

vars == <<file, role, status, rounds, cut>>

Headings(f) == {i \in DOMAIN f : f[i] = "registers"}

TypeOK ==
  /\ file \in Seq(Line) /\ Cardinality(Headings(file)) <= 1
  /\ role \in {"fsm-executor", "fsm-integrator", "code-fixer", "debugger"}
  /\ status \in {"EXECUTING", "PENDING", "BLOCKED"}
  /\ rounds \in 0 .. MaxFlags /\ cut \in 0 .. rounds

Init ==
  /\ file \in Files
  /\ role \in {"fsm-executor", "fsm-integrator"}
  /\ status = "EXECUTING" /\ rounds = 0 /\ cut = 0

-----------------------------------------------------------------------------
(* The first line after i that is in S; Len(f) + 1 if there is none.       *)
FirstAfter(f, i, S) ==
  CHOOSE j \in i + 1 .. Len(f) + 1 :
    /\ j \in DOMAIN f => f[j] \in S
    /\ \A k \in i + 1 .. j - 1 : f[k] \notin S

HasRegisters(f) == Headings(f) # {}
Heading(f) == CHOOSE i \in Headings(f) : \A j \in Headings(f) : i <= j

(* What is read back ends at the first ## anywhere, so a line with ##      *)
(* further on is its last, and is read up to there.                        *)
WithHashes == {"registers", "head", "revise##", "inline"}

ReadRegisters(f) ==
  {i \in DOMAIN f : HasRegisters(f)
     /\ Heading(f) < i /\ i <= FirstAfter(f, Heading(f), WithHashes)}

CountReviseRounds(f) ==
  Cardinality({i \in ReadRegisters(f) : f[i] \in {"revise", "revise##"}})

(* The first line of the guidance stands behind the entry's own words.     *)
Entry(g) ==
  <<IF g[1] \in {"head", "inline"} THEN "revise##" ELSE "revise">> \o Tail(g)

InsertBefore(f, i, e) == SubSeq(f, 1, i - 1) \o e \o SubSeq(f, i, Len(f))

HasEmptyMarker(f) ==
  HasRegisters(f) /\ Heading(f) < Len(f) /\ f[Heading(f) + 1] = "empty"

(* Guidance that ends what is read back: with ## in the line it begins     *)
(* with, or inside a line before the first that begins with ##.            *)
Cuts(g) ==
  \E i \in DOMAIN g :
    /\ Entry(g)[i] \in {"revise##", "inline"}
    /\ \A k \in 1 .. i - 1 : Entry(g)[k] # "head"

(* mutant: the entry goes to the end of the file *)
AppendReviseEntryLast(f, g) == f \o Entry(g)
(* mutant: what the section held is replaced, marker or not *)
AppendReviseEntryOver(f, g) ==
  SubSeq(f, 1, Heading(f)) \o Entry(g)
    \o SubSeq(f, FirstAfter(f, Heading(f), {"head", "registers"}), Len(f))

(* The entry replaces the empty marker; otherwise it goes before the next  *)
(* line that begins with ##, or to the end of the file.                    *)
AppendReviseEntry(f, g) ==
  IF HasEmptyMarker(f)
    THEN InsertBefore(RemoveAt(f, Heading(f) + 1), Heading(f) + 1, Entry(g))
  ELSE IF HasRegisters(f)
    THEN InsertBefore(f, FirstAfter(f, Heading(f), {"head", "registers"}), Entry(g))
  ELSE f

(* Guidance that hints at a simple fix goes to the code fixer.             *)
SelectRepairRole(r, simple) ==
  IF r # "fsm-integrator" /\ simple THEN "code-fixer" ELSE "debugger"

-----------------------------------------------------------------------------
Flag(g, simple) ==
  /\ status = "EXECUTING" /\ rounds < MaxFlags
  /\ \/ /\ CountReviseRounds(file) + 1 > MaxReviseRounds
        /\ status' = "BLOCKED"
        /\ UNCHANGED <<file, role, rounds, cut>>
     \/ /\ CountReviseRounds(file) + 1 <= MaxReviseRounds
        /\ file' = AppendReviseEntry(file, g)
        /\ role' = SelectRepairRole(role, simple)
        /\ status' = "PENDING"
        /\ rounds' = rounds + 1
        /\ cut' = IF cut = 0 /\ Cuts(g) THEN rounds' ELSE cut

(* The repair is dispatched and comes up for review again.                 *)
Repaired ==
  /\ status = "PENDING"
  /\ status' = "EXECUTING"
  /\ UNCHANGED <<file, role, rounds, cut>>

Stopped ==
  /\ status = "BLOCKED" \/ rounds = MaxFlags
  /\ UNCHANGED vars

Next ==
  \/ \E g \in Guidance, simple \in BOOLEAN : Flag(g, simple)
  \/ Repaired \/ Stopped

Spec == Init /\ [][Next]_vars

-----------------------------------------------------------------------------
(* The entries in the file keep count of the repairs up to the first whose *)
(* guidance cuts what is read, as one that begins with a heading does; no  *)
(* later one is counted. So there are at most MAX_REVISE_ROUNDS repairs    *)
(* when no guidance cuts, and a task is BLOCKED after the last repair that *)
(* counts and not before: never, if the one that cuts came earlier.        *)
RoundsLimited ==
  LET counted == IF cut = 0 THEN rounds ELSE cut
  IN  /\ counted <= MaxReviseRounds
      /\ status = "BLOCKED" => counted = MaxReviseRounds

(* Nothing that was in the file is lost to an entry, but the empty marker: *)
(* what workers noted in the Registers and every other section survive.    *)
NothingLost ==
  [][\E i \in 0 .. Len(file), n \in {0, 1} :
       LET before == SubSeq(file, 1, i)
           after  == SubSeq(file, i + 1 + n, Len(file))
       IN  /\ n = 1 => i < Len(file) /\ file[i + 1] = "empty"
           /\ Len(before) + Len(after) <= Len(file')
           /\ IsPrefix(before, file') /\ IsSuffix(after, file')]_vars
=============================================================================
