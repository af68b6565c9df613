------------------------ MODULE ReviseRegister_proofs ------------------------
(***************************************************************************)
(* What counting REVISE rounds in the text of a task file rests on, proved *)
(* for every file, guidance, limit and number of flags: an entry loses     *)
(* nothing; and if a file begins without entries and no guidance fakes     *)
(* one, the entries in the file keep count of the rounds up to the first   *)
(* whose guidance cuts what is read, and of none from then on.             *)
(***************************************************************************)
EXTENDS ReviseRegister, SequenceTheorems, FiniteSetTheorems, WellFoundedInduction, TLAPS

Heads == {"head", "registers"}

(* The section is the lines behind its heading, up to the next heading.    *)
SectionEnd(f) == FirstAfter(f, Heading(f), Heads)
Section(f) == Heading(f) + 1 .. SectionEnd(f) - 1
Entries(f) == {i \in Section(f) : f[i] = "revise"}

(* Nothing in the section stops reading it, and the marker means what it   *)
(* says: there are no entries.                                             *)
Readable(f) ==
  /\ HasRegisters(f)
  /\ \A i \in Section(f) : f[i] \notin {"inline", "revise##"}
  /\ HasEmptyMarker(f) => Entries(f) = {}

(* A task file to begin with: a section that can be read, without entries. *)
Fresh(f) == Readable(f) /\ Entries(f) = {}

(* Guidance whose lines do not look like entries where they would be read. *)
Hashes == {"head", "inline", "revise##"}
Unquoted(g) ==
  \A i \in 2 .. Len(g) :
    g[i] = "revise" => \E k \in 1 .. i - 1 : Entry(g)[k] \in Hashes

(* ... which does not cut: a line with ## or one that looks like an entry  *)
(* only behind a heading of its own.                                       *)
Plain(g) ==
  /\ g[1] \in {"text", "revise"}
  /\ \A i \in 2 .. Len(g) :
       g[i] \in {"inline", "revise"} => \E k \in 2 .. i - 1 : g[k] = "head"

(* Reading ends before the section does.                                   *)
Cut(f) == FirstAfter(f, Heading(f), WithHashes)
Closed(f) == HasRegisters(f) /\ ~ HasEmptyMarker(f) /\ Cut(f) < SectionEnd(f)

CInv ==
  /\ file \in Seq(Line) /\ rounds \in Nat /\ cut \in Nat
  /\ cut = 0 => Readable(file) /\ Cardinality(Entries(file)) = rounds
  /\ cut # 0 => Closed(file) /\ CountReviseRounds(file) = cut
  /\ RoundsLimited

-----------------------------------------------------------------------------
(* Lemmas about lines.                                                     *)

LEMMA LeastNatural ==
  ASSUME NEW S \in SUBSET Nat, S # {}
  PROVE  \E n \in S : \A m \in S : n <= m
<1> DEFINE Below(n) == {m \in S : m < n}
           family == {Below(n) : n \in S}
<1>1. family \subseteq FiniteSubsetsOf(Nat) /\ family # {}
  <2>1. \A n \in S : IsFiniteSet(Below(n))
    BY FS_BoundedSetOfNaturals
  <2>2. QED
    BY <2>1 DEF FiniteSubsetsOf
<1>2. PICK B \in family : \A C \in family : ~ (<<C, B>> \in StrictSubsetOrdering(Nat))
  <2> HIDE DEF family
  <2>1. QED
    BY <1>1, FS_StrictSubsetOrderingWellFounded, WFMin
<1>3. PICK n \in S : B = Below(n)
  OBVIOUS
<1>4. \A m \in S : ~ (m < n)
  <2> SUFFICES ASSUME NEW m \in S, m < n PROVE FALSE
    OBVIOUS
  <2>1. Below(m) \subseteq Below(n)
    <3>1. \A k \in S : k < m => k < n
      OBVIOUS
    <3>2. QED
      BY <3>1
  <2>2. m \in Below(n) /\ m \notin Below(m)
    OBVIOUS
  <2>3. <<Below(m), B>> \in StrictSubsetOrdering(Nat)
    BY <1>3, <2>1, <2>2 DEF StrictSubsetOrdering
  <2>4. QED
    BY <1>2, <2>3
<1>5. QED
  BY <1>4

(* The section's heading is the first there is.                            *)
LEMMA HeadingIs ==
  ASSUME NEW f \in Seq(Line), HasRegisters(f)
  PROVE  /\ Heading(f) \in 1 .. Len(f) /\ f[Heading(f)] = "registers"
         /\ \A i \in 1 .. Len(f) : f[i] = "registers" => Heading(f) <= i
<1>1. Headings(f) \subseteq Nat /\ Headings(f) # {}
  BY DEF Headings, HasRegisters
<1>2. \E i \in Headings(f) : \A j \in Headings(f) : i <= j
  BY <1>1, LeastNatural
<1>3. Heading(f) \in Headings(f) /\ \A j \in Headings(f) : Heading(f) <= j
  BY <1>2 DEF Heading
<1>4. QED
  BY <1>3 DEF Headings

LEMMA HeadingUnique ==
  ASSUME NEW f \in Seq(Line), NEW h \in 1 .. Len(f), f[h] = "registers",
         \A i \in 1 .. h - 1 : f[i] # "registers"
  PROVE  HasRegisters(f) /\ Heading(f) = h
<1>1. HasRegisters(f)
  BY DEF HasRegisters, Headings
<1>2. QED
  BY <1>1, HeadingIs

LEMMA FirstAfterIs ==
  ASSUME NEW f \in Seq(Line), NEW i \in 0 .. Len(f), NEW S
  PROVE  /\ FirstAfter(f, i, S) \in i + 1 .. Len(f) + 1
         /\ FirstAfter(f, i, S) \in 1 .. Len(f) => f[FirstAfter(f, i, S)] \in S
         /\ \A k \in i + 1 .. FirstAfter(f, i, S) - 1 : f[k] \notin S
<1> DEFINE A == {j \in i + 1 .. Len(f) + 1 : j \in DOMAIN f => f[j] \in S}
<1>1. A \in SUBSET Nat /\ Len(f) + 1 \in A
  OBVIOUS
<1>2. PICK j \in A : \A k \in A : j <= k
  <2> HIDE DEF A
  <2>1. QED
    BY <1>1, LeastNatural
<1>3. /\ j \in i + 1 .. Len(f) + 1 /\ (j \in DOMAIN f => f[j] \in S)
      /\ \A k \in i + 1 .. j - 1 : f[k] \notin S
  BY <1>2
<1>4. QED
  BY <1>3 DEF FirstAfter

LEMMA FirstAfterUnique ==
  ASSUME NEW f \in Seq(Line), NEW i \in 0 .. Len(f), NEW S,
         NEW j \in i + 1 .. Len(f) + 1, j \in 1 .. Len(f) => f[j] \in S,
         \A k \in i + 1 .. j - 1 : f[k] \notin S
  PROVE  FirstAfter(f, i, S) = j
BY FirstAfterIs

(* Lines put in the place of n others.                                     *)
LEMMA SpliceIs ==
  ASSUME NEW f \in Seq(Line), NEW e \in Seq(Line),
         NEW i \in 1 .. Len(f) + 1, NEW n \in {0, 1}, i + n <= Len(f) + 1
  PROVE  LET s == SubSeq(f, 1, i - 1) \o e \o SubSeq(f, i + n, Len(f)) IN
         /\ s \in Seq(Line) /\ Len(s) = Len(f) + Len(e) - n
         /\ \A k \in 1 .. i - 1 : s[k] = f[k]
         /\ \A k \in 1 .. Len(e) : s[i + k - 1] = e[k]
         /\ \A k \in i + n .. Len(f) : s[k + Len(e) - n] = f[k]
<1> DEFINE a == SubSeq(f, 1, i - 1)
           c == SubSeq(f, i + n, Len(f))
<1>1. /\ a \in Seq(Line) /\ Len(a) = i - 1 /\ \A k \in 1 .. i - 1 : a[k] = f[k]
      /\ c \in Seq(Line) /\ Len(c) = Len(f) - i - n + 1
      /\ \A k \in 1 .. Len(c) : c[k] = f[i + n + k - 1]
  BY SubSeqProperties
<1> HIDE DEF a, c
<1> DEFINE b == a \o e
<1>2. /\ b \in Seq(Line) /\ Len(b) = Len(a) + Len(e)
      /\ \A k \in 1 .. Len(a) + Len(e) : b[k] = IF k <= Len(a) THEN a[k] ELSE e[k - Len(a)]
  BY <1>1, ConcatProperties
<1> HIDE DEF b
<1>3. /\ b \o c \in Seq(Line) /\ Len(b \o c) = Len(b) + Len(c)
      /\ \A k \in 1 .. Len(b) + Len(c) :
           (b \o c)[k] = IF k <= Len(b) THEN b[k] ELSE c[k - Len(b)]
  <2>1. b \in Seq(Line) /\ c \in Seq(Line)
    BY <1>1, <1>2
  <2>2. QED
    BY <2>1, ConcatProperties, Zenon
<1> DEFINE s == b \o c
<1> HIDE DEF s
<1>4. Len(s) = Len(f) + Len(e) - n
  BY <1>1, <1>2, <1>3 DEF s
<1>5. \A k \in 1 .. i - 1 : s[k] = f[k]
  <2> TAKE k \in 1 .. i - 1
  <2>1. k \in 1 .. Len(b) + Len(c) /\ k <= Len(b) /\ k \in 1 .. Len(a) + Len(e) /\ k <= Len(a)
    BY <1>1, <1>2
  <2>2. s[k] = b[k] /\ b[k] = a[k] /\ a[k] = f[k]
    BY <1>1, <1>2, <1>3, <2>1 DEF s
  <2>3. QED
    BY <2>2
<1>6. \A k \in 1 .. Len(e) : s[i + k - 1] = e[k]
  <2> TAKE k \in 1 .. Len(e)
  <2>1. PICK m \in 1 .. Len(b) + Len(c) :
          /\ m = i + k - 1 /\ m <= Len(b) /\ m \in 1 .. Len(a) + Len(e)
          /\ ~ (m <= Len(a)) /\ m - Len(a) = k
    BY <1>1, <1>2
  <2>2. s[m] = b[m]
    BY <1>3, <2>1 DEF s
  <2>3. b[m] = e[m - Len(a)]
    BY <1>2, <2>1
  <2>4. QED
    BY <2>1, <2>2, <2>3
<1>7. \A k \in i + n .. Len(f) : s[k + Len(e) - n] = f[k]
  <2> TAKE k \in i + n .. Len(f)
  <2>1. /\ k + Len(e) - n \in 1 .. Len(b) + Len(c) /\ ~ (k + Len(e) - n <= Len(b))
        /\ k + Len(e) - n - Len(b) = k - n - i + 1 /\ k - n - i + 1 \in 1 .. Len(c)
    BY <1>1, <1>2
  <2>2. s[k + Len(e) - n] = c[k - n - i + 1]
    BY <1>3, <2>1 DEF s
  <2>3. c[k - n - i + 1] = f[i + n + (k - n - i + 1) - 1]
    BY <1>1, <2>1
  <2>4. i + n + (k - n - i + 1) - 1 = k
    OBVIOUS
  <2>5. QED
    BY <2>2, <2>3, <2>4
<1>8. QED
  BY <1>3, <1>4, <1>5, <1>6, <1>7 DEF a, b, c, s

(* What is left around a line that was removed.                            *)
LEMMA RemovedIs ==
  ASSUME NEW f \in Seq(Line), NEW h \in 1 .. Len(f) - 1
  PROVE  LET r == RemoveAt(f, h + 1) IN
         /\ r \in Seq(Line) /\ SubSeq(r, 1, h) = SubSeq(f, 1, h)
         /\ SubSeq(r, h + 1, Len(r)) = SubSeq(f, h + 2, Len(f))
<1> DEFINE a == SubSeq(f, 1, h)
           c == SubSeq(f, h + 2, Len(f))
           r == RemoveAt(f, h + 1)
<1>1. Len(f) \in Nat /\ Len(f) - (h + 2) + 1 = Len(f) - h - 1
  OBVIOUS
<1>2. /\ a \in Seq(Line) /\ Len(a) = h
      /\ c \in Seq(Line) /\ Len(c) = Len(f) - h - 1
  <2>1. (\A k \in 1 .. h : f[k] \in Line) /\ \A k \in h + 2 .. Len(f) : f[k] \in Line
    BY ElementOfSeq
  <2>2. a \in Seq(Line) /\ Len(a) = IF 1 <= h THEN h - 1 + 1 ELSE 0
    BY <2>1, SubSeqProperties
  <2>3. c \in Seq(Line) /\ Len(c) = IF h + 2 <= Len(f) THEN Len(f) - (h + 2) + 1 ELSE 0
    BY <2>1, SubSeqProperties
  <2>4. 1 <= h /\ h - 1 + 1 = h /\ h + 2 <= Len(f) + 1 /\ Len(f) - (h + 2) + 1 \in Nat
    OBVIOUS
  <2>5. h + 2 <= Len(f) \/ Len(f) - (h + 2) + 1 = 0
    OBVIOUS
  <2> HIDE DEF a, c
  <2>6. QED
    BY <1>1, <2>2, <2>3, <2>4, <2>5
<1>3. r = a \o c
  <2>1. h + 1 - 1 = h /\ h + 1 + 1 = h + 2
    OBVIOUS
  <2>2. QED
    BY <2>1 DEF RemoveAt
<1> HIDE DEF a, c, r
<1>4. /\ r \in Seq(Line) /\ Len(r) = h + Len(c)
      /\ \A k \in 1 .. Len(a) + Len(c) : r[k] = IF k <= Len(a) THEN a[k] ELSE c[k - Len(a)]
  BY <1>2, <1>3, ConcatProperties
<1>5. SubSeq(r, 1, h) = a
  <2>1. \A k \in 1 .. h : r[k] = a[k] /\ r[k] \in Line
    <3> TAKE k \in 1 .. h
    <3>1. k \in 1 .. Len(a) + Len(c) /\ k <= Len(a) /\ k \in 1 .. Len(a)
      BY <1>1, <1>2
    <3>2. r[k] = a[k] /\ a[k] \in Line
      BY <1>2, <1>4, <3>1, ElementOfSeq
    <3>3. QED
      BY <3>2
  <2>2. /\ SubSeq(r, 1, h) \in Seq(Line) /\ Len(SubSeq(r, 1, h)) = h
        /\ \A k \in 1 .. h : SubSeq(r, 1, h)[k] = r[k]
    <3>1. /\ SubSeq(r, 1, h) \in Seq(Line)
          /\ Len(SubSeq(r, 1, h)) = IF 1 <= h THEN h - 1 + 1 ELSE 0
          /\ \A k \in 1 .. h - 1 + 1 : SubSeq(r, 1, h)[k] = r[1 + k - 1]
      BY <2>1, SubSeqProperties
    <3>2. QED
      BY <3>1
  <2>3. QED
    BY <1>2, <2>1, <2>2, SeqEqual
<1>6. SubSeq(r, h + 1, Len(r)) = c
  <2>1. \A k \in 1 .. Len(c) : r[h + k] = c[k]
    BY <1>1, <1>2, <1>4
  <2>2. \A k \in h + 1 .. Len(r) : r[k] \in Line
    BY <1>1, <1>2, <1>4, ElementOfSeq
  <2> DEFINE z == SubSeq(r, h + 1, Len(r))
  <2>3. /\ z \in Seq(Line) /\ Len(z) = IF h + 1 <= Len(r) THEN Len(r) - (h + 1) + 1 ELSE 0
        /\ \A k \in 1 .. Len(r) - (h + 1) + 1 : z[k] = r[h + 1 + k - 1]
    BY <1>4, <2>2, SubSeqProperties
  <2> HIDE DEF z
  <2>4. Len(r) - (h + 1) + 1 = Len(c)
    BY <1>1, <1>2, <1>4
  <2>5. Len(z) = Len(c) /\ \A k \in 1 .. Len(c) : z[k] = c[k]
    BY <1>2, <1>4, <2>1, <2>3, <2>4
  <2>6. z = c
    BY <1>2, <2>3, <2>5, SeqEqual
  <2>7. QED
    BY <2>6 DEF z
<1>7. QED
  BY <1>4, <1>5, <1>6 DEF a, c, r

LEMMA SuffixIs ==
  ASSUME NEW a \in Seq(Line), NEW s \in Seq(Line), Len(a) <= Len(s),
         \A k \in 1 .. Len(a) : a[k] = s[Len(s) - Len(a) + k]
  PROVE  IsSuffix(a, s)
<1> DEFINE x == Reverse(a)
           y == Reverse(s)
<1>1. /\ Len(x) = Len(a) /\ Len(y) = Len(s) /\ x \in Seq(Line) /\ y \in Seq(Line)
      /\ \A k \in 1 .. Len(a) : x[k] = a[Len(a) - k + 1]
      /\ \A k \in 1 .. Len(s) : y[k] = s[Len(s) - k + 1]
  <2>1. /\ x \in [1 .. Len(a) -> Line] /\ y \in [1 .. Len(s) -> Line]
        /\ \A k \in 1 .. Len(a) : x[k] = a[Len(a) - k + 1]
        /\ \A k \in 1 .. Len(s) : y[k] = s[Len(s) - k + 1]
    <3>1. \A k \in 1 .. Len(a) : a[Len(a) - k + 1] \in Line
      <4>1. \A k \in 1 .. Len(a) : Len(a) - k + 1 \in 1 .. Len(a)
        OBVIOUS
      <4>2. QED
        BY <4>1, ElementOfSeq
    <3>2. \A k \in 1 .. Len(s) : s[Len(s) - k + 1] \in Line
      <4>1. \A k \in 1 .. Len(s) : Len(s) - k + 1 \in 1 .. Len(s)
        OBVIOUS
      <4>2. QED
        BY <4>1, ElementOfSeq
    <3>3. QED
      BY <3>1, <3>2 DEF Reverse
  <2> HIDE DEF x, y
  <2>2. Len(a) \in Nat /\ Len(s) \in Nat
    OBVIOUS
  <2>3. x \in Seq(Line) /\ y \in Seq(Line)
    <3>1. \A n \in Nat : [1 .. n -> Line] \subseteq Seq(Line)
      BY SeqDef, Zenon
    <3>2. QED
      BY <2>1, <2>2, <3>1, Zenon
  <2>4. Len(x) = Len(a) /\ Len(y) = Len(s)
    BY <2>1, <2>2, <2>3, LenProperties
  <2>5. QED
    BY <2>1, <2>3, <2>4
<1> HIDE DEF x, y
<1>2. \A k \in 1 .. Len(a) : x[k] = y[k]
  <2> TAKE k \in 1 .. Len(a)
  <2>1. k \in 1 .. Len(s) /\ Len(a) - k + 1 \in 1 .. Len(a)
    OBVIOUS
  <2>2. a[Len(a) - k + 1] = s[Len(s) - Len(a) + (Len(a) - k + 1)]
    BY <2>1
  <2>3. Len(s) - Len(a) + (Len(a) - k + 1) = Len(s) - k + 1
    OBVIOUS
  <2>4. QED
    BY <1>1, <2>1, <2>2, <2>3
<1>3. /\ SubSeq(x, 1, Len(a)) \in Seq(Line) /\ SubSeq(y, 1, Len(a)) \in Seq(Line)
      /\ Len(SubSeq(x, 1, Len(a))) = Len(a) /\ Len(SubSeq(y, 1, Len(a))) = Len(a)
      /\ \A k \in 1 .. Len(a) : SubSeq(x, 1, Len(a))[k] = x[k] /\ SubSeq(y, 1, Len(a))[k] = y[k]
  <2>1. \A k \in 1 .. Len(a) : x[k] \in Line /\ y[k] \in Line
    BY <1>1, ElementOfSeq
  <2>2. QED
    BY <2>1, SubSeqProperties
<1>4. SubSeq(x, 1, Len(a)) = SubSeq(y, 1, Len(a))
  BY <1>2, <1>3, SeqEqual
<1>5. QED
  BY <1>1, <1>4 DEF IsSuffix, IsPrefix, x, y

-----------------------------------------------------------------------------
(* What AppendReviseEntry does.                                            *)

LEMMA EntryIs ==
  ASSUME NEW g \in Guidance
  PROVE  /\ Entry(g) \in Seq(Line) /\ Len(Entry(g)) = Len(g) /\ Len(g) \in Nat \ {0}
         /\ \A k \in 1 .. Len(g) : Entry(g)[k] # "registers"
         /\ Plain(g) => Entry(g)[1] = "revise"
         /\ Entry(g)[1] \in {"revise", "revise##"}
         /\ Entry(g)[1] = "revise" => g[1] \in {"text", "revise"}
         /\ \A k \in 2 .. Len(g) : g[k] # "revise##"
         /\ \A k \in 2 .. Len(g) : Entry(g)[k] = g[k]
<1> DEFINE S == {"head", "revise", "inline", "text"}
           first == IF g[1] \in {"head", "inline"} THEN "revise##" ELSE "revise"
<1>1. g \in Seq(S) /\ g # <<>>
  BY RegisterAssumption DEF RegisterAssumption
<1>2. /\ Tail(g) \in Seq(S) /\ Len(Tail(g)) = Len(g) - 1
      /\ \A k \in 1 .. Len(g) - 1 : Tail(g)[k] = g[k + 1]
  BY <1>1, HeadTailProperties
<1>3. Len(g) \in Nat \ {0} /\ \A k \in 1 .. Len(g) : g[k] \in S
  BY <1>1, EmptySeq, ElementOfSeq
<1>4. Tail(g) \in Seq(Line) /\ <<first>> \in Seq(Line) /\ Len(<<first>>) = 1
  <2>1. S \subseteq Line
    BY DEF Line
  <2>2. Tail(g) \in Seq(Line)
    BY <1>2, <2>1, SeqMonotonic
  <2>3. QED
    BY <2>2 DEF Line
<1>5. /\ Entry(g) \in Seq(Line) /\ Len(Entry(g)) = Len(g)
      /\ \A k \in 1 .. Len(g) : Entry(g)[k] = IF k <= 1 THEN <<first>>[k] ELSE Tail(g)[k - 1]
  <2>1. Entry(g) = <<first>> \o Tail(g)
    BY DEF Entry
  <2> HIDE DEF first
  <2>2. /\ Entry(g) \in Seq(Line) /\ Len(Entry(g)) = 1 + Len(Tail(g))
        /\ \A k \in 1 .. 1 + Len(Tail(g)) :
             Entry(g)[k] = IF k <= 1 THEN <<first>>[k] ELSE Tail(g)[k - 1]
    BY <1>4, <2>1, ConcatProperties
  <2>3. QED
    BY <1>2, <1>3, <2>2
<1>6. Entry(g)[1] = first
  BY <1>3, <1>5
<1>7. \A k \in 2 .. Len(g) : Entry(g)[k] = g[k]
  BY <1>2, <1>3, <1>5
<1>8. \A k \in 1 .. Len(g) : Entry(g)[k] # "registers"
  BY <1>3, <1>6, <1>7
<1>9. QED
  BY <1>3, <1>5, <1>6, <1>7, <1>8 DEF Plain

(* The place an entry goes to: it replaces the marker behind the heading,  *)
(* or is put at the end of the section.                                    *)
Place(f, i, n) ==
  IF HasEmptyMarker(f) THEN n = 1 /\ i = Heading(f) + 1 ELSE n = 0 /\ i = SectionEnd(f)

LEMMA AppendIs ==
  ASSUME NEW f \in Seq(Line), HasRegisters(f), NEW g \in Guidance
  PROVE  LET s == AppendReviseEntry(f, g) IN
         \E i \in Heading(f) + 1 .. Len(f) + 1, n \in {0, 1} :
           /\ Place(f, i, n) /\ i + n <= Len(f) + 1
           /\ n = 1 => f[i] = "empty"
           /\ s \in Seq(Line) /\ Len(s) = Len(f) + Len(g) - n
           /\ \A k \in 1 .. i - 1 : s[k] = f[k]
           /\ \A k \in 1 .. Len(g) : s[i + k - 1] = Entry(g)[k]
           /\ \A k \in i + n .. Len(f) : s[k + Len(g) - n] = f[k]
           /\ s = SubSeq(f, 1, i - 1) \o Entry(g) \o SubSeq(f, i + n, Len(f))
<1>1. PICK h \in 1 .. Len(f) : h = Heading(f)
  BY HeadingIs
<1>2. PICK e \in Seq(Line) : e = Entry(g) /\ Len(e) = Len(g)
  BY EntryIs
<1> DEFINE splice(i, n) == SubSeq(f, 1, i - 1) \o e \o SubSeq(f, i + n, Len(f))
<1>3. SUFFICES \E i \in h + 1 .. Len(f) + 1, n \in {0, 1} :
                 /\ Place(f, i, n) /\ i + n <= Len(f) + 1 /\ (n = 1 => f[i] = "empty")
                 /\ AppendReviseEntry(f, g) = splice(i, n)
  <2>1. PICK i \in h + 1 .. Len(f) + 1, n \in {0, 1} :
          /\ Place(f, i, n) /\ i + n <= Len(f) + 1 /\ (n = 1 => f[i] = "empty")
          /\ AppendReviseEntry(f, g) = splice(i, n)
    BY <1>3
  <2>2. i \in 1 .. Len(f) + 1
    OBVIOUS
  <2>3. /\ splice(i, n) \in Seq(Line) /\ Len(splice(i, n)) = Len(f) + Len(e) - n
        /\ \A k \in 1 .. i - 1 : splice(i, n)[k] = f[k]
        /\ \A k \in 1 .. Len(e) : splice(i, n)[i + k - 1] = e[k]
        /\ \A k \in i + n .. Len(f) : splice(i, n)[k + Len(e) - n] = f[k]
    BY <2>1, <2>2, SpliceIs
  <2> HIDE DEF splice
  <2>4. AppendReviseEntry(f, g) = SubSeq(f, 1, i - 1) \o Entry(g) \o SubSeq(f, i + n, Len(f))
    BY <1>2, <2>1 DEF splice
  <2>5. QED
    BY <1>1, <1>2, <2>1, <2>3, <2>4, Zenon
<1>4. CASE HasEmptyMarker(f)
  <2>1. h < Len(f) /\ f[h + 1] = "empty"
    BY <1>1, <1>4 DEF HasEmptyMarker
  <2> DEFINE r == RemoveAt(f, h + 1)
  <2>2. AppendReviseEntry(f, g) = SubSeq(r, 1, (h + 1) - 1) \o e \o SubSeq(r, h + 1, Len(r))
    <3>1. AppendReviseEntry(f, g) = InsertBefore(r, h + 1, e)
      BY <1>1, <1>2, <1>4, Zenon DEF AppendReviseEntry
    <3> HIDE DEF r
    <3>2. InsertBefore(r, h + 1, e)
            = SubSeq(r, 1, (h + 1) - 1) \o e \o SubSeq(r, h + 1, Len(r))
      BY DEF InsertBefore
    <3>3. QED
      BY <3>1, <3>2, Zenon
  <2>3. /\ SubSeq(r, 1, h) = SubSeq(f, 1, h)
        /\ SubSeq(r, h + 1, Len(r)) = SubSeq(f, h + 2, Len(f))
    BY <2>1, RemovedIs
  <2> HIDE DEF r
  <2>4. (h + 1) - 1 = h /\ h + 1 + 1 = h + 2
    OBVIOUS
  <2>5. AppendReviseEntry(f, g) = splice(h + 1, 1)
    <3>1. SubSeq(r, 1, (h + 1) - 1) = SubSeq(f, 1, (h + 1) - 1)
      BY <2>3, <2>4
    <3>2. SubSeq(r, h + 1, Len(r)) = SubSeq(f, h + 1 + 1, Len(f))
      BY <2>3, <2>4
    <3>3. AppendReviseEntry(f, g)
            = SubSeq(f, 1, (h + 1) - 1) \o e \o SubSeq(f, h + 1 + 1, Len(f))
      BY <2>2, <3>1, <3>2
    <3>4. QED
      BY <3>3
  <2>6. Place(f, h + 1, 1)
    BY <1>1, <1>4 DEF Place
  <2>7. h + 1 \in h + 1 .. Len(f) + 1 /\ h + 1 + 1 <= Len(f) + 1
    BY <2>1
  <2>8. QED
    BY <2>1, <2>5, <2>6, <2>7
<1>5. CASE ~ HasEmptyMarker(f)
  <2>1. PICK i \in h + 1 .. Len(f) + 1 : i = SectionEnd(f)
    BY <1>1, FirstAfterIs DEF SectionEnd
  <2>2. AppendReviseEntry(f, g) = SubSeq(f, 1, i - 1) \o e \o SubSeq(f, i, Len(f))
    BY <1>1, <1>2, <1>5, <2>1 DEF AppendReviseEntry, InsertBefore, SectionEnd, Heads
  <2>3. i + 0 = i
    OBVIOUS
  <2>4. AppendReviseEntry(f, g) = splice(i, 0)
    BY <2>2, <2>3
  <2>5. Place(f, i, 0) /\ i + 0 <= Len(f) + 1
    BY <1>5, <2>1 DEF Place
  <2> HIDE DEF splice
  <2>6. QED
    BY <2>4, <2>5
<1>6. QED
  BY <1>4, <1>5

(* The heading and the section of a file an entry was added to.            *)
LEMMA SectionIs ==
  ASSUME NEW f \in Seq(Line), HasRegisters(f)
  PROVE  /\ Heading(f) \in 1 .. Len(f) /\ SectionEnd(f) \in Heading(f) + 1 .. Len(f) + 1
         /\ SectionEnd(f) \in 1 .. Len(f) => f[SectionEnd(f)] \in Heads
         /\ \A k \in Section(f) : f[k] \notin Heads
BY HeadingIs, FirstAfterIs DEF SectionEnd, Section

(* If a section can be read, the rounds counted are the entries in it.     *)
LEMMA CountIs ==
  ASSUME NEW f \in Seq(Line), Readable(f)
  PROVE  CountReviseRounds(f) = Cardinality(Entries(f))
<1>1. HasRegisters(f)
  BY DEF Readable
<1>2. FirstAfter(f, Heading(f), WithHashes) = SectionEnd(f)
  <2>1. /\ SectionEnd(f) \in 1 .. Len(f) => f[SectionEnd(f)] \in WithHashes
        /\ \A k \in Heading(f) + 1 .. SectionEnd(f) - 1 : f[k] \notin WithHashes
    BY <1>1, SectionIs DEF Readable, Section, Heads, WithHashes
  <2>2. Heading(f) \in 0 .. Len(f) /\ SectionEnd(f) \in Heading(f) + 1 .. Len(f) + 1
    BY <1>1, SectionIs
  <2>3. QED
    BY <2>1, <2>2, FirstAfterUnique
<1>3. {i \in ReadRegisters(f) : f[i] \in {"revise", "revise##"}} = Entries(f)
  <2>1. ASSUME NEW i \in ReadRegisters(f), f[i] \in {"revise", "revise##"}
        PROVE  i \in Entries(f)
    <3>1. i \in 1 .. Len(f) /\ Heading(f) < i /\ i <= SectionEnd(f)
      BY <1>2 DEF ReadRegisters
    <3>2. i # SectionEnd(f)
      BY <1>1, <2>1, <3>1, SectionIs DEF Heads
    <3>3. i \in Section(f)
      BY <1>1, <3>1, <3>2, SectionIs DEF Section
    <3>4. QED
      BY <2>1, <3>3 DEF Entries, Readable
  <2>2. ASSUME NEW i \in Entries(f) PROVE i \in ReadRegisters(f)
    BY <1>1, <1>2, SectionIs DEF Entries, Section, ReadRegisters
  <2>3. QED
    BY <2>1, <2>2 DEF Entries
<1>4. QED
  BY <1>3 DEF CountReviseRounds

(* A plain entry is the one entry more, and the section can still be read. *)
LEMMA OneMore ==
  ASSUME NEW f \in Seq(Line), Readable(f), NEW g \in Guidance, Plain(g)
  PROVE  LET s == AppendReviseEntry(f, g) IN
         /\ s \in Seq(Line) /\ Readable(s)
         /\ Cardinality(Entries(s)) = Cardinality(Entries(f)) + 1
<1> DEFINE s == AppendReviseEntry(f, g)
<1>1. HasRegisters(f)
  BY DEF Readable
<1>0. PICK h \in 1 .. Len(f) : h = Heading(f)
  BY <1>1, SectionIs
<1>2. PICK e \in h + 1 .. Len(f) + 1 : h = Heading(f) /\ e = SectionEnd(f)
  BY <1>1, <1>0, SectionIs
<1>3. /\ f[h] = "registers" /\ \A k \in 1 .. h - 1 : f[k] # "registers"
      /\ e \in 1 .. Len(f) => f[e] \in Heads
      /\ \A k \in h + 1 .. e - 1 : f[k] \notin Heads \cup {"inline", "revise##"}
      /\ Section(f) = h + 1 .. e - 1
  <2>1. /\ e \in 1 .. Len(f) => f[e] \in Heads
        /\ \A k \in h + 1 .. e - 1 : f[k] \notin Heads
        /\ Section(f) = h + 1 .. e - 1
    BY <1>1, <1>2, SectionIs DEF Section
  <2>2. \A k \in h + 1 .. e - 1 : f[k] \notin {"inline", "revise##"}
    BY <2>1 DEF Readable
  <2>3. f[h] = "registers" /\ \A k \in 1 .. h - 1 : f[k] # "registers"
    BY <1>1, <1>2, HeadingIs
  <2>4. QED
    BY <2>1, <2>2, <2>3
<1>4. PICK i \in h + 1 .. Len(f) + 1, n \in {0, 1} :
        /\ Place(f, i, n) /\ i + n <= Len(f) + 1
        /\ n = 1 => f[i] = "empty"
        /\ s \in Seq(Line) /\ Len(s) = Len(f) + Len(g) - n
        /\ \A k \in 1 .. i - 1 : s[k] = f[k]
        /\ \A k \in 1 .. Len(g) : s[i + k - 1] = Entry(g)[k]
        /\ \A k \in i + n .. Len(f) : s[k + Len(g) - n] = f[k]
  BY <1>1, <1>2, AppendIs
<1>5. /\ Len(g) \in Nat \ {0} /\ s[i] = "revise"
      /\ \A k \in 2 .. Len(g) : s[i + k - 1] = g[k]
  <2>1. /\ Len(g) \in Nat \ {0} /\ Entry(g)[1] = "revise"
        /\ \A k \in 2 .. Len(g) : Entry(g)[k] = g[k]
    BY EntryIs
  <2>2. s[i] = Entry(g)[1]
    <3>1. PICK k \in 1 .. Len(g) : k = 1
      BY <2>1
    <3>2. i + k - 1 = i
      BY <3>1
    <3>3. s[i + k - 1] = Entry(g)[k]
      BY <1>4
    <3>4. QED
      BY <3>1, <3>2, <3>3
  <2>3. QED
    BY <1>4, <2>1, <2>2
<1>6. /\ n = 0 => i = e /\ ~ (h < Len(f) /\ f[h + 1] = "empty")
      /\ n = 1 => i = h + 1 /\ i < e /\ HasEmptyMarker(f) /\ Entries(f) = {}
  <2>1. n = 0 => i = e /\ ~ HasEmptyMarker(f)
    BY <1>2, <1>4 DEF Place
  <2>2. n = 1 => HasEmptyMarker(f) /\ i = h + 1
    BY <1>2, <1>4 DEF Place
  <2>3. n = 1 => i # e
    BY <1>3, <1>4, <2>2 DEF Heads
  <2>4. HasEmptyMarker(f) <=> h < Len(f) /\ f[h + 1] = "empty"
    BY <1>1, <1>2 DEF HasEmptyMarker
  <2>5. QED
    BY <2>1, <2>2, <2>3, <2>4 DEF Readable
<1> HIDE DEF s
<1>7. HasRegisters(s) /\ Heading(s) = h
  <2>1. h \in 1 .. Len(s) /\ s[h] = "registers" /\ \A k \in 1 .. h - 1 : s[k] # "registers"
    BY <1>3, <1>4, <1>5
  <2>2. QED
    BY <1>4, <2>1, HeadingUnique
<1>8. PICK z \in h + 1 .. Len(s) + 1 :
        /\ z = SectionEnd(s) /\ Section(s) = h + 1 .. z - 1
        /\ z \in 1 .. Len(s) => s[z] \in Heads
        /\ \A k \in h + 1 .. z - 1 : s[k] \notin Heads
  BY <1>4, <1>7, SectionIs DEF Section
<1>9. \A k \in h + 1 .. i - 1 : s[k] = f[k] /\ k \in h + 1 .. e - 1
  BY <1>4, <1>6
<1>10. i < z
  <2>1. \A k \in h + 1 .. i : s[k] \notin Heads
    <3> TAKE k \in h + 1 .. i
    <3>1. k = i \/ k \in h + 1 .. i - 1
      OBVIOUS
    <3>2. QED
      BY <1>3, <1>5, <1>9, <3>1 DEF Heads
  <2>2. i <= Len(s)
    BY <1>4, <1>5
  <2>3. QED
    BY <1>8, <2>1, <2>2
<1>11. ASSUME NEW k \in i + 1 .. z - 1
       PROVE  s[k] \notin {"inline", "revise##", "revise"}
  <2>1. CASE k <= i + Len(g) - 1
    <3>1. PICK m \in 2 .. Len(g) : k = i + m - 1
      <4>1. k - i + 1 \in 2 .. Len(g) /\ k = i + (k - i + 1) - 1
        BY <1>5, <2>1
      <4>2. QED
        BY <4>1
    <3>2. s[k] = g[m] /\ g[m] # "revise##"
      <4>1. s[k] = g[m]
        BY <1>5, <3>1
      <4>2. g \in Seq({"head", "revise", "inline", "text"})
        BY RegisterAssumption DEF RegisterAssumption
      <4>3. QED
        BY <4>1, <4>2, ElementOfSeq
    <3>3. \A j \in 2 .. m - 1 : g[j] # "head"
      <4> TAKE j \in 2 .. m - 1
      <4>1. j \in 2 .. Len(g) /\ i + j - 1 \in h + 1 .. z - 1
        BY <1>5, <3>1
      <4>2. s[i + j - 1] = g[j] /\ s[i + j - 1] \notin Heads
        BY <1>5, <1>8, <4>1
      <4>3. QED
        BY <4>2 DEF Heads
    <3>4. QED
      BY <3>2, <3>3 DEF Plain
  <2>2. CASE ~ (k <= i + Len(g) - 1)
    <3>1. PICK m \in i + n .. Len(f) : k = m + Len(g) - n
      <4>1. k - Len(g) + n \in i + n .. Len(f) /\ k = (k - Len(g) + n) + Len(g) - n
        <5>1. Len(f) \in Nat /\ Len(g) \in Nat /\ Len(s) = Len(f) + Len(g) - n /\ z <= Len(s) + 1
          BY <1>4, <1>5
        <5>2. QED
          BY <2>2, <5>1
      <4>2. QED
        BY <4>1
    <3>2. s[k] = f[m]
      BY <1>4, <3>1
    <3>3. m < e
      <4>1. CASE e <= Len(f)
        <5>1. e \in i + n .. Len(f)
          BY <1>4, <1>6, <4>1
        <5>2. s[e + Len(g) - n] \in Heads
          BY <1>3, <1>4, <5>1
        <5>3. e <= m => e + Len(g) - n \in h + 1 .. z - 1
          BY <1>5, <3>1, <5>1
        <5>4. QED
          BY <1>8, <5>2, <5>3
      <4>2. QED
        BY <4>1
    <3>4. n = 1 /\ m \in h + 1 .. e - 1
      BY <1>6, <3>1, <3>3
    <3>5. QED
      BY <1>3, <1>6, <3>2, <3>4 DEF Entries
  <2>3. QED
    BY <2>1, <2>2
<1>12. Readable(s)
  <2>1. \A k \in Section(s) : s[k] \notin {"inline", "revise##"}
    <3> SUFFICES ASSUME NEW k \in h + 1 .. z - 1 PROVE s[k] \notin {"inline", "revise##"}
      BY <1>8
    <3>1. k < i \/ k = i \/ k \in i + 1 .. z - 1
      OBVIOUS
    <3>2. QED
      BY <1>3, <1>5, <1>11, <1>9, <3>1
  <2>2. s[h + 1] # "empty"
    <3>1. CASE i = h + 1
      BY <1>5, <3>1
    <3>2. CASE i # h + 1
      <4>1. n = 0 /\ h + 1 \in h + 1 .. i - 1 /\ h < Len(f)
        BY <1>6, <3>2
      <4>2. QED
        BY <1>6, <1>9, <4>1
    <3>3. QED
      BY <3>1, <3>2
  <2>3. QED
    BY <1>7, <2>1, <2>2 DEF Readable, HasEmptyMarker
<1>13. Entries(s) = Entries(f) \cup {i}
  <2>1. \A k \in Entries(s) : k \in Entries(f) \cup {i}
    <3> SUFFICES ASSUME NEW k \in h + 1 .. z - 1, s[k] = "revise", k # i
                 PROVE  k \in Entries(f)
      BY <1>8 DEF Entries
    <3>1. k \in h + 1 .. i - 1
      BY <1>11
    <3>2. QED
      BY <1>3, <1>9, <3>1 DEF Entries
  <2>2. i \in Entries(s)
    BY <1>5, <1>8, <1>10 DEF Entries
  <2>3. \A k \in Entries(f) : k \in Entries(s)
    <3> SUFFICES ASSUME NEW k \in Entries(f) PROVE k \in Entries(s)
      OBVIOUS
    <3>1. n = 0 /\ k \in h + 1 .. i - 1 /\ f[k] = "revise"
      BY <1>3, <1>6 DEF Entries
    <3>2. QED
      BY <1>8, <1>10, <1>9, <3>1 DEF Entries
  <2>4. QED
    BY <2>1, <2>2, <2>3
<1>14. i \notin Entries(f)
  BY <1>3, <1>6 DEF Entries
<1>15. IsFiniteSet(Entries(f))
  <2>1. IsFiniteSet(h + 1 .. e - 1)
    BY FS_Interval
  <2>2. QED
    BY <1>3, <2>1, FS_Subset DEF Entries
<1>16. QED
  BY <1>4, <1>12, <1>13, <1>14, <1>15, FS_AddElement DEF s

(* Guidance that neither cuts nor fakes an entry is plain.                 *)
LEMMA PlainIs == ASSUME NEW g \in Guidance, Unquoted(g), ~ Cuts(g) PROVE Plain(g)
<1> DEFINE e == Entry(g)
<1>1. /\ Len(g) \in Nat \ {0} /\ e[1] \in {"revise", "revise##"}
      /\ e \in Seq(Line) /\ Len(e) = Len(g)
      /\ e[1] = "revise" => g[1] \in {"text", "revise"}
      /\ \A k \in 2 .. Len(g) : e[k] = g[k] /\ g[k] # "revise##"
  BY EntryIs
<1>2. ASSUME NEW i \in 1 .. Len(g), e[i] \in {"revise##", "inline"}
      PROVE  \E k \in 1 .. i - 1 : e[k] = "head"
  <2>1. i \in DOMAIN e
    BY <1>1
  <2>2. QED
    BY <1>2, <2>1 DEF Cuts
<1> HIDE DEF e
<1>3. e[1] = "revise"
  <2>1. 1 \in 1 .. Len(g) /\ 1 .. 1 - 1 = {}
    BY <1>1
  <2>2. QED
    BY <1>1, <1>2, <2>1
<1>4. ASSUME NEW i \in 2 .. Len(g), \E k \in 1 .. i - 1 : e[k] = "head"
      PROVE  \E k \in 2 .. i - 1 : g[k] = "head"
  <2>1. PICK k \in 1 .. i - 1 : e[k] = "head"
    BY <1>4
  <2>2. k # 1
    BY <1>3, <2>1
  <2>3. k \in 2 .. i - 1 /\ k \in 2 .. Len(g)
    BY <1>1, <2>2
  <2>4. QED
    BY <1>1, <2>1, <2>3
<1>5. ASSUME NEW i \in 2 .. Len(g), g[i] = "inline"
      PROVE  \E k \in 2 .. i - 1 : g[k] = "head"
  BY <1>1, <1>2, <1>4, <1>5
<1>6. ASSUME NEW i \in 2 .. Len(g), g[i] = "revise"
      PROVE  \E k \in 2 .. i - 1 : g[k] = "head"
  <2>1. PICK k \in 1 .. i - 1 : e[k] \in Hashes
    BY <1>6 DEF Unquoted, e
  <2>2. k # 1
    BY <1>3, <2>1 DEF Hashes
  <2>3. k \in 2 .. Len(g) /\ k \in 2 .. i - 1
    BY <1>1, <2>2
  <2>4. CASE g[k] = "head"
    BY <2>3, <2>4
  <2>5. CASE g[k] = "inline"
    <3>1. PICK j \in 2 .. k - 1 : g[j] = "head"
      BY <1>5, <2>3, <2>5
    <3>2. j \in 2 .. i - 1
      BY <2>3
    <3>3. QED
      BY <3>1, <3>2
  <2>6. QED
    BY <1>1, <2>1, <2>3, <2>4, <2>5 DEF Hashes
<1>7. QED
  BY <1>1, <1>3, <1>5, <1>6 DEF Plain

(* Where reading ends: at a line with ##, which no other comes before.     *)
LEMMA CutIs ==
  ASSUME NEW f \in Seq(Line), HasRegisters(f), NEW h \in 1 .. Len(f), h = Heading(f),
         NEW c \in h + 1 .. Len(f), f[c] \in {"inline", "revise##"},
         \A k \in h + 1 .. c - 1 : f[k] \notin WithHashes
  PROVE  /\ Cut(f) = c /\ c < SectionEnd(f)
         /\ CountReviseRounds(f)
              = Cardinality({k \in h + 1 .. c : f[k] \in {"revise", "revise##"}})
<1>1. Cut(f) = c
  <2>1. h \in 0 .. Len(f) /\ c \in h + 1 .. Len(f) + 1 /\ f[c] \in WithHashes
    BY DEF WithHashes
  <2>2. QED
    BY <2>1, FirstAfterUnique DEF Cut
<1>2. c < SectionEnd(f)
  <2>1. /\ SectionEnd(f) \in h + 1 .. Len(f) + 1
        /\ SectionEnd(f) \in 1 .. Len(f) => f[SectionEnd(f)] \in Heads
    BY SectionIs
  <2>2. \A k \in h + 1 .. c : f[k] \notin Heads
    <3> TAKE k \in h + 1 .. c
    <3>1. k = c \/ k \in h + 1 .. c - 1
      OBVIOUS
    <3>2. QED
      BY <3>1 DEF Heads, WithHashes
  <2>3. QED
    BY <2>1, <2>2
<1>3. {k \in ReadRegisters(f) : f[k] \in {"revise", "revise##"}}
        = {k \in h + 1 .. c : f[k] \in {"revise", "revise##"}}
  <2>1. ReadRegisters(f) = {k \in DOMAIN f : h < k /\ k <= c}
    BY <1>1 DEF ReadRegisters, Cut
  <2>2. {k \in DOMAIN f : h < k /\ k <= c} = h + 1 .. c
    <3>1. DOMAIN f = 1 .. Len(f) /\ Len(f) \in Nat
      OBVIOUS
    <3>2. QED
      BY <3>1
  <2>3. QED
    BY <2>1, <2>2
<1>4. QED
  BY <1>1, <1>2, <1>3 DEF CountReviseRounds

(* An entry goes behind the place where reading ends: it is not counted.   *)
LEMMA StaysClosed ==
  ASSUME NEW f \in Seq(Line), Closed(f), NEW g \in Guidance
  PROVE  LET s == AppendReviseEntry(f, g) IN
         s \in Seq(Line) /\ Closed(s) /\ CountReviseRounds(s) = CountReviseRounds(f)
<1> DEFINE s == AppendReviseEntry(f, g)
<1>1. HasRegisters(f) /\ ~ HasEmptyMarker(f) /\ Cut(f) < SectionEnd(f)
  BY DEF Closed
<1>2. PICK h \in 1 .. Len(f) :
        /\ h = Heading(f) /\ f[h] = "registers" /\ \A k \in 1 .. h - 1 : f[k] # "registers"
  BY <1>1, HeadingIs
<1>3. /\ SectionEnd(f) \in h + 1 .. Len(f) + 1 /\ Section(f) = h + 1 .. SectionEnd(f) - 1
      /\ \A k \in Section(f) : f[k] \notin Heads
  BY <1>1, <1>2, SectionIs DEF Section
<1>4. PICK c \in h + 1 .. Len(f) :
        /\ c = Cut(f) /\ c < SectionEnd(f) /\ f[c] \in {"inline", "revise##"}
        /\ \A k \in h + 1 .. c - 1 : f[k] \notin WithHashes
  <2>1. /\ Cut(f) \in h + 1 .. Len(f) + 1
        /\ Cut(f) \in 1 .. Len(f) => f[Cut(f)] \in WithHashes
        /\ \A k \in h + 1 .. Cut(f) - 1 : f[k] \notin WithHashes
    BY <1>2, FirstAfterIs DEF Cut
  <2>2. Cut(f) \in h + 1 .. Len(f) /\ Cut(f) \in Section(f) /\ Cut(f) \in 1 .. Len(f)
    BY <1>1, <1>3, <2>1
  <2>3. f[Cut(f)] \in {"inline", "revise##"}
    BY <1>3, <2>1, <2>2 DEF Heads, WithHashes
  <2>4. QED
    BY <1>1, <2>1, <2>2, <2>3
<1>5. PICK i \in h + 1 .. Len(f) + 1, n \in {0, 1} :
        /\ Place(f, i, n) /\ s \in Seq(Line) /\ Len(s) = Len(f) + Len(g) - n
        /\ \A k \in 1 .. i - 1 : s[k] = f[k]
  BY <1>1, <1>2, AppendIs
<1>6. n = 0 /\ i = SectionEnd(f) /\ c < i /\ Len(g) \in Nat \ {0}
  BY <1>1, <1>4, <1>5, EntryIs DEF Place
<1> HIDE DEF s
<1>7. h \in 1 .. Len(s) /\ c \in h + 1 .. Len(s) /\ \A k \in 1 .. c : s[k] = f[k]
  BY <1>5, <1>6
<1>8. HasRegisters(s) /\ Heading(s) = h
  <2>1. s[h] = "registers" /\ \A k \in 1 .. h - 1 : s[k] # "registers"
    BY <1>2, <1>7
  <2>2. QED
    BY <1>5, <1>7, <2>1, HeadingUnique
<1>9. s[c] \in {"inline", "revise##"} /\ \A k \in h + 1 .. c - 1 : s[k] \notin WithHashes
  BY <1>4, <1>7
<1>10. /\ Cut(s) = c /\ c < SectionEnd(s)
       /\ CountReviseRounds(s)
            = Cardinality({k \in h + 1 .. c : s[k] \in {"revise", "revise##"}})
  BY <1>5, <1>7, <1>8, <1>9, CutIs
<1>11. CountReviseRounds(f)
         = Cardinality({k \in h + 1 .. c : f[k] \in {"revise", "revise##"}})
  BY <1>1, <1>2, <1>4, CutIs
<1>12. {k \in h + 1 .. c : s[k] \in {"revise", "revise##"}}
         = {k \in h + 1 .. c : f[k] \in {"revise", "revise##"}}
  BY <1>7
<1>13. ~ HasEmptyMarker(s)
  <2>1. h < Len(f) /\ s[h + 1] = f[h + 1]
    BY <1>4, <1>7
  <2>2. f[h + 1] # "empty"
    BY <1>1, <1>2, <2>1 DEF HasEmptyMarker
  <2>3. QED
    BY <1>8, <2>1, <2>2 DEF HasEmptyMarker
<1>14. QED
  BY <1>5, <1>8, <1>10, <1>11, <1>12, <1>13 DEF Closed, s

(* An entry whose guidance cuts is the last that is counted.               *)
LEMMA CutsOff ==
  ASSUME NEW f \in Seq(Line), Readable(f), NEW g \in Guidance, Unquoted(g), Cuts(g)
  PROVE  LET s == AppendReviseEntry(f, g) IN
         /\ s \in Seq(Line) /\ Closed(s)
         /\ CountReviseRounds(s) = Cardinality(Entries(f)) + 1
<1> DEFINE s == AppendReviseEntry(f, g)
<1>1. PICK e \in Seq(Line) :
        /\ e = Entry(g) /\ Len(e) = Len(g) /\ Len(g) \in Nat \ {0}
        /\ e[1] \in {"revise", "revise##"}
        /\ \A k \in 1 .. Len(g) : e[k] # "registers"
        /\ \A k \in 2 .. Len(g) : e[k] = g[k] /\ g[k] # "revise##"
  BY EntryIs
<1>2. PICK m \in 1 .. Len(g) :
        /\ e[m] \in {"inline", "revise##"}
        /\ \A k \in 1 .. m - 1 : e[k] \notin Hashes
  <2> DEFINE x == FirstAfter(e, 0, Hashes)
  <2>1. /\ x \in 0 + 1 .. Len(e) + 1 /\ (x \in 1 .. Len(e) => e[x] \in Hashes)
        /\ \A k \in 0 + 1 .. x - 1 : e[k] \notin Hashes
    <3>1. 0 \in 0 .. Len(e)
      BY <1>1
    <3>2. QED
      BY <3>1, FirstAfterIs
  <2> HIDE DEF x
  <2>2. PICK p \in 1 .. Len(e) :
          e[p] \in {"revise##", "inline"} /\ \A k \in 1 .. p - 1 : e[k] # "head"
    BY <1>1 DEF Cuts
  <2>3. x <= p
    BY <2>1, <2>2 DEF Hashes
  <2>4. x \in 1 .. Len(g) /\ x \in 1 .. Len(e)
    BY <1>1, <2>1, <2>2, <2>3
  <2>5. e[x] # "head"
    BY <2>1, <2>2, <2>3
  <2>6. QED
    BY <2>1, <2>4, <2>5 DEF Hashes
<1>3. HasRegisters(f)
  BY DEF Readable
<1>4. PICK h \in 1 .. Len(f) :
        /\ h = Heading(f) /\ f[h] = "registers" /\ \A k \in 1 .. h - 1 : f[k] # "registers"
  BY <1>3, HeadingIs
<1>5. PICK z \in h + 1 .. Len(f) + 1 :
        /\ z = SectionEnd(f) /\ Section(f) = h + 1 .. z - 1
        /\ z \in 1 .. Len(f) => f[z] \in Heads
        /\ \A k \in h + 1 .. z - 1 : f[k] \notin WithHashes
  <2>1. /\ SectionEnd(f) \in h + 1 .. Len(f) + 1 /\ Section(f) = h + 1 .. SectionEnd(f) - 1
        /\ SectionEnd(f) \in 1 .. Len(f) => f[SectionEnd(f)] \in Heads
        /\ \A k \in Section(f) : f[k] \notin Heads
    BY <1>3, <1>4, SectionIs DEF Section
  <2>2. \A k \in Section(f) : f[k] \notin WithHashes
    BY <2>1 DEF Readable, Heads, WithHashes
  <2>3. QED
    BY <2>1, <2>2
<1>6. PICK i \in h + 1 .. Len(f) + 1, n \in {0, 1} :
        /\ Place(f, i, n)
        /\ n = 1 => f[i] = "empty"
        /\ s \in Seq(Line) /\ Len(s) = Len(f) + Len(g) - n
        /\ \A k \in 1 .. i - 1 : s[k] = f[k]
        /\ \A k \in 1 .. Len(g) : s[i + k - 1] = e[k]
        /\ i + n <= Len(f) + 1
  BY <1>1, <1>3, <1>4, AppendIs
<1> HIDE DEF s
<1>7. /\ i <= z
      /\ n = 0 => i = z /\ ~ HasEmptyMarker(f)
      /\ n = 1 => i = h + 1 /\ Entries(f) = {}
  <2>1. n = 0 => i = z /\ ~ HasEmptyMarker(f)
    BY <1>5, <1>6 DEF Place
  <2>2. n = 1 => i = h + 1 /\ Entries(f) = {}
    BY <1>4, <1>6 DEF Place, Readable
  <2>3. QED
    BY <2>1, <2>2
<1>8. PICK c \in h + 1 .. Len(s) : c = i + m - 1 /\ i <= c /\ i <= Len(s)
  BY <1>1, <1>6
<1>9. /\ s[c] \in {"inline", "revise##"}
      /\ \A k \in h + 1 .. i - 1 : s[k] = f[k] /\ s[k] \notin WithHashes
      /\ \A k \in i .. c - 1 : s[k] \notin WithHashes
  <2>1. s[c] \in {"inline", "revise##"}
    BY <1>2, <1>6, <1>8
  <2>2. \A k \in h + 1 .. i - 1 : s[k] = f[k] /\ s[k] \notin WithHashes
    BY <1>5, <1>6, <1>7
  <2>3. ASSUME NEW k \in i .. c - 1 PROVE s[k] \notin WithHashes
    <3>1. PICK j \in 1 .. m - 1 : k = i + j - 1
      <4>1. k - i + 1 \in 1 .. m - 1 /\ k = i + (k - i + 1) - 1
        BY <1>8
      <4>2. QED
        BY <4>1
    <3>2. j \in 1 .. Len(g)
      BY <1>1
    <3>3. s[k] = e[j] /\ e[j] # "registers" /\ e[j] \notin Hashes
      BY <1>1, <1>2, <1>6, <3>1, <3>2
    <3>4. QED
      BY <3>3 DEF Hashes, WithHashes
  <2>4. QED
    BY <2>1, <2>2, <2>3
<1>10. HasRegisters(s) /\ Heading(s) = h /\ h \in 1 .. Len(s)
  <2>0. h \in 1 .. i - 1 /\ h \in 1 .. Len(s)
    BY <1>8
  <2>1. s[h] = "registers" /\ \A k \in 1 .. h - 1 : s[k] # "registers"
    <3>1. \A k \in 1 .. i - 1 : s[k] = f[k]
      BY <1>6
    <3>2. s[h] = f[h] /\ f[h] = "registers"
      BY <1>4, <2>0, <3>1, Zenon
    <3>3. ASSUME NEW k \in 1 .. h - 1 PROVE s[k] # "registers"
      <4>1. k \in 1 .. i - 1
        BY <2>0
      <4>2. s[k] = f[k] /\ f[k] # "registers"
        BY <1>4, <3>1, <4>1, Zenon
      <4>3. QED
        BY <4>2
    <3>4. QED
      BY <3>2, <3>3
  <2>2. QED
    BY <1>6, <2>0, <2>1, HeadingUnique
<1>11. /\ Cut(s) = c /\ c < SectionEnd(s)
       /\ CountReviseRounds(s)
            = Cardinality({k \in h + 1 .. c : s[k] \in {"revise", "revise##"}})
  <2>1. \A k \in h + 1 .. c - 1 : s[k] \notin WithHashes
    <3> TAKE k \in h + 1 .. c - 1
    <3>1. k \in h + 1 .. i - 1 \/ k \in i .. c - 1
      OBVIOUS
    <3>2. QED
      BY <1>9, <3>1
  <2>2. QED
    BY <1>6, <1>9, <1>10, <2>1, CutIs
<1>12. s[i] = e[1] /\ s[i] \in {"revise", "revise##"}
  <2>1. 1 \in 1 .. Len(g) /\ i + 1 - 1 = i
    BY <1>1
  <2>2. QED
    BY <1>1, <1>6, <2>1
<1>13. ASSUME NEW k \in i + 1 .. c PROVE s[k] \notin {"revise", "revise##"}
  <2>1. PICK j \in 2 .. m : k = i + j - 1
    <3>1. k - i + 1 \in 2 .. m /\ k = i + (k - i + 1) - 1
      BY <1>8
    <3>2. QED
      BY <3>1
  <2>2. j \in 2 .. Len(g) /\ j \in 1 .. Len(g)
    BY <1>1
  <2>3. s[k] = e[j] /\ e[j] = g[j] /\ g[j] # "revise##"
    BY <1>1, <1>6, <2>1, <2>2
  <2>4. g[j] # "revise"
    <3>1. g[j] = "revise" => \E q \in 1 .. j - 1 : e[q] \in Hashes
      BY <1>1, <2>2 DEF Unquoted
    <3>2. \A q \in 1 .. j - 1 : q \in 1 .. m - 1
      BY <2>1
    <3>3. QED
      BY <1>2, <3>1, <3>2
  <2>5. QED
    BY <2>3, <2>4
<1>14. {k \in h + 1 .. c : s[k] \in {"revise", "revise##"}} = Entries(f) \cup {i}
  <2>1. ASSUME NEW k \in h + 1 .. c, s[k] \in {"revise", "revise##"}
        PROVE  k \in Entries(f) \cup {i}
    <3>1. k \in h + 1 .. i - 1 \/ k = i \/ k \in i + 1 .. c
      OBVIOUS
    <3>2. CASE k \in h + 1 .. i - 1
      <4>1. k \in Section(f) /\ s[k] = f[k] /\ f[k] # "revise##"
        BY <1>5, <1>7, <1>9, <3>2 DEF WithHashes
      <4>2. QED
        BY <2>1, <4>1 DEF Entries
    <3>3. QED
      BY <1>13, <2>1, <3>1, <3>2
  <2>2. i \in h + 1 .. c
    BY <1>8
  <2>3. ASSUME NEW k \in Entries(f) PROVE k \in h + 1 .. c /\ s[k] = "revise"
    <3>1. n = 0 /\ k \in h + 1 .. i - 1 /\ f[k] = "revise"
      BY <1>5, <1>7, <2>3 DEF Entries
    <3>2. QED
      BY <1>8, <1>9, <3>1
  <2>4. QED
    BY <1>12, <2>1, <2>2, <2>3
<1>15. i \notin Entries(f) /\ IsFiniteSet(Entries(f))
  <2>1. i \notin Entries(f)
    BY <1>5, <1>7 DEF Entries
  <2>2. IsFiniteSet(h + 1 .. z - 1)
    BY FS_Interval
  <2>3. QED
    BY <1>5, <2>1, <2>2, FS_Subset DEF Entries
<1>16. Cardinality(Entries(f) \cup {i}) = Cardinality(Entries(f)) + 1
  BY <1>15, FS_AddElement
<1>17. ~ HasEmptyMarker(s)
  <2>1. s[h + 1] # "empty"
    <3>1. CASE i = h + 1
      BY <1>12, <3>1
    <3>2. CASE i # h + 1
      <4>1. n = 0 /\ h + 1 \in h + 1 .. i - 1 /\ h < Len(f)
        BY <1>6, <1>7, <3>2
      <4>2. f[h + 1] # "empty"
        BY <1>3, <1>4, <1>7, <4>1 DEF HasEmptyMarker
      <4>3. QED
        BY <1>9, <4>1, <4>2
    <3>3. QED
      BY <3>1, <3>2
  <2>2. QED
    BY <1>10, <2>1 DEF HasEmptyMarker
<1>18. QED
  BY <1>6, <1>10, <1>11, <1>14, <1>16, <1>17 DEF Closed, s

-----------------------------------------------------------------------------
(* The file keeps count of the rounds.                                     *)

(* Every section is fresh to begin with, and no guidance fakes an entry.   *)
NothingFaked == (\A f \in Files : Fresh(f)) /\ (\A g \in Guidance : Unquoted(g))

LEMMA CountInit == ASSUME NothingFaked PROVE Init => CInv
<1> SUFFICES ASSUME Init PROVE CInv
  OBVIOUS
<1>1. file \in Seq(Line) /\ Fresh(file)
  BY RegisterAssumption DEF Init, NothingFaked, RegisterAssumption
<1>2. Cardinality(Entries(file)) = 0
  BY <1>1, FS_EmptySet DEF Fresh
<1>3. rounds = 0 /\ cut = 0 /\ status # "BLOCKED" /\ 0 <= MaxReviseRounds
  BY RegisterAssumption DEF Init, RegisterAssumption
<1>4. QED
  BY <1>1, <1>2, <1>3 DEF CInv, Fresh, RoundsLimited

LEMMA CountNext == ASSUME NothingFaked, CInv, [Next]_vars PROVE CInv'
<1>1. MaxReviseRounds \in Nat
  BY RegisterAssumption DEF RegisterAssumption
<1>2. ASSUME UNCHANGED <<file, rounds, cut>>,
             status' = "BLOCKED" => status = "BLOCKED" \/ CountReviseRounds(file) + 1 > MaxReviseRounds
      PROVE  CInv'
  <2>1. CountReviseRounds(file) = IF cut = 0 THEN rounds ELSE cut
    BY CountIs DEF CInv
  <2>2. RoundsLimited'
    BY <1>1, <1>2, <2>1 DEF CInv, RoundsLimited
  <2>3. /\ Readable(file') <=> Readable(file)
        /\ Cardinality(Entries(file')) = Cardinality(Entries(file))
        /\ Closed(file') <=> Closed(file)
        /\ CountReviseRounds(file') = CountReviseRounds(file)
    <3>1. file' = file
      BY <1>2
    <3>2. QED
      BY <3>1
  <2>4. QED
    BY <1>2, <2>2, <2>3 DEF CInv
<1>3. ASSUME NEW g \in Guidance, CountReviseRounds(file) + 1 <= MaxReviseRounds,
             file' = AppendReviseEntry(file, g), status' = "PENDING", rounds' = rounds + 1,
             cut' = IF cut = 0 /\ Cuts(g) THEN rounds' ELSE cut
      PROVE  CInv'
  <2>1. Unquoted(g)
    BY DEF NothingFaked
  <2>2. CASE cut = 0 /\ ~ Cuts(g)
    <3>1. /\ file' \in Seq(Line) /\ Readable(file')
          /\ Cardinality(Entries(file')) = Cardinality(Entries(file)) + 1
      BY <1>3, <2>1, <2>2, PlainIs, OneMore DEF CInv
    <3>2. CountReviseRounds(file) = rounds
      BY <2>2, CountIs DEF CInv
    <3>3. QED
      BY <1>1, <1>3, <2>2, <3>1, <3>2 DEF CInv, RoundsLimited
  <2>3. CASE cut = 0 /\ Cuts(g)
    <3>1. /\ file' \in Seq(Line) /\ Closed(file')
          /\ CountReviseRounds(file') = Cardinality(Entries(file)) + 1
      BY <1>3, <2>1, <2>3, CutsOff DEF CInv
    <3>2. CountReviseRounds(file) = rounds
      BY <2>3, CountIs DEF CInv
    <3>3. QED
      BY <1>1, <1>3, <2>3, <3>1, <3>2 DEF CInv, RoundsLimited
  <2>4. CASE cut # 0
    <3>1. /\ file' \in Seq(Line) /\ Closed(file')
          /\ CountReviseRounds(file') = CountReviseRounds(file)
      BY <1>3, <2>4, StaysClosed DEF CInv
    <3>2. QED
      BY <1>1, <1>3, <2>4, <3>1 DEF CInv, RoundsLimited
  <2>5. QED
    BY <2>2, <2>3, <2>4
<1>4. ASSUME NEW g \in Guidance, NEW simple \in BOOLEAN, Flag(g, simple) PROVE CInv'
  <2>1. \/ UNCHANGED <<file, rounds, cut>> /\ CountReviseRounds(file) + 1 > MaxReviseRounds
        \/ /\ CountReviseRounds(file) + 1 <= MaxReviseRounds
           /\ file' = AppendReviseEntry(file, g) /\ status' = "PENDING"
           /\ rounds' = rounds + 1 /\ cut' = IF cut = 0 /\ Cuts(g) THEN rounds' ELSE cut
    BY <1>4 DEF Flag
  <2>2. QED
    BY <1>2, <1>3, <2>1
<1>5. CASE Repaired
  BY <1>2, <1>5 DEF Repaired
<1>6. CASE Stopped \/ UNCHANGED vars
  BY <1>2, <1>6 DEF Stopped, vars
<1>7. QED
  BY <1>4, <1>5, <1>6 DEF Next

(* At most MAX_REVISE_ROUNDS repairs and BLOCKED after the last, until the *)
(* guidance of one cuts what is read: _flag_one_for_revise finds every     *)
(* entry it wrote up to that one, no other, and none that comes later.     *)
THEOREM RepairsLimited == ASSUME NothingFaked PROVE Spec => []RoundsLimited
<1>1. Init => CInv
  BY CountInit
<1>2. CInv /\ [Next]_vars => CInv'
  BY CountNext
<1>3. CInv => RoundsLimited
  BY DEF CInv
<1>4. QED
  BY <1>1, <1>2, <1>3, PTL DEF Spec

-----------------------------------------------------------------------------
(* Types, and what an entry leaves of the file.                            *)

LEMMA FileIsLines == Spec => [](file \in Seq(Line))
<1>1. Init => file \in Seq(Line)
  BY RegisterAssumption DEF Init, RegisterAssumption
<1>2. file \in Seq(Line) /\ [Next]_vars => (file \in Seq(Line))'
  <2> SUFFICES ASSUME file \in Seq(Line), [Next]_vars PROVE file' \in Seq(Line)
    OBVIOUS
  <2>1. ASSUME NEW g \in Guidance, NEW simple \in BOOLEAN, Flag(g, simple)
        PROVE  file' \in Seq(Line)
    <3>1. CASE file' = file
      BY <3>1
    <3>2. CASE file' = AppendReviseEntry(file, g)
      <4>1. CASE HasRegisters(file)
        BY <3>2, <4>1, AppendIs
      <4>2. CASE ~ HasRegisters(file)
        BY <3>2, <4>2 DEF AppendReviseEntry, HasEmptyMarker
      <4>3. QED
        BY <4>1, <4>2
    <3>3. QED
      BY <2>1, <3>1, <3>2 DEF Flag
  <2>2. QED
    BY <2>1 DEF Next, Repaired, Stopped, vars
<1>3. QED
  BY <1>1, <1>2, PTL DEF Spec

(* A file that stays as it is keeps all it had.                            *)
LEMMA UnchangedKeeps ==
  ASSUME file \in Seq(Line), file' = file
  PROVE  \E i \in 0 .. Len(file), n \in {0, 1} :
           LET before == SubSeq(file, 1, i)
               after  == SubSeq(file, i + 1 + n, Len(file))
           IN  /\ n = 1 => i < Len(file) /\ file[i + 1] = "empty"
               /\ Len(before) + Len(after) <= Len(file')
               /\ IsPrefix(before, file') /\ IsSuffix(after, file')
<1>1. PICK i \in 0 .. Len(file) : i = Len(file) /\ i \in Nat
  <2>1. Len(file) \in Nat
    BY LenProperties
  <2>2. QED
    BY <2>1
<1> DEFINE before == SubSeq(file, 1, i)
           after  == SubSeq(file, i + 1 + 0, Len(file))
<1>2. before = file
  BY <1>1, SubSeqFull
<1>3. after = <<>>
  BY <1>1, SubSeqEmpty
<1>4. IsPrefix(file, file')
  BY <1>1 DEF IsPrefix
<1>5. IsSuffix(<<>>, file')
  <2>1. <<>> \in Seq(Line) /\ Len(<<>>) = 0
    BY EmptySeq
  <2>2. \A a \in Seq(Line) : Len(a) = 0 => IsSuffix(a, file)
    <3>1. SUFFICES ASSUME NEW a \in Seq(Line), Len(a) = 0 PROVE IsSuffix(a, file)
      OBVIOUS
    <3>2. Len(a) <= Len(file) /\ 1 .. Len(a) = {}
      BY <1>1, <3>1
    <3>3. QED
      BY <3>2, SuffixIs
  <2>3. IsSuffix(<<>>, file)
    BY <2>1, <2>2
  <2>4. QED
    BY <2>3
<1>6. Len(before) + Len(after) <= Len(file')
  <2>1. Len(after) = 0
    BY <1>3, EmptySeq
  <2>2. QED
    BY <1>1, <1>2, <2>1
<1> HIDE DEF before, after
<1>7. IsPrefix(before, file') /\ IsSuffix(after, file')
  BY <1>2, <1>3, <1>4, <1>5
<1>8. QED
  <2>1. PICK n \in {0, 1} : n = 0
    OBVIOUS
  <2>2. after = SubSeq(file, i + 1 + n, Len(file))
    BY <2>1 DEF after
  <2>3. n # 1
    BY <2>1
  <2>4. QED
    BY <1>6, <1>7, <2>2, <2>3 DEF before

(* An entry is put between two halves of the file that stay as they were,  *)
(* but for the empty marker, whatever the file and the guidance hold.      *)
LEMMA EntryKeeps ==
  ASSUME file \in Seq(Line), NEW g \in Guidance, file' = AppendReviseEntry(file, g)
  PROVE  \E i \in 0 .. Len(file), n \in {0, 1} :
           LET before == SubSeq(file, 1, i)
               after  == SubSeq(file, i + 1 + n, Len(file))
           IN  /\ n = 1 => i < Len(file) /\ file[i + 1] = "empty"
               /\ Len(before) + Len(after) <= Len(file')
               /\ IsPrefix(before, file') /\ IsSuffix(after, file')
<1>1. CASE ~ HasRegisters(file)
  BY <1>1, UnchangedKeeps DEF AppendReviseEntry, HasEmptyMarker
<1>2. CASE HasRegisters(file)
  <2>1. PICK j \in Heading(file) + 1 .. Len(file) + 1, n \in {0, 1} :
          /\ j + n <= Len(file) + 1 /\ (n = 1 => file[j] = "empty")
          /\ file' \in Seq(Line) /\ Len(file') = Len(file) + Len(g) - n
          /\ \A k \in 1 .. j - 1 : file'[k] = file[k]
          /\ \A k \in j + n .. Len(file) : file'[k + Len(g) - n] = file[k]
    BY <1>2, AppendIs
  <2>2. Heading(file) \in Nat /\ Len(file) \in Nat /\ Len(g) \in Nat \ {0}
    BY <1>2, HeadingIs, EntryIs
  <2>3. PICK i \in 0 .. Len(file) : i = j - 1
    BY <2>1, <2>2
  <2> DEFINE before == SubSeq(file, 1, i)
             after  == SubSeq(file, i + 1 + n, Len(file))
  <2>4. /\ before \in Seq(Line) /\ Len(before) = i
        /\ \A k \in 1 .. i : before[k] = file[k]
    <3>1. \A k \in 1 .. i : file[k] \in Line
      BY <2>2, ElementOfSeq
    <3>2. /\ before \in Seq(Line) /\ Len(before) = IF 1 <= i THEN i - 1 + 1 ELSE 0
          /\ \A k \in 1 .. (i - 1) + 1 : before[k] = file[1 + k - 1]
      BY <3>1, SubSeqProperties
    <3> HIDE DEF before
    <3>3. QED
      BY <3>2
  <2>5. /\ after \in Seq(Line) /\ Len(after) = Len(file) - i - n
        /\ \A k \in 1 .. Len(file) - i - n : after[k] = file[i + n + k]
    <3>1. \A k \in i + 1 + n .. Len(file) : file[k] \in Line
      BY <2>2, ElementOfSeq
    <3>2. /\ after \in Seq(Line)
          /\ Len(after) = IF i + 1 + n <= Len(file) THEN Len(file) - (i + 1 + n) + 1 ELSE 0
          /\ \A k \in 1 .. Len(file) - (i + 1 + n) + 1 : after[k] = file[(i + 1 + n) + k - 1]
      BY <3>1, SubSeqProperties
    <3> HIDE DEF after
    <3>3. Len(file) - (i + 1 + n) + 1 = Len(file) - i - n
      BY <2>2
    <3>4. Len(after) = Len(file) - i - n
      BY <2>1, <2>2, <2>3, <3>2, <3>3
    <3>5. \A k \in 1 .. Len(file) - i - n : (i + 1 + n) + k - 1 = i + n + k
      BY <2>2
    <3>6. QED
      BY <3>2, <3>3, <3>4, <3>5
  <2> HIDE DEF before, after
  <2>6. IsPrefix(before, file')
    <3>1. SubSeq(before, 1, i) = before
      BY <2>4, SubSeqFull
    <3>2. SubSeq(file', 1, i) = before
      <4>1. \A k \in 1 .. i : file'[k] = before[k] /\ file'[k] \in Line
        BY <2>1, <2>3, <2>4, ElementOfSeq
      <4> DEFINE x == SubSeq(file', 1, i)
      <4>2. /\ x \in Seq(Line) /\ Len(x) = IF 1 <= i THEN i - 1 + 1 ELSE 0
            /\ \A k \in 1 .. (i - 1) + 1 : x[k] = file'[1 + k - 1]
        BY <4>1, SubSeqProperties
      <4> HIDE DEF x
      <4>3. Len(x) = i /\ \A k \in 1 .. i : x[k] = before[k]
        BY <4>1, <4>2
      <4>4. x = before
        BY <2>4, <4>2, <4>3, SeqEqual
      <4>5. QED
        BY <4>4 DEF x
    <3>3. i <= Len(file')
      BY <2>1, <2>2, <2>3
    <3>4. QED
      BY <2>4, <3>1, <3>2, <3>3 DEF IsPrefix
  <2>7. Len(before) + Len(after) <= Len(file') /\ Len(after) <= Len(file')
    BY <2>1, <2>2, <2>3, <2>4, <2>5
  <2>8. IsSuffix(after, file')
    <3>1. ASSUME NEW k \in 1 .. Len(after)
          PROVE  after[k] = file'[Len(file') - Len(after) + k]
      <4>1. PICK m \in j + n .. Len(file) : m = i + n + k
        BY <2>1, <2>2, <2>3, <2>5
      <4>2. after[k] = file[m] /\ file'[m + Len(g) - n] = file[m]
        BY <2>1, <2>5, <4>1
      <4>3. m + Len(g) - n = Len(file') - Len(after) + k
        BY <2>1, <2>2, <2>3, <2>5, <4>1
      <4>4. QED
        BY <4>2, <4>3
    <3>2. QED
      BY <2>1, <2>5, <2>7, <3>1, SuffixIs
  <2>9. n = 1 => i < Len(file) /\ file[i + 1] = "empty"
    BY <2>1, <2>2, <2>3
  <2>10. QED
    BY <2>6, <2>7, <2>8, <2>9 DEF before, after
<1>3. QED
  BY <1>1, <1>2

(* Nothing that was in a task file is lost to an entry, whatever the file  *)
(* and the guidance look like.                                             *)
THEOREM EntriesLoseNothing == Spec => NothingLost
<1> DEFINE Kept ==
      \E i \in 0 .. Len(file), n \in {0, 1} :
        LET before == SubSeq(file, 1, i)
            after  == SubSeq(file, i + 1 + n, Len(file))
        IN  /\ n = 1 => i < Len(file) /\ file[i + 1] = "empty"
            /\ Len(before) + Len(after) <= Len(file')
            /\ IsPrefix(before, file') /\ IsSuffix(after, file')
<1>1. ASSUME file \in Seq(Line), UNCHANGED file PROVE Kept
  BY <1>1, UnchangedKeeps
<1>2. file \in Seq(Line) /\ [Next]_vars => [Kept]_vars
  <2> SUFFICES ASSUME file \in Seq(Line), Next, ~ UNCHANGED vars PROVE Kept
    OBVIOUS
  <2>1. ASSUME NEW g \in Guidance, NEW simple \in BOOLEAN, Flag(g, simple) PROVE Kept
    <3>1. file' = AppendReviseEntry(file, g) \/ UNCHANGED file
      BY <2>1 DEF Flag
    <3>2. QED
      BY <1>1, <3>1, EntryKeeps
  <2>2. CASE Repaired
    BY <1>1, <2>2 DEF Repaired
  <2>3. CASE Stopped
    BY <2>3 DEF Stopped
  <2>4. QED
    BY <2>1, <2>2, <2>3 DEF Next
<1>3. QED
  BY <1>2, FileIsLines, PTL DEF Spec, NothingLost
=============================================================================
