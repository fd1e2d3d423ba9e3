----------------------------- MODULE BookProofs -----------------------------
(***************************************************************************)
(* What is in the book and in the files of its figures, for any chapters,  *)
(* drafts, keys and images, any number of pipelines and any crashes.       *)
(*   Typed    the types of rows, tasks and jobs                            *)
(*   Inv      the jobs of the visual pipelines, each with its own files    *)
(*   TreeInv  Shaped, the drafts and what _revert would write, and Traced, *)
(*            whose lines the chapters and those originals hold            *)
(***************************************************************************)
EXTENDS Book, SequenceTheorems, FiniteSetTheorems, NaturalsInduction,
        WellFoundedInduction, TLAPS

-----------------------------------------------------------------------------
(* Operators *)

\* An image the licence check lets pass may be printed.
LEMMA ClearMayBePrinted ==
    ASSUME NEW image, Clear(image)
    PROVE  MayBePrinted(image)
  BY DEF Clear, Redistributable, Credited, Normalised, MayBePrinted

\* A set of natural numbers has a smallest one.
LEMMA SmallestOf ==
    ASSUME NEW T, T \subseteq Nat, T # {}
    PROVE  \E i \in T : \A j \in T : i <= j
  <1> DEFINE R == {ss \in Nat \X Nat : ss[1] < ss[2]}
  <1>1. IsWellFoundedOn(R, Nat)
    BY NatLessThanWellFounded DEF OpToRel
  <1>2. PICK i \in T : \A j \in T : <<j, i>> \notin R
    BY <1>1, WFMin
  <1>3. ASSUME NEW j \in T PROVE i <= j
    <2>1. <<j, i>> \in Nat \X Nat /\ <<j, i>>[1] = j /\ <<j, i>>[2] = i
      OBVIOUS
    <2>2. <<j, i>> \notin R
      BY <1>2
    <2>3. ~ (j < i)
      BY <2>1, <2>2
    <2> QED BY <2>1, <2>3
  <1> QED BY <1>3

\* Candidates that are there have a first one.
LEMMA FirstCandidate ==
    ASSUME NEW cs, cs # {}, \A c \in cs : c.i \in Nat
    PROVE  Next1(cs) \in cs
  <1> DEFINE T == {c.i : c \in cs}
  <1>1. PICK n \in T : \A m \in T : n <= m
    <2>1. T \subseteq Nat /\ T # {}
      OBVIOUS
    <2> QED BY <2>1, SmallestOf
  <1>2. PICK c \in cs : c.i = n
    OBVIOUS
  <1>3. \A d \in cs : c.i <= d.i
    BY <1>1, <1>2
  <1> QED BY <1>3 DEF Next1

\* A candidate that asks for another search leaves the job a job of its kind.
LEMMA MarkedToRefine ==
    ASSUME NEW todo, NEW placed, NEW round, NEW refine, NEW candidates,
           NEW now
    PROVE  [[at |-> "judge", left |-> todo, placed |-> placed, round |-> round,
             refine |-> refine, candidates |-> candidates] EXCEPT !.refine = now]
             = [at |-> "judge", left |-> todo, placed |-> placed, round |-> round,
                refine |-> now, candidates |-> candidates]
  OBVIOUS

-----------------------------------------------------------------------------
(* Texts *)

AuthorLines == UNION {{Authored[c][i] : i \in DOMAIN Authored[c]} : c \in Chapter}

DraftLines(p) ==
    UNION {{Line(p, n, case.targets[p][n]) : n \in DOMAIN case.targets[p]} : case \in Cases}

\* Every line that can be in the book.
Lines == AuthorLines \cup UNION {DraftLines(p) : p \in Pipeline}

Texts == Seq(Lines)

In(line, text) == \E i \in DOMAIN text : text[i] = line

LEMMA TextsAreSequences ==
    ASSUME NEW text \in Texts
    PROVE  /\ Len(text) \in Nat /\ DOMAIN text = 1 .. Len(text)
           /\ \A i \in 1 .. Len(text) : text[i] \in Lines
  BY LenProperties, ElementOfSeq DEF Texts

LEMMA PartOfText ==
    ASSUME NEW text \in Texts, NEW m \in Int, NEW n \in Int, 1 <= m, n <= Len(text)
    PROVE  /\ SubSeq(text, m, n) \in Texts
           /\ Len(SubSeq(text, m, n)) = IF m <= n THEN n - m + 1 ELSE 0
           /\ \A i \in 1 .. n - m + 1 : SubSeq(text, m, n)[i] = text[m + i - 1]
  <1>1. \A i \in m .. n : text[i] \in Lines
    BY TextsAreSequences
  <1> QED BY <1>1, SubSeqProperties DEF Texts

\* What a part of a text has the text has, and the lines of the part are there.
LEMMA LinesOfPart ==
    ASSUME NEW text \in Texts, NEW m \in Int, NEW n \in Int, 1 <= m, n <= Len(text)
    PROVE  /\ \A l : In(l, SubSeq(text, m, n)) => In(l, text)
           /\ \A i \in m .. n : In(text[i], SubSeq(text, m, n))
  <1> DEFINE part == SubSeq(text, m, n)
  <1>1. part \in Texts /\ Len(part) = IF m <= n THEN n - m + 1 ELSE 0
    BY PartOfText
  <1>2. \A i \in 1 .. n - m + 1 : part[i] = text[m + i - 1]
    BY PartOfText
  <1> HIDE DEF part
  <1>3. DOMAIN part = 1 .. Len(part) /\ DOMAIN text = 1 .. Len(text) /\ Len(text) \in Nat
    BY <1>1, TextsAreSequences
  <1>4. ASSUME NEW i \in DOMAIN part PROVE In(part[i], text)
    <2>1. i \in 1 .. n - m + 1 /\ m + i - 1 \in DOMAIN text
      BY <1>1, <1>3
    <2> QED BY <1>2, <2>1 DEF In
  <1>5. ASSUME NEW i \in m .. n PROVE In(text[i], part)
    <2>1. i - m + 1 \in 1 .. n - m + 1 /\ i - m + 1 \in DOMAIN part
      BY <1>1, <1>3
    <2>2. m + (i - m + 1) - 1 = i
      OBVIOUS
    <2> QED BY <1>2, <2>1, <2>2 DEF In
  <1> QED BY <1>4, <1>5 DEF In, part

LEMMA LinesOfConcat ==
    ASSUME NEW s \in Texts, NEW t \in Texts
    PROVE  s \o t \in Texts /\ \A l : In(l, s \o t) <=> In(l, s) \/ In(l, t)
  <1> DEFINE st == s \o t
  <1>1. /\ st \in Texts /\ Len(st) = Len(s) + Len(t)
        /\ \A i \in 1 .. Len(s) + Len(t) :
             st[i] = IF i <= Len(s) THEN s[i] ELSE t[i - Len(s)]
    BY ConcatProperties DEF Texts
  <1>2. /\ DOMAIN s = 1 .. Len(s) /\ DOMAIN t = 1 .. Len(t)
        /\ Len(s) \in Nat /\ Len(t) \in Nat
    BY TextsAreSequences
  <1> HIDE DEF st
  <1>3. DOMAIN st = 1 .. Len(s) + Len(t)
    BY <1>1, TextsAreSequences
  <1>4. ASSUME NEW i \in DOMAIN st PROVE In(st[i], s) \/ In(st[i], t)
    <2>1. CASE i <= Len(s)
      BY <1>1, <1>2, <1>3, <2>1 DEF In
    <2>2. CASE ~(i <= Len(s))
      <3>1. i - Len(s) \in DOMAIN t
        BY <1>2, <1>3, <2>2
      <3> QED BY <1>1, <1>3, <2>2, <3>1 DEF In
    <2> QED BY <2>1, <2>2
  <1>5. ASSUME NEW i \in DOMAIN s PROVE In(s[i], st)
    <2>1. i \in DOMAIN st /\ st[i] = s[i]
      BY <1>1, <1>2, <1>3
    <2> QED BY <2>1 DEF In
  <1>6. ASSUME NEW i \in DOMAIN t PROVE In(t[i], st)
    <2>1. i + Len(s) \in DOMAIN st /\ ~(i + Len(s) <= Len(s)) /\ (i + Len(s)) - Len(s) = i
      BY <1>2, <1>3
    <2>2. st[i + Len(s)] = t[i]
      BY <1>1, <1>3, <2>1
    <2> QED BY <2>1, <2>2 DEF In
  <1>7. \A l : In(l, st) <=> In(l, s) \/ In(l, t)
    BY <1>4, <1>5, <1>6 DEF In
  <1> QED BY <1>1, <1>7 DEF st

\* A patch that fits: the old lines are kept, or were shown to it; the new text has what
\* the patch writes, and nothing but that and old lines.
LEMMA PatchedText ==
    ASSUME NEW text \in Texts, NEW patch, patch.start \in Nat \ {0}, patch.before \in Texts,
           patch.after \in Texts, Fits(text, patch)
    PROVE  /\ Patched(text, patch) \in Texts
           /\ \A l : In(l, Patched(text, patch)) => In(l, text) \/ In(l, patch.after)
           /\ \A l : In(l, patch.after) => In(l, Patched(text, patch))
           /\ \A l : In(l, text) => In(l, Patched(text, patch)) \/ In(l, patch.before)
           /\ \A l : In(l, patch.before) => In(l, text)
  <1> DEFINE m == patch.start
             n == patch.start + Len(patch.before)
             head == SubSeq(text, 1, m - 1)
             tail == SubSeq(text, n, Len(text))
             middle == SubSeq(text, m, n - 1)
  <1>1. /\ Len(text) \in Nat /\ DOMAIN text = 1 .. Len(text)
        /\ Len(patch.before) \in Nat /\ DOMAIN patch.before = 1 .. Len(patch.before)
    BY TextsAreSequences
  <1>2. m \in Nat /\ n \in Nat /\ 1 <= m /\ m <= n /\ n - 1 <= Len(text) /\ middle = patch.before
    BY <1>1 DEF Fits
  <1> HIDE DEF m, n
  <1>3. head \in Texts /\ tail \in Texts
    <2>1. m - 1 \in Int /\ m - 1 <= Len(text)
      BY <1>1, <1>2
    <2>2. head \in Texts
      BY <2>1, PartOfText
    <2>3. tail \in Texts
      <3>1. n \in Int /\ Len(text) \in Int /\ 1 <= n /\ Len(text) <= Len(text)
        BY <1>1, <1>2
      <3> QED BY <3>1, PartOfText
    <2> QED BY <2>2, <2>3
  <1>4. /\ 1 \in Int /\ m - 1 \in Int /\ m - 1 <= Len(text) /\ 1 <= 1
        /\ m \in Int /\ n - 1 \in Int /\ 1 <= m /\ n - 1 <= Len(text)
        /\ n \in Int /\ 1 <= n /\ Len(text) \in Int /\ Len(text) <= Len(text)
    BY <1>1, <1>2
  <1>h. /\ \A l : In(l, head) => In(l, text)
        /\ \A i \in 1 .. m - 1 : In(text[i], head)
    BY <1>4, LinesOfPart
  <1>t. /\ \A l : In(l, tail) => In(l, text)
        /\ \A i \in n .. Len(text) : In(text[i], tail)
    BY <1>4, LinesOfPart
  <1>5. /\ \A l : In(l, middle) => In(l, text)
        /\ \A i \in m .. n - 1 : In(text[i], middle)
    BY <1>4, LinesOfPart
  <1>6. Patched(text, patch) = (head \o patch.after) \o tail
    BY DEF Patched, m, n
  <1> HIDE DEF head, tail, middle
  <1>7. /\ head \o patch.after \in Texts
        /\ \A l : In(l, head \o patch.after) <=> In(l, head) \/ In(l, patch.after)
    BY <1>3, LinesOfConcat
  <1>8. /\ Patched(text, patch) \in Texts
        /\ \A l : In(l, Patched(text, patch)) <=>
                   In(l, head) \/ In(l, patch.after) \/ In(l, tail)
    <2> DEFINE start == head \o patch.after
    <2>1. start \in Texts /\ tail \in Texts /\ Patched(text, patch) = start \o tail
      BY <1>3, <1>6, <1>7
    <2>2. \A l : In(l, start) <=> In(l, head) \/ In(l, patch.after)
      BY <1>7
    <2> HIDE DEF start
    <2>3. /\ start \o tail \in Texts
          /\ \A l : In(l, start \o tail) <=> In(l, start) \/ In(l, tail)
      BY <2>1, LinesOfConcat
    <2> QED BY <2>1, <2>2, <2>3
  <1>9. ASSUME NEW i \in DOMAIN text
        PROVE  In(text[i], head) \/ In(text[i], tail) \/ In(text[i], patch.before)
    <2>1. i \in 1 .. m - 1 \/ i \in m .. n - 1 \/ i \in n .. Len(text)
      BY <1>1, <1>2
    <2> QED BY <1>2, <1>h, <1>t, <1>5, <2>1
  <1>10. \A l : In(l, text) => In(l, head) \/ In(l, tail) \/ In(l, patch.before)
    BY <1>9 DEF In
  <1>11. \A l : In(l, patch.before) => In(l, text)
    BY <1>2, <1>5
  <1> QED BY <1>h, <1>t, <1>8, <1>10, <1>11

\* The hunk of an edit writes the lines it shows, and the new one.
AddsLine(patch, chapter, line) ==
    /\ patch.chapter = chapter /\ patch.start \in Nat \ {0}
    /\ patch.before \in Texts /\ patch.after \in Texts
    /\ \A l : In(l, patch.after) => l = line \/ In(l, patch.before)

LEMMA HunkAdds ==
    ASSUME NEW text \in Texts, NEW chapter, NEW first \in 1 .. Len(text) + 1,
           NEW last \in first - 1 .. Len(text), NEW line \in Lines,
           NEW patch, patch = Hunk(text, chapter, first, last, <<line>>)
    PROVE  AddsLine(patch, chapter, line)
  <1> DEFINE from == Greater(1, first - Context)
             to == Lesser(Len(text), last + Context)
             new == <<line>>
             head == SubSeq(text, from, first - 1)
             tail == SubSeq(text, last + 1, to)
             shown == SubSeq(text, from, to)
  <1>1. Len(text) \in Nat /\ DOMAIN text = 1 .. Len(text) /\ Context \in Nat \ {0}
    BY TextsAreSequences, BookAssumption
  <1>2. /\ from \in Nat /\ 1 <= from /\ from <= first
        /\ to \in Int /\ last <= to /\ to <= Len(text)
    BY <1>1 DEF Greater, Lesser
  <1>3. /\ patch.chapter = chapter /\ patch.start = from /\ patch.before = shown
        /\ patch.after = (head \o new) \o tail
    BY DEF Hunk
  <1> HIDE DEF from, to
  <1>4. head \in Texts /\ tail \in Texts /\ shown \in Texts
    <2>1. first - 1 \in Int /\ first - 1 <= Len(text) /\ last + 1 \in Int /\ 1 <= last + 1
      BY <1>1
    <2>2. head \in Texts
      <3>1. \A a, b \in Int : 1 <= a /\ b <= Len(text) => SubSeq(text, a, b) \in Texts
        BY PartOfText
      <3>2. from \in Int
        BY <1>2
      <3> QED BY <1>2, <2>1, <3>1, <3>2
    <2>3. tail \in Texts
      BY <1>2, <2>1, PartOfText
    <2>4. shown \in Texts
      BY <1>2, PartOfText
    <2> QED BY <2>2, <2>3, <2>4
  <1>5. new \in Texts /\ \A l : In(l, new) => l = line
    <2>1. new \in Seq(Lines)
      OBVIOUS
    <2>2. DOMAIN new = {1} /\ new[1] = line
      OBVIOUS
    <2> HIDE DEF new
    <2> QED BY <2>1, <2>2 DEF In, Texts
  <1>6. ASSUME NEW a \in Int, NEW b \in Int, from <= a, b <= to, NEW l,
               In(l, SubSeq(text, a, b))
        PROVE  In(l, shown)
    <2>1. SubSeq(text, a, b) \in Texts
      BY <1>1, <1>2, <1>6, PartOfText
    <2>2. /\ Len(SubSeq(text, a, b)) = IF a <= b THEN b - a + 1 ELSE 0
          /\ \A i \in 1 .. b - a + 1 : SubSeq(text, a, b)[i] = text[a + i - 1]
      BY <1>1, <1>2, <1>6, PartOfText
    <2>3. PICK i \in DOMAIN SubSeq(text, a, b) : SubSeq(text, a, b)[i] = l
      BY <1>6 DEF In
    <2>4. i \in 1 .. b - a + 1
      BY <2>1, <2>2, <2>3, TextsAreSequences
    <2>5. a + i - 1 \in from .. to /\ text[a + i - 1] = l
      BY <1>2, <1>6, <2>2, <2>3, <2>4
    <2> QED BY <1>1, <1>2, <2>5, LinesOfPart
  <1>7. \A l : In(l, head) => In(l, shown)
    BY <1>2, <1>6
  <1>8. \A l : In(l, tail) => In(l, shown)
    BY <1>2, <1>6
  <1> HIDE DEF head, tail, shown, new
  <1> DEFINE begin == head \o new
  <1>9. begin \in Texts /\ \A l : In(l, begin) <=> In(l, head) \/ In(l, new)
    BY <1>4, <1>5, LinesOfConcat
  <1>10. patch.after = begin \o tail
    BY <1>3
  <1> HIDE DEF begin
  <1>11. begin \o tail \in Texts /\ \A l : In(l, begin \o tail) <=> In(l, begin) \/ In(l, tail)
    BY <1>4, <1>9, LinesOfConcat
  <1>12. \A l : In(l, patch.after) => l = line \/ In(l, patch.before)
    BY <1>3, <1>5, <1>7, <1>8, <1>9, <1>10, <1>11
  <1>13. patch.start \in Nat \ {0} /\ patch.before \in Texts /\ patch.after \in Texts
    <2>1. from \in Nat \ {0}
      BY <1>2
    <2>2. patch.after \in Texts
      BY <1>10, <1>11
    <2> QED BY <1>3, <1>4, <2>1, <2>2
  <1> QED BY <1>3, <1>12, <1>13 DEF AddsLine

-----------------------------------------------------------------------------
(* _apply_patches and _revert, for patches of chapters that differ *)

\* The tree after the first n patches.
After(text, patches, n) ==
    [c \in Chapter |->
        IF \E k \in 1 .. n : patches[k].chapter = c
        THEN Patched(text[c], patches[CHOOSE k \in 1 .. n : patches[k].chapter = c])
        ELSE text[c]]

\* Patches of a chapter each.
ChapterEach(patches, N) ==
    /\ \A k \in 1 .. N : patches[k].chapter \in Chapter
    /\ \A j, k \in 1 .. N : patches[j].chapter = patches[k].chapter => j = k

LEMMA AfterEach ==
    ASSUME NEW text, NEW patches, NEW N \in Nat, ChapterEach(patches, N), NEW n \in 0 .. N
    PROVE  /\ \A k \in 1 .. n : After(text, patches, n)[patches[k].chapter]
                                  = Patched(text[patches[k].chapter], patches[k])
           /\ \A c \in Chapter : (\A k \in 1 .. n : patches[k].chapter # c) =>
                After(text, patches, n)[c] = text[c]
           /\ n < N => After(text, patches, n)[patches[n + 1].chapter] = text[patches[n + 1].chapter]
  <1>1. ASSUME NEW k \in 1 .. n
        PROVE  After(text, patches, n)[patches[k].chapter]
                  = Patched(text[patches[k].chapter], patches[k])
    <2> DEFINE c == patches[k].chapter
               l == CHOOSE l \in 1 .. n : patches[l].chapter = c
    <2>1. k \in 1 .. N /\ c \in Chapter
      BY DEF ChapterEach
    <2>2. l \in 1 .. n /\ patches[l].chapter = c
      OBVIOUS
    <2>3. l \in 1 .. N
      BY <2>2
    <2>4. l = k
      BY <2>1, <2>2, <2>3 DEF ChapterEach
    <2> QED BY <2>1, <2>4 DEF After
  <1>2. ASSUME NEW c \in Chapter, \A k \in 1 .. n : patches[k].chapter # c
        PROVE  After(text, patches, n)[c] = text[c]
    BY <1>2 DEF After
  <1>3. ASSUME n < N
        PROVE  After(text, patches, n)[patches[n + 1].chapter] = text[patches[n + 1].chapter]
    <2>1. n + 1 \in 1 .. N /\ patches[n + 1].chapter \in Chapter
      BY <1>3 DEF ChapterEach
    <2>2. \A k \in 1 .. n : patches[k].chapter # patches[n + 1].chapter
      <3>1. \A k \in 1 .. n : k \in 1 .. N /\ k # n + 1
        OBVIOUS
      <3> QED BY <2>1, <3>1 DEF ChapterEach
    <2> QED BY <1>2, <2>1, <2>2
  <1> QED BY <1>1, <1>2, <1>3

LEMMA AfterPatched ==
    ASSUME NEW text, NEW patches, NEW N \in Nat, ChapterEach(patches, N), NEW n \in 0 .. N,
           NEW k \in 1 .. n
    PROVE  After(text, patches, n)[patches[k].chapter]
             = Patched(text[patches[k].chapter], patches[k])
  BY AfterEach

LEMMA AfterUntouched ==
    ASSUME NEW text, NEW patches, NEW n, NEW c \in Chapter,
           \A k \in 1 .. n : patches[k].chapter # c
    PROVE  After(text, patches, n)[c] = text[c]
  BY DEF After

\* One patch more.
With(tree0, patch) == [tree0 EXCEPT ![patch.chapter] = Patched(@, patch)]

LEMMA AfterNext ==
    ASSUME NEW text, NEW patches, NEW N \in Nat, ChapterEach(patches, N), NEW n \in 1 .. N
    PROVE  After(text, patches, n) = With(After(text, patches, n - 1), patches[n])
  <1> DEFINE old == After(text, patches, n - 1)
             new == After(text, patches, n)
             d == patches[n].chapter
  <1>1. n - 1 \in 0 .. N /\ n \in 0 .. N /\ n - 1 < N /\ (n - 1) + 1 = n /\ d \in Chapter
    BY DEF ChapterEach
  <1>2. old[d] = text[d] /\ new[d] = Patched(text[d], patches[n])
    BY <1>1, AfterEach
  <1>3. ASSUME NEW c \in Chapter, c # d PROVE new[c] = old[c]
    <2>1. CASE \E k \in 1 .. n - 1 : patches[k].chapter = c
      <3>1. PICK k \in 1 .. n - 1 : patches[k].chapter = c
        BY <2>1
      <3>2. k \in 1 .. n
        OBVIOUS
      <3>3. new[patches[k].chapter] = Patched(text[patches[k].chapter], patches[k])
        BY <1>1, <3>2, AfterPatched
      <3>4. old[patches[k].chapter] = Patched(text[patches[k].chapter], patches[k])
        BY <1>1, AfterPatched
      <3> QED BY <3>1, <3>3, <3>4
    <2>2. CASE \A k \in 1 .. n - 1 : patches[k].chapter # c
      <3>1. \A k \in 1 .. n : k \in 1 .. n - 1 \/ k = n
        OBVIOUS
      <3>2. \A k \in 1 .. n : patches[k].chapter # c
        BY <1>3, <2>2, <3>1
      <3>3. new[c] = text[c]
        BY <3>2, AfterUntouched
      <3>4. old[c] = text[c]
        BY <2>2, AfterUntouched
      <3> QED BY <3>3, <3>4
    <2> QED BY <2>1, <2>2
  <1>4. DOMAIN old = Chapter /\ DOMAIN new = Chapter
           /\ new = [c \in Chapter |-> new[c]] /\ old = [c \in Chapter |-> old[c]]
    BY DEF After
  <1> HIDE DEF old, new
  <1>5. new = With(old, patches[n])
    BY <1>1, <1>2, <1>3, <1>4 DEF With
  <1> QED BY <1>5 DEF old, new

\* Trees is what the patches make of the text one by one, as far as each of them fits.
LEMMA TreesOf ==
    ASSUME NEW text, text = [c \in Chapter |-> text[c]], NEW patches, NEW N \in Nat,
           Len(patches) = N, ChapterEach(patches, N)
    PROVE  \E last \in 0 .. N :
             /\ Trees(text, patches) = [n \in 0 .. last |-> After(text, patches, n)]
             /\ \A k \in 1 .. last : Fits(text[patches[k].chapter], patches[k])
  <1> DEFINE A(n) == After(text, patches, n)
             Step(g, n) == IF n = 0 THEN text ELSE With(g[n - 1], patches[n])
             a == [n \in 0 .. N |-> A(n)]
  <1>1. A(0) = text
    <2>1. \A c \in Chapter : A(0)[c] = text[c]
      BY AfterEach
    <2> QED BY <2>1 DEF After
  <1>2. ASSUME NEW n \in 1 .. N
        PROVE  A(n) = With(A(n - 1), patches[n])
    BY AfterNext, Zenon
  <1> HIDE DEF A
  <1>3. a = [n \in 0 .. N |-> Step(a, n)]
    <2>1. ASSUME NEW n \in 0 .. N PROVE a[n] = Step(a, n)
      <3>1. CASE n = 0
        BY <1>1, <3>1
      <3>2. CASE n # 0
        <4>1. n \in 1 .. N /\ n - 1 \in 0 .. N
          BY <3>2
        <4>2. a[n - 1] = A(n - 1) /\ a[n] = A(n)
          BY <4>1
        <4>3. a[n] = With(a[n - 1], patches[n])
          BY <1>2, <4>1, <4>2
        <4> QED BY <3>2, <4>3
      <3> QED BY <3>1, <3>2
    <2> QED BY <2>1
  <1> DEFINE ts == CHOOSE ts : ts = [n \in 0 .. Len(patches) |->
                     IF n = 0 THEN text
                     ELSE [ts[n - 1] EXCEPT
                             ![patches[n].chapter] = Patched(@, patches[n])]]
             fits(n) == \A k \in 1 .. n : Fits(ts[k - 1][patches[k].chapter], patches[k])
             last == CHOOSE n \in 0 .. Len(patches) :
                        fits(n) /\ (n = Len(patches) \/ ~fits(n + 1))
  <1>4. Trees(text, patches) = [n \in 0 .. last |-> ts[n]]
    BY DEF Trees
  <1>5. ts = [n \in 0 .. N |-> Step(ts, n)]
    <2>1. \E g : g = [n \in 0 .. N |-> Step(g, n)]
      BY <1>3
    <2> QED BY <2>1 DEF With
  <1> HIDE DEF ts
  <1>6. \A n \in 0 .. N : ts[n] = A(n)
    <2> DEFINE Bad == {n \in 0 .. N : ts[n] # A(n)}
    <2>1. ASSUME NEW n \in Bad, \A k \in Bad : n <= k PROVE FALSE
      <3>1. CASE n = 0
        BY <1>1, <1>5, <3>1
      <3>2. CASE n # 0
        <4>1. n \in 1 .. N /\ n - 1 \in 0 .. N /\ n - 1 \notin Bad
          BY <2>1, <3>2
        <4>2. ts[n - 1] = A(n - 1)
          BY <4>1
        <4>3. ts[n] = Step(ts, n)
          BY <1>5
        <4>4. ts[n] = With(ts[n - 1], patches[n])
          BY <3>2, <4>3
        <4> QED BY <1>2, <4>1, <4>2, <4>4
      <3> QED BY <3>1, <3>2
    <2>2. Bad \subseteq Nat
      OBVIOUS
    <2>3. Bad = {}
      BY <2>1, <2>2, SmallestOf
    <2> QED BY <2>3
  <1>7. last \in 0 .. N /\ fits(last)
    <2> DEFINE Good == {n \in 0 .. N : ~fits(n)}
    <2>1. fits(0)
      OBVIOUS
    <2>2. \E n \in 0 .. N : fits(n) /\ (n = N \/ ~fits(n + 1))
      <3>1. CASE Good = {}
        BY <3>1
      <3>2. CASE Good # {}
        <4>1. Good \subseteq Nat
          OBVIOUS
        <4> HIDE DEF Good
        <4>2. PICK m \in Good : \A k \in Good : m <= k
          BY <3>2, <4>1, SmallestOf, Zenon
        <4> USE DEF Good
        <4> HIDE DEF fits
        <4>3. m \in 0 .. N /\ ~fits(m) /\ m # 0
          BY <2>1
        <4>4. m - 1 \in 0 .. N /\ m - 1 \notin Good /\ (m - 1) + 1 = m
          BY <4>2, <4>3
        <4> QED BY <4>3, <4>4
      <3> QED BY <3>1, <3>2
    <2> HIDE DEF fits
    <2> QED BY <2>2
  <1> HIDE DEF last
  <1>8. ASSUME NEW k \in 1 .. last PROVE Fits(text[patches[k].chapter], patches[k])
    <2>1. k \in 1 .. N /\ k - 1 \in 0 .. N /\ k - 1 < N /\ (k - 1) + 1 = k
      BY <1>7
    <2>2. Fits(ts[k - 1][patches[k].chapter], patches[k])
      BY <1>7
    <2>3. A(k - 1)[patches[k].chapter] = text[patches[k].chapter]
      BY <2>1, AfterEach DEF A
    <2> QED BY <1>6, <2>1, <2>2, <2>3
  <1>9. [n \in 0 .. last |-> ts[n]] = [n \in 0 .. last |-> A(n)]
    BY <1>6, <1>7
  <1> QED BY <1>4, <1>7, <1>8, <1>9 DEF A

LEMMA CountFromZero == ASSUME NEW n \in Nat PROVE Cardinality(0 .. n) = n + 1
  BY FS_Interval

\* The text a patch finds is that from before the first.
LEMMA NextChapterUntouched ==
    ASSUME NEW text, NEW patches, NEW N \in Nat, ChapterEach(patches, N), NEW k \in 1 .. N
    PROVE  After(text, patches, k - 1)[patches[k].chapter] = text[patches[k].chapter]
  <1> DEFINE n == k - 1
  <1>1. n \in 0 .. N /\ n < N /\ n + 1 = k
    OBVIOUS
  <1> HIDE DEF n
  <1>2. After(text, patches, n)[patches[n + 1].chapter] = text[patches[n + 1].chapter]
    BY <1>1, AfterEach
  <1> QED BY <1>1, <1>2 DEF n

\* What _apply_patches has applied, and the tree it made.
LEMMA AppliedOf ==
    ASSUME NEW text, text = [c \in Chapter |-> text[c]], NEW patches, NEW N \in Nat,
           Len(patches) = N, ChapterEach(patches, N)
    PROVE  \E last \in 0 .. N :
             /\ Len(Applied(text, patches)) = last
             /\ DOMAIN Applied(text, patches) = 1 .. last
             /\ \A k \in 1 .. last :
                  /\ Applied(text, patches)[k].chapter = patches[k].chapter
                  /\ Applied(text, patches)[k].original = text[patches[k].chapter]
                  /\ Fits(text[patches[k].chapter], patches[k])
             /\ Trees(text, patches)[last] = After(text, patches, last)
  <1>1. PICK last \in 0 .. N :
          /\ Trees(text, patches) = [n \in 0 .. last |-> After(text, patches, n)]
          /\ \A k \in 1 .. last : Fits(text[patches[k].chapter], patches[k])
    BY TreesOf
  <1> DEFINE ts == Trees(text, patches)
             applied == Applied(text, patches)
  <1>2. /\ DOMAIN ts = 0 .. last
        /\ \A n \in 0 .. last : ts[n] = After(text, patches, n)
    BY <1>1
  <1>3. Cardinality(DOMAIN ts) - 1 = last
    <2>1. last \in Nat
      OBVIOUS
    <2>2. Cardinality(0 .. last) = last + 1
      BY <2>1, CountFromZero
    <2> QED BY <1>2, <2>1, <2>2
  <1>4. applied = [i \in 1 .. last |-> [chapter  |-> patches[i].chapter,
                                        original |-> ts[i - 1][patches[i].chapter]]]
    BY <1>3 DEF Applied
  <1> HIDE DEF ts, applied
  <1>5. ASSUME NEW k \in 1 .. last
        PROVE  /\ applied[k].chapter = patches[k].chapter
               /\ applied[k].original = text[patches[k].chapter]
    <2>1. k \in 1 .. N /\ k - 1 \in 0 .. last
      OBVIOUS
    <2>2. After(text, patches, k - 1)[patches[k].chapter] = text[patches[k].chapter]
      BY <2>1, NextChapterUntouched
    <2> QED BY <1>2, <1>4, <2>1, <2>2
  <1>6. DOMAIN applied = 1 .. last /\ Len(applied) = last
    BY <1>4
  <1>7. ts[last] = After(text, patches, last)
    BY <1>2
  <1> QED BY <1>1, <1>5, <1>6, <1>7 DEF ts, applied

\* Originals of chapters that differ are all written back, and nothing else.
LEMMA RevertedOf ==
    ASSUME NEW text, NEW applied, NEW N \in Nat, DOMAIN applied = 1 .. N,
           \A j, k \in 1 .. N : applied[j].chapter = applied[k].chapter => j = k
    PROVE  /\ Reverted(text, applied) = [c \in DOMAIN text |-> Reverted(text, applied)[c]]
           /\ \A c \in DOMAIN text :
                \/ /\ \A k \in 1 .. N : applied[k].chapter # c
                   /\ Reverted(text, applied)[c] = text[c]
                \/ \E k \in 1 .. N : /\ applied[k].chapter = c
                                     /\ Reverted(text, applied)[c] = applied[k].original
  <1>1. ASSUME NEW c \in DOMAIN text, \A k \in 1 .. N : applied[k].chapter # c
        PROVE  Reverted(text, applied)[c] = text[c]
    <2>1. {i \in DOMAIN applied : applied[i].chapter = c} = {}
      BY <1>1
    <2> QED BY <2>1 DEF Reverted
  <1>2. ASSUME NEW c \in DOMAIN text, NEW k \in 1 .. N, applied[k].chapter = c
        PROVE  Reverted(text, applied)[c] = applied[k].original
    <2> DEFINE of == {i \in DOMAIN applied : applied[i].chapter = c}
    <2>1. of = {k}
      BY <1>2
    <2>2. (CHOOSE i \in {k} : \A j \in {k} : i >= j) = k
      OBVIOUS
    <2>3. Reverted(text, applied)[c]
            = IF of = {} THEN text[c]
              ELSE applied[CHOOSE i \in of : \A j \in of : i >= j].original
      BY DEF Reverted
    <2> QED BY <2>1, <2>2, <2>3
  <1>3. Reverted(text, applied) = [c \in DOMAIN text |-> Reverted(text, applied)[c]]
    BY DEF Reverted
  <1>4. ASSUME NEW c \in DOMAIN text
        PROVE  \/ /\ \A k \in 1 .. N : applied[k].chapter # c
                  /\ Reverted(text, applied)[c] = text[c]
               \/ \E k \in 1 .. N : /\ applied[k].chapter = c
                                    /\ Reverted(text, applied)[c] = applied[k].original
    BY <1>1, <1>2
  <1> QED BY <1>3, <1>4

-----------------------------------------------------------------------------
(* Types *)

\* The trees of a draft, whatever chapters it edits: chapters do not come or go.
LEMMA TreesTyped ==
    ASSUME NEW text, DOMAIN text = Chapter, NEW patches, NEW N \in Nat, Len(patches) = N
    PROVE  \E last \in 0 .. N :
             /\ DOMAIN Trees(text, patches) = 0 .. last
             /\ Len(Applied(text, patches)) = last
             /\ DOMAIN Trees(text, patches)[last] = Chapter
  <1> DEFINE Step(g, n) == IF n = 0 THEN text ELSE With(g[n - 1], patches[n])
             Builds(g, m) == g = [n \in 0 .. m |-> Step(g, n)]
  <1>1. \E g : Builds(g, N)
    <2> DEFINE Bad == {m \in 0 .. N : ~ \E g : Builds(g, m)}
    <2>1. ASSUME NEW m \in Bad, \A k \in Bad : m <= k PROVE FALSE
      <3>1. CASE m = 0
        <4> DEFINE g == [n \in 0 .. 0 |-> text]
        <4>1. \A n \in 0 .. 0 : g[n] = Step(g, n)
          OBVIOUS
        <4>2. Builds(g, 0)
          BY <4>1
        <4> QED BY <3>1, <4>2
      <3>2. CASE m # 0
        <4>1. m \in 0 .. N
          BY <2>1
        <4> HIDE DEF Bad
        <4>2. m \in 1 .. N /\ m - 1 \in 0 .. N /\ m - 1 \notin Bad
          BY <2>1, <3>2, <4>1
        <4> USE DEF Bad
        <4>3. m \in 1 .. N /\ m - 1 \in 0 .. N /\ \E g : Builds(g, m - 1)
          BY <4>2, Zenon
        <4>4. PICK g : Builds(g, m - 1)
          BY <4>3, Zenon
        <4> DEFINE h == [n \in 0 .. m |-> IF n = m THEN With(g[m - 1], patches[m]) ELSE g[n]]
        <4>5. ASSUME NEW n \in 0 .. m PROVE h[n] = Step(h, n)
          <5>1. CASE n = m
            BY <4>3, <5>1
          <5>2. CASE n # m /\ n = 0
            <6>1. h[n] = g[n] /\ g[n] = Step(g, n)
              BY <4>3, <4>4, <5>2
            <6> QED BY <5>2, <6>1
          <5>3. CASE n # m /\ n # 0
            <6>1. n \in 0 .. m - 1 /\ n - 1 \in 0 .. m /\ n - 1 # m
              BY <4>3, <5>3
            <6>2. h[n] = g[n] /\ g[n] = Step(g, n) /\ h[n - 1] = g[n - 1]
              BY <4>3, <4>4, <5>3, <6>1
            <6> QED BY <5>3, <6>2
          <5> QED BY <5>1, <5>2, <5>3
        <4>6. h = [n \in 0 .. m |-> h[n]]
          OBVIOUS
        <4> HIDE DEF h
        <4>7. Builds(h, m)
          BY <4>5, <4>6
        <4> QED BY <2>1, <4>7
      <3> QED BY <3>1, <3>2
    <2>2. Bad \subseteq Nat
      OBVIOUS
    <2>3. Bad = {}
      BY <2>1, <2>2, SmallestOf
    <2> QED BY <2>3
  <1> DEFINE ts == CHOOSE ts : ts = [n \in 0 .. Len(patches) |->
                     IF n = 0 THEN text
                     ELSE [ts[n - 1] EXCEPT
                             ![patches[n].chapter] = Patched(@, patches[n])]]
             fits(n) == \A k \in 1 .. n : Fits(ts[k - 1][patches[k].chapter], patches[k])
             last == CHOOSE n \in 0 .. Len(patches) :
                        fits(n) /\ (n = Len(patches) \/ ~fits(n + 1))
  <1>2. Trees(text, patches) = [n \in 0 .. last |-> ts[n]]
    BY DEF Trees
  <1>3. ts = [n \in 0 .. N |-> Step(ts, n)]
    BY <1>1 DEF With
  <1> HIDE DEF ts
  <1>4. \A n \in 0 .. N : DOMAIN ts[n] = Chapter
    <2> DEFINE Bad == {n \in 0 .. N : DOMAIN ts[n] # Chapter}
    <2>1. ASSUME NEW n \in Bad, \A k \in Bad : n <= k PROVE FALSE
      <3>1. CASE n = 0
        BY <1>3, <3>1
      <3>2. CASE n # 0
        <4>1. n - 1 \in 0 .. N /\ n - 1 \notin Bad
          BY <2>1, <3>2
        <4>2. ts[n] = With(ts[n - 1], patches[n])
          BY <1>3, <3>2
        <4> QED BY <4>1, <4>2 DEF With
      <3> QED BY <3>1, <3>2
    <2>2. Bad \subseteq Nat
      OBVIOUS
    <2>3. Bad = {}
      BY <2>1, <2>2, SmallestOf
    <2> QED BY <2>3
  <1>5. last \in 0 .. N
    <2> DEFINE Worse == {n \in 0 .. N : ~fits(n)}
    <2>1. fits(0)
      OBVIOUS
    <2>2. \E n \in 0 .. N : fits(n) /\ (n = N \/ ~fits(n + 1))
      <3>1. CASE Worse = {}
        <4> HIDE DEF Worse
        <4>1. N \in 0 .. N /\ N \notin Worse
          BY <3>1
        <4> USE DEF Worse
        <4> HIDE DEF fits
        <4> QED BY <4>1
      <3>2. CASE Worse # {}
        <4>1. Worse \subseteq Nat
          OBVIOUS
        <4> HIDE DEF Worse
        <4>2. PICK m \in Worse : \A k \in Worse : m <= k
          BY <3>2, <4>1, SmallestOf, Zenon
        <4> USE DEF Worse
        <4> HIDE DEF fits
        <4>3. m \in 0 .. N /\ ~fits(m) /\ m # 0
          BY <2>1
        <4>4. m - 1 \in 0 .. N /\ m - 1 \notin Worse /\ (m - 1) + 1 = m
          BY <4>2, <4>3
        <4> QED BY <4>3, <4>4
      <3> QED BY <3>1, <3>2
    <2> HIDE DEF fits
    <2> QED BY <2>2
  <1> HIDE DEF last
  <1>6. /\ DOMAIN Trees(text, patches) = 0 .. last
        /\ DOMAIN Trees(text, patches)[last] = Chapter
    BY <1>2, <1>4, <1>5
  <1>7. Cardinality(DOMAIN Trees(text, patches)) - 1 = last
    <2>1. last \in Nat
      BY <1>5
    <2>2. Cardinality(0 .. last) = last + 1
      BY <2>1, CountFromZero
    <2> QED BY <1>6, <2>1, <2>2
  <1>8. Len(Applied(text, patches)) = last
    <2>1. Applied(text, patches) = [i \in 1 .. last |->
             [chapter  |-> patches[i].chapter,
              original |-> Trees(text, patches)[i - 1][patches[i].chapter]]]
      BY <1>7 DEF Applied
    <2> QED BY <1>5, <2>1
  <1> QED BY <1>5, <1>6, <1>8

RowFields == {"state", "revisions", "patches", "skipped"}

RowTyped(p, r) ==
    /\ DOMAIN r = RowFields
    /\ r.state \in State
    /\ r.revisions \in 0 .. MaxRevisions + 1
    /\ r.state # "NEEDS_HUMAN" => r.revisions <= MaxRevisions
    /\ r.state # "VERDICT_APPROVED" => Len(r.patches) = Size(given, p)

CandidatesIn(files, candidates) ==
    \A c \in candidates : c.i \in Nat /\ c.path \in files

JobTyped(files, j) ==
    /\ j.at \notin {"none", "done"} => j.left # <<>>
    /\ j.at = "judge" =>
         /\ j = [at |-> "judge", left |-> j.left, placed |-> j.placed, round |-> j.round,
                 refine |-> j.refine, candidates |-> j.candidates]
         /\ CandidatesIn(files, j.candidates)
    /\ j.at = "check" => j.drawn \/ CandidatesIn(files, j.candidates)
    /\ j.at \in {"check", "place"} => j.path \in files

\* One thing at a time: a job while the figures are due, a report while QA is.
BusyTyped(r, t, j) ==
    /\ t # Idle => r.state = "VISUAL" /\ j = NoJob
    /\ j # NoJob => r.state = "EDITORIAL_VERIFY"

Typed ==
    /\ given \in Cases
    /\ DOMAIN row = Pipeline /\ DOMAIN task = Pipeline /\ DOMAIN job = Pipeline
    /\ DOMAIN tree = Chapter
    /\ left \subseteq Pipeline
    /\ \A p \in Pipeline : RowTyped(p, row[p])
    /\ \A p \in Pipeline : JobTyped(DOMAIN saved, job[p])
    /\ \A p \in Pipeline : BusyTyped(row[p], task[p], job[p])

LEMMA TypedImpliesTypeOK == Typed => TypeOK
  <1>1. DOMAIN Authored = Chapter
    BY BookAssumption
  <1> QED BY <1>1 DEF Typed, TypeOK, RowTyped, JobTyped, BusyTyped, Size

LEMMA InitTypes == Init => Typed
  BY MaxRevisionsAssumption, BookAssumption
  DEF Init, Typed, RowTyped, RowFields, JobTyped, BusyTyped, NoJob, State, OnPath

\* A step of one pipeline keeps the types if it keeps its own.
LEMMA StepTypes ==
    ASSUME Typed, NEW p \in Pipeline, NEW r, NEW t, NEW j,
           row' = [row EXCEPT ![p] = r] \/ (row' = row /\ r = row[p]),
           task' = [task EXCEPT ![p] = t] \/ (task' = task /\ t = task[p]),
           job' = [job EXCEPT ![p] = j] \/ (job' = job /\ j = job[p]),
           RowTyped(p, r), JobTyped(DOMAIN saved', j), BusyTyped(r, t, j),
           DOMAIN saved \subseteq DOMAIN saved', DOMAIN tree' = Chapter,
           left' \subseteq Pipeline, UNCHANGED given
    PROVE  Typed'
  <1>1. /\ DOMAIN row' = Pipeline /\ DOMAIN task' = Pipeline /\ DOMAIN job' = Pipeline
        /\ \A q \in Pipeline : row'[q] = IF q = p THEN r ELSE row[q]
        /\ \A q \in Pipeline : task'[q] = IF q = p THEN t ELSE task[q]
        /\ \A q \in Pipeline : job'[q] = IF q = p THEN j ELSE job[q]
    BY DEF Typed
  <1>2. ASSUME NEW q \in Pipeline PROVE RowTyped(q, row[q])'
    <2>1. RowTyped(q, row'[q])
      BY <1>1 DEF Typed
    <2> QED BY <2>1 DEF RowTyped
  <1>3. ASSUME NEW q \in Pipeline PROVE JobTyped(DOMAIN saved', job'[q])
    <2>1. CASE q = p
      BY <1>1, <2>1
    <2>2. CASE q # p
      <3>1. JobTyped(DOMAIN saved, job'[q])
        BY <1>1, <2>2 DEF Typed
      <3> QED BY <3>1 DEF JobTyped, CandidatesIn
    <2> QED BY <2>1, <2>2
  <1>4. ASSUME NEW q \in Pipeline PROVE BusyTyped(row'[q], task'[q], job'[q])
    BY <1>1 DEF Typed
  <1> QED BY <1>1, <1>2, <1>3, <1>4 DEF Typed

\* As it is but for the state.
LEMMA StateMoves ==
    ASSUME Typed, NEW p \in Pipeline, NEW s \in State, NEW r,
           r = [row[p] EXCEPT !.state = s],
           row[p].state \notin {"NEEDS_HUMAN", "VERDICT_APPROVED"}
    PROVE  RowTyped(p, r) /\ r.state = s
  <1>1. RowTyped(p, row[p])
    BY DEF Typed
  <1>2. /\ DOMAIN r = RowFields /\ r.state = s /\ r.patches = row[p].patches
        /\ r.revisions = row[p].revisions
    BY <1>1 DEF RowTyped, RowFields
  <1> QED BY <1>1, <1>2 DEF RowTyped

LEMMA DraftTypes == ASSUME Typed, NEW p \in Pipeline, Draft(p) PROVE Typed'
  <1> DEFINE n == Lesser(Len(given.targets[p]), MaxTargets)
             edit(i) == given.targets[p][i]
             diffs(i) == Edits(p, i, edit(i), tree[edit(i).chapter])
  <1>1. PICK patches \in [1 .. n -> UNION {diffs(i) : i \in 1 .. n}] :
          row' = [row EXCEPT ![p].state = "DRAFTED", ![p].patches = patches]
    BY DEF Draft
  <1> HIDE DEF diffs
  <1> DEFINE r == [row[p] EXCEPT !.state = "DRAFTED", !.patches = patches]
  <1>2. row' = [row EXCEPT ![p] = r]
    BY <1>1
  <1>3. Len(patches) = Size(given, p)
    <2>1. n \in Nat
      <3>1. Len(given.targets[p]) \in Nat
        BY BookAssumption, LenProperties DEF Typed, IsSequence
      <3> QED BY <3>1, BookAssumption DEF Lesser
    <2> QED BY <2>1 DEF Size
  <1>4. RowTyped(p, row[p]) /\ row[p].state = "VERDICT_APPROVED"
    BY DEF Typed, Draft, Steps
  <1>5. /\ DOMAIN r = RowFields /\ r.state = "DRAFTED" /\ r.patches = patches
        /\ r.revisions = row[p].revisions
    BY <1>4 DEF RowTyped, RowFields
  <1> HIDE DEF r
  <1>6. RowTyped(p, r)
    BY <1>3, <1>4, <1>5 DEF RowTyped, State, OnPath
  <1>7. task[p] = Idle /\ job[p] = NoJob
    BY DEF Draft, Steps, Free
  <1>8. BusyTyped(r, task[p], job[p]) /\ JobTyped(DOMAIN saved', job[p])
    BY <1>7 DEF BusyTyped, JobTyped, NoJob
  <1>9. UNCHANGED <<tree, task, given, left, job, saved>>
    BY DEF Draft, figureVars
  <1>10. DOMAIN tree' = Chapter /\ left' \subseteq Pipeline
    BY <1>9 DEF Typed
  <1> QED BY <1>2, <1>6, <1>8, <1>9, <1>10, StepTypes

\* A handler that stores a new state, or sends the draft back, and does no more.
LEMMA RowStepTypes ==
    ASSUME Typed, NEW p \in Pipeline, NEW r, row' = [row EXCEPT ![p] = r], RowTyped(p, r),
           task[p] = Idle, job[p] = NoJob, UNCHANGED <<tree, task, given, left, job, saved>>
    PROVE  Typed'
  <1>1. BusyTyped(r, task[p], job[p]) /\ JobTyped(DOMAIN saved', job[p])
    BY DEF BusyTyped, JobTyped, NoJob
  <1>2. DOMAIN tree' = Chapter /\ left' \subseteq Pipeline
    BY DEF Typed
  <1> QED BY <1>1, <1>2, StepTypes

LEMMA TechnicalTypes == ASSUME Typed, NEW p \in Pipeline, Technical(p) PROVE Typed'
  <1> DEFINE r == [row[p] EXCEPT !.state = "CITATION_VERIFY"]
  <1>1. row' = [row EXCEPT ![p] = r] /\ row[p].state = "DRAFTED"
    BY DEF Technical, Steps
  <1>2. task[p] = Idle /\ job[p] = NoJob
    BY DEF Technical, Steps, Free
  <1>3. RowTyped(p, r)
    BY <1>1, StateMoves DEF State, OnPath
  <1>4. UNCHANGED <<tree, task, given, left, job, saved>>
    BY DEF Technical, figureVars
  <1> HIDE DEF r
  <1> QED BY <1>1, <1>2, <1>3, <1>4, RowStepTypes

LEMMA EditorialTypes == ASSUME Typed, NEW p \in Pipeline, Editorial(p) PROVE Typed'
  <1> DEFINE back == [row[p] EXCEPT
               !.state = Landing("CITATION_VERIFY", "DRAFTED", row[p].revisions),
               !.revisions = RevisionsAfter("CITATION_VERIFY", "DRAFTED", @)]
             on == [row[p] EXCEPT !.state = "EDITORIAL_VERIFY"]
  <1>1. row' = [row EXCEPT ![p] = back] \/ row' = [row EXCEPT ![p] = on]
    BY DEF Editorial
  <1>2. task[p] = Idle /\ job[p] = NoJob /\ row[p].state = "CITATION_VERIFY"
    BY DEF Editorial, Steps, Free
  <1>3. RowTyped(p, on)
    BY <1>2, StateMoves DEF State, OnPath
  <1>4. RowTyped(p, back)
    <2>1. RowTyped(p, row[p])
      BY DEF Typed
    <2>2. <<"CITATION_VERIFY", "DRAFTED">> \in BackwardEdges
      BY DEF BackwardEdges
    <2>3. /\ DOMAIN back = RowFields /\ back.patches = row[p].patches
          /\ back.state = Landing("CITATION_VERIFY", "DRAFTED", row[p].revisions)
          /\ back.revisions = RevisionsAfter("CITATION_VERIFY", "DRAFTED", row[p].revisions)
      BY <2>1 DEF RowTyped, RowFields
    <2> HIDE DEF back
    <2>4. /\ back.state = IF row[p].revisions + 1 > MaxRevisions
                          THEN "NEEDS_HUMAN" ELSE "DRAFTED"
          /\ back.revisions = row[p].revisions + 1
      BY <2>2, <2>3 DEF Landing, RevisionsAfter
    <2>5. /\ row[p].revisions \in Nat /\ row[p].revisions <= MaxRevisions
          /\ Len(row[p].patches) = Size(given, p)
      BY <1>2, <2>1, MaxRevisionsAssumption DEF RowTyped
    <2> QED BY <2>3, <2>4, <2>5, MaxRevisionsAssumption DEF RowTyped, State, OnPath
  <1>5. UNCHANGED <<tree, task, given, left, job, saved>>
    BY DEF Editorial, figureVars
  <1> HIDE DEF back, on
  <1> QED BY <1>1, <1>2, <1>3, <1>4, <1>5, RowStepTypes

\* The job that begins, or turns to the next requirement, has one to work on.
LEMMA OnwardTypes ==
    ASSUME NEW files, NEW rest, NEW placed
    PROVE  JobTyped(files, Onward(rest, placed)) /\ Onward(rest, placed) # NoJob
  BY DEF Onward, JobTyped, NoJob

LEMMA VisualTypes == ASSUME Typed, NEW p \in Pipeline, Visual(p) PROVE Typed'
  <1> DEFINE keys == Needed(row[p].patches)
             r == [row[p] EXCEPT !.state = "VISUAL"]
  <1>1. \/ row' = [row EXCEPT ![p] = r] /\ UNCHANGED job
        \/ job' = [job EXCEPT ![p] = Onward(keys, {})] /\ UNCHANGED row
    BY DEF Visual, Opened
  <1>2. task[p] = Idle /\ job[p] = NoJob /\ row[p].state = "EDITORIAL_VERIFY"
    BY DEF Visual, Steps, Free
  <1>3. UNCHANGED <<tree, task, given, left, saved>>
    BY DEF Visual
  <1>4. CASE row' = [row EXCEPT ![p] = r] /\ UNCHANGED job
    <2>1. RowTyped(p, r)
      BY <1>2, StateMoves DEF State, OnPath
    <2> HIDE DEF r
    <2> QED BY <1>2, <1>3, <1>4, <2>1, RowStepTypes
  <1>5. CASE job' = [job EXCEPT ![p] = Onward(keys, {})] /\ UNCHANGED row
    <2> DEFINE j == Onward(keys, {})
    <2>1. JobTyped(DOMAIN saved', j) /\ j # NoJob
      BY OnwardTypes
    <2> HIDE DEF j, keys
    <2>2. job' = [job EXCEPT ![p] = j]
      BY <1>5 DEF j
    <2>3. BusyTyped(row[p], task[p], j) /\ RowTyped(p, row[p])
      BY <1>2 DEF BusyTyped, Typed
    <2>4. DOMAIN tree' = Chapter /\ left' \subseteq Pipeline
      BY <1>3 DEF Typed
    <2> QED BY <1>3, <1>5, <2>1, <2>2, <2>3, <2>4, StepTypes
  <1> QED BY <1>1, <1>4, <1>5

\* The visual pipeline works on.
LEMMA JobStepTypes ==
    ASSUME Typed, NEW p \in Pipeline, NEW j, job' = [job EXCEPT ![p] = j],
           job[p] # NoJob, JobTyped(DOMAIN saved', j), DOMAIN saved \subseteq DOMAIN saved',
           UNCHANGED <<row, tree, task, given, left>>
    PROVE  Typed'
  <1>1. BusyTyped(row[p], task[p], job[p]) /\ RowTyped(p, row[p])
    BY DEF Typed
  <1>2. BusyTyped(row[p], task[p], j)
    BY <1>1 DEF BusyTyped
  <1>3. DOMAIN tree' = Chapter /\ left' \subseteq Pipeline
    BY DEF Typed
  <1> QED BY <1>1, <1>2, <1>3, StepTypes

LEMMA SearchTypes ==
    ASSUME Typed, NEW p \in Pipeline, Search(p), UNCHANGED <<row, tree, task, given, left>>
    PROVE  Typed'
  <1> DEFINE j == job[p]
             key == Head(j.left)
  <1>1. j # NoJob /\ j.at = "search" /\ JobTyped(DOMAIN saved, j)
    BY DEF Search, Working, NoJob, Typed
  <1>2. PICK found \in Searches(key) :
          \E got \in SUBSET {i \in DOMAIN found : Redistributable(found[i])} :
            /\ DOMAIN saved' = DOMAIN saved \cup {PathOf(key, i) : i \in got}
            /\ job' = [job EXCEPT ![p] =
                 [at |-> "judge", left |-> j.left, placed |-> j.placed,
                  round |-> j.round, refine |-> FALSE,
                  candidates |-> {[path |-> PathOf(key, i), i |-> i, image |-> found[i]] :
                                     i \in got}]]
    BY DEF Search
  <1>3. PICK got \in SUBSET {i \in DOMAIN found : Redistributable(found[i])} :
          /\ DOMAIN saved' = DOMAIN saved \cup {PathOf(key, i) : i \in got}
          /\ job' = [job EXCEPT ![p] =
               [at |-> "judge", left |-> j.left, placed |-> j.placed,
                round |-> j.round, refine |-> FALSE,
                candidates |-> {[path |-> PathOf(key, i), i |-> i, image |-> found[i]] :
                                   i \in got}]]
    BY <1>2
  <1>4. got \subseteq Nat
    BY DEF Searches
  <1> DEFINE candidates == {[path |-> PathOf(key, i), i |-> i, image |-> found[i]] : i \in got}
             new == [at |-> "judge", left |-> j.left, placed |-> j.placed,
                     round |-> j.round, refine |-> FALSE, candidates |-> candidates]
  <1>5. CandidatesIn(DOMAIN saved', candidates)
    <2>1. ASSUME NEW c \in candidates PROVE c.i \in Nat /\ c.path \in DOMAIN saved'
      <3>1. PICK i \in got : c = [path |-> PathOf(key, i), i |-> i, image |-> found[i]]
        OBVIOUS
      <3> QED BY <1>3, <1>4, <3>1
    <2> HIDE DEF candidates
    <2> QED BY <2>1 DEF CandidatesIn
  <1>6. j.left # <<>>
    BY <1>1 DEF JobTyped
  <1>7. job' = [job EXCEPT ![p] = new]
    BY <1>3
  <1> HIDE DEF candidates
  <1>8. JobTyped(DOMAIN saved', new)
    BY <1>5, <1>6 DEF JobTyped
  <1>9. DOMAIN saved \subseteq DOMAIN saved'
    BY <1>3
  <1> HIDE DEF new
  <1> QED BY <1>1, <1>7, <1>8, <1>9, JobStepTypes

LEMMA JudgeTypes ==
    ASSUME Typed, NEW p \in Pipeline, Judge(p), UNCHANGED <<row, tree, task, given, left>>
    PROVE  Typed'
  <1> DEFINE j    == job[p]
             c    == Next1(j.candidates)
             rest == [j EXCEPT !.candidates = @ \ {c}]
             few  == [at |-> "judge", left |-> j.left, placed |-> j.placed,
                      round |-> j.round, refine |-> j.refine,
                      candidates |-> j.candidates \ {c}]
             more == [at |-> "judge", left |-> j.left, placed |-> j.placed,
                      round |-> j.round, refine |-> TRUE,
                      candidates |-> j.candidates \ {c}]
             new  == [at |-> "check", left |-> j.left, placed |-> j.placed,
                      round |-> j.round, refine |-> j.refine,
                      candidates |-> rest.candidates, path |-> c.path,
                      info |-> LicenceOf(c.image), seen |-> saved[c.path], drawn |-> FALSE]
  <1>1. j # NoJob /\ j.at = "judge" /\ j.candidates # {} /\ UNCHANGED saved
    BY DEF Judge, Working, NoJob
  <1>2. JobTyped(DOMAIN saved, j)
    BY DEF Typed
  <1>3. /\ j = [at |-> "judge", left |-> j.left, placed |-> j.placed, round |-> j.round,
                refine |-> j.refine, candidates |-> j.candidates]
        /\ CandidatesIn(DOMAIN saved, j.candidates) /\ j.left # <<>>
    BY <1>1, <1>2 DEF JobTyped
  <1>4. c \in j.candidates /\ c.path \in DOMAIN saved
    BY <1>1, <1>3, FirstCandidate DEF CandidatesIn
  <1>5. CandidatesIn(DOMAIN saved, j.candidates \ {c})
    BY <1>3 DEF CandidatesIn
  <1>6. rest = few
    BY <1>3
  <1>7. [rest EXCEPT !.refine = TRUE] = more
    <2> HIDE DEF rest
    <2>1. \A now : [rest EXCEPT !.refine = now]
                     = [at |-> "judge", left |-> j.left, placed |-> j.placed,
                        round |-> j.round, refine |-> now,
                        candidates |-> j.candidates \ {c}]
      BY <1>6, MarkedToRefine
    <2> QED BY <2>1, Zenon
  <1>8. \/ job' = [job EXCEPT ![p] = rest]
        \/ job' = [job EXCEPT ![p] = [rest EXCEPT !.refine = TRUE]]
        \/ job' = [job EXCEPT ![p] = new]
    BY DEF Judge
  <1>9. JobTyped(DOMAIN saved', few)
    BY <1>1, <1>3, <1>5 DEF JobTyped
  <1>10. JobTyped(DOMAIN saved', more)
    BY <1>1, <1>3, <1>5 DEF JobTyped
  <1>11. JobTyped(DOMAIN saved', new)
    <2>1. CandidatesIn(DOMAIN saved', rest.candidates)
      BY <1>1, <1>5, <1>6
    <2> HIDE DEF rest, c
    <2> QED BY <1>1, <1>3, <1>4, <2>1 DEF JobTyped
  <1> HIDE DEF rest, few, more, new
  <1>12. \/ job' = [job EXCEPT ![p] = few]
         \/ job' = [job EXCEPT ![p] = more]
         \/ job' = [job EXCEPT ![p] = new]
    BY <1>6, <1>7, <1>8, Zenon
  <1> QED BY <1>1, <1>9, <1>10, <1>11, <1>12, JobStepTypes

LEMMA CheckTypes ==
    ASSUME Typed, NEW p \in Pipeline, Check(p), UNCHANGED <<row, tree, task, given, left>>
    PROVE  Typed'
  <1> DEFINE j == job[p]
             new == [at |-> "place", left |-> j.left, placed |-> j.placed,
                     path |-> j.path, info |-> j.info, seen |-> j.seen,
                     checked |-> saved[j.path]]
             next == Onward(Tail(j.left), j.placed)
             back == Dropped(j, j.refine)
  <1>1. j # NoJob /\ j.at = "check" /\ UNCHANGED saved /\ JobTyped(DOMAIN saved, j)
    BY DEF Check, Working, NoJob, Typed
  <1>2. /\ j.left # <<>> /\ j.path \in DOMAIN saved
        /\ j.drawn \/ CandidatesIn(DOMAIN saved, j.candidates)
    BY <1>1 DEF JobTyped
  <1>3. \/ job' = [job EXCEPT ![p] = new]
        \/ job' = [job EXCEPT ![p] = next]
        \/ ~j.drawn /\ job' = [job EXCEPT ![p] = back]
    BY DEF Check
  <1>4. JobTyped(DOMAIN saved', new)
    BY <1>1, <1>2 DEF JobTyped
  <1>5. JobTyped(DOMAIN saved', next)
    BY OnwardTypes
  <1>6. ~j.drawn => JobTyped(DOMAIN saved', back)
    BY <1>1, <1>2 DEF JobTyped, Dropped
  <1> HIDE DEF new, next, back
  <1> QED BY <1>1, <1>3, <1>4, <1>5, <1>6, JobStepTypes

LEMMA IllustrateTypes == ASSUME Typed, NEW p \in Pipeline, Illustrate(p) PROVE Typed'
  <1>1. VisualStep(p) /\ UNCHANGED <<row, tree, task, given, left>>
    BY DEF Illustrate
  <1>2. JobTyped(DOMAIN saved, job[p])
    BY DEF Typed
  <1>3. ASSUME Refine(p) PROVE Typed'
    <2> DEFINE new == IF job[p].round < MaxRounds /\ job[p].refine
                      THEN [at |-> "search", left |-> job[p].left, placed |-> job[p].placed,
                            round |-> job[p].round + 1]
                      ELSE [at |-> "draw", left |-> job[p].left, placed |-> job[p].placed]
    <2>1. /\ job' = [job EXCEPT ![p] = new] /\ job[p] # NoJob /\ UNCHANGED saved
          /\ job[p].left # <<>>
      BY <1>2, <1>3 DEF Refine, Working, NoJob, JobTyped
    <2>2. JobTyped(DOMAIN saved', new)
      BY <2>1 DEF JobTyped
    <2> HIDE DEF new
    <2> QED BY <1>1, <2>1, <2>2, JobStepTypes
  <1>4. ASSUME Draw(p) PROVE Typed'
    <2> DEFINE path == <<"generated", Head(job[p].left), 1>>
               image == Drawn(p, Head(job[p].left))
               new == [at |-> "check", left |-> job[p].left, placed |-> job[p].placed,
                       path |-> path, info |-> [source |-> image.id, licence |-> "cc0"],
                       seen |-> image, drawn |-> TRUE]
    <2>1. /\ job' = [job EXCEPT ![p] = new] /\ job[p] # NoJob /\ job[p].left # <<>>
          /\ DOMAIN saved' = DOMAIN saved \cup {path}
      BY <1>2, <1>4 DEF Draw, Working, NoJob, JobTyped
    <2> HIDE DEF path, image
    <2>2. JobTyped(DOMAIN saved', new)
      BY <2>1 DEF JobTyped
    <2> HIDE DEF new
    <2>3. DOMAIN saved \subseteq DOMAIN saved'
      BY <2>1
    <2> QED BY <1>1, <2>1, <2>2, <2>3, JobStepTypes
  <1>5. ASSUME GiveUp(p) \/ Record(p) PROVE Typed'
    <2>1. /\ \E placed : job' = [job EXCEPT ![p] = Onward(Tail(job[p].left), placed)]
          /\ job[p] # NoJob /\ UNCHANGED saved
      BY <1>5 DEF GiveUp, Record, Working, NoJob
    <2>2. PICK placed : job' = [job EXCEPT ![p] = Onward(Tail(job[p].left), placed)]
      BY <2>1
    <2> DEFINE new == Onward(Tail(job[p].left), placed)
    <2>3. JobTyped(DOMAIN saved', new)
      BY OnwardTypes
    <2>4. job' = [job EXCEPT ![p] = new]
      BY <2>2
    <2> HIDE DEF new
    <2> QED BY <1>1, <2>1, <2>3, <2>4, JobStepTypes
  <1>6. ASSUME Place(p) PROVE Typed'
    <2> DEFINE new == [at |-> "record", left |-> job[p].left, placed |-> job[p].placed,
                       info |-> job[p].info, image |-> saved[job[p].path]]
    <2>1. /\ job' = [job EXCEPT ![p] = new] /\ job[p] # NoJob /\ UNCHANGED saved
          /\ job[p].left # <<>>
      BY <1>2, <1>6 DEF Place, Working, NoJob, JobTyped
    <2>2. JobTyped(DOMAIN saved', new)
      BY <2>1 DEF JobTyped
    <2> HIDE DEF new
    <2> QED BY <1>1, <2>1, <2>2, JobStepTypes
  <1> QED BY <1>1, <1>3, <1>4, <1>5, <1>6, SearchTypes, JudgeTypes, CheckTypes
          DEF VisualStep

LEMMA EndVisualTypes ==
    ASSUME Typed, NEW p \in Pipeline, EndVisual(p) \/ FailVisual(p)
    PROVE  Typed'
  <1>1. PICK s \in {"VISUAL", "FAILED"} : row' = [row EXCEPT ![p].state = s]
    BY DEF EndVisual, FailVisual
  <1> DEFINE r == [row[p] EXCEPT !.state = s]
  <1>2. row' = [row EXCEPT ![p] = r]
    BY <1>1
  <1>3. job[p] # NoJob /\ job' = [job EXCEPT ![p] = NoJob]
    BY DEF EndVisual, FailVisual, Break, Working, NoJob
  <1>4. BusyTyped(row[p], task[p], job[p])
    BY DEF Typed
  <1>5. row[p].state = "EDITORIAL_VERIFY" /\ task[p] = Idle
    BY <1>3, <1>4 DEF BusyTyped
  <1>6. RowTyped(p, r)
    <2>1. s \in State
      BY DEF State, OnPath
    <2> QED BY <1>5, <2>1, StateMoves
  <1> HIDE DEF r
  <1>7. BusyTyped(r, task[p], NoJob) /\ JobTyped(DOMAIN saved', NoJob)
    BY <1>5 DEF BusyTyped, JobTyped, NoJob
  <1>8. UNCHANGED <<tree, task, given, left, saved>>
    BY DEF EndVisual, FailVisual, Break
  <1>9. DOMAIN tree' = Chapter /\ left' \subseteq Pipeline
    BY <1>8 DEF Typed
  <1> QED BY <1>2, <1>3, <1>6, <1>7, <1>8, <1>9, StepTypes

LEMMA BeginQaTypes == ASSUME Typed, NEW p \in Pipeline, BeginQa(p) PROVE Typed'
  <1> DEFINE patches == row[p].patches
             trees   == Trees(tree, patches)
             applied == Applied(tree, patches)
             result  == trees[Len(applied)]
             failed  == [row[p] EXCEPT !.state = "FAILED"]
             t       == [at |-> "qa", applied |-> applied]
  <1>1. row[p].state = "VISUAL" /\ task[p] = Idle /\ job[p] = NoJob
    BY DEF BeginQa, Steps, Free
  <1>2. UNCHANGED <<given, left, job, saved>>
    BY DEF BeginQa, figureVars
  <1>3. RowTyped(p, row[p])
    BY DEF Typed
  <1>4. Len(patches) \in Nat
    <2>1. Len(given.targets[p]) \in Nat
      BY BookAssumption, LenProperties DEF Typed, IsSequence
    <2>2. Size(given, p) \in Nat
      BY <2>1, BookAssumption DEF Size, Lesser
    <2> QED BY <1>1, <1>3, <2>2 DEF RowTyped
  <1>5. DOMAIN result = Chapter
    <2>1. DOMAIN tree = Chapter
      BY DEF Typed
    <2> HIDE DEF patches
    <2> QED BY <1>4, <2>1, TreesTyped
  <1>6. \/ tree' = result /\ task' = [task EXCEPT ![p] = t] /\ UNCHANGED row
        \/ /\ tree' = Reverted(result, applied)
           /\ row' = [row EXCEPT ![p] = failed] /\ UNCHANGED task
    BY DEF BeginQa
  <1>7. DOMAIN Reverted(result, applied) = Chapter
    BY <1>5 DEF Reverted
  <1> HIDE DEF result, applied
  <1>8. DOMAIN tree' = Chapter /\ left' \subseteq Pipeline
    BY <1>2, <1>5, <1>6, <1>7 DEF Typed
  <1>9. RowTyped(p, failed) /\ failed.state = "FAILED"
    BY <1>1, StateMoves DEF State
  <1>10. BusyTyped(row[p], t, job[p]) /\ BusyTyped(failed, task[p], job[p])
    BY <1>1 DEF BusyTyped
  <1>11. JobTyped(DOMAIN saved', job[p])
    BY <1>1 DEF JobTyped, NoJob
  <1> HIDE DEF failed, t
  <1> QED BY <1>2, <1>3, <1>6, <1>8, <1>9, <1>10, <1>11, StepTypes

LEMMA EndQaTypes == ASSUME Typed, NEW p \in Pipeline, EndQa(p) PROVE Typed'
  <1>1. PICK skipped \in SUBSET Checks :
          \/ /\ row' = [row EXCEPT ![p].state = "BOOK_QA", ![p].skipped = skipped]
             /\ UNCHANGED tree
          \/ tree' = Reverted(tree, task[p].applied) /\ UNCHANGED row
    BY DEF EndQa
  <1>2. /\ task[p] # Idle /\ task' = [task EXCEPT ![p] = Idle]
        /\ UNCHANGED <<given, left, job, saved>>
    BY DEF EndQa, figureVars
  <1> DEFINE r == [row[p] EXCEPT !.state = "BOOK_QA", !.skipped = skipped]
  <1>3. row[p].state = "VISUAL" /\ job[p] = NoJob /\ RowTyped(p, row[p])
    BY <1>2 DEF Typed, BusyTyped
  <1>4. RowTyped(p, r)
    <2>1. /\ DOMAIN r = RowFields /\ r.state = "BOOK_QA" /\ r.patches = row[p].patches
          /\ r.revisions = row[p].revisions
      BY <1>3 DEF RowTyped, RowFields
    <2> HIDE DEF r
    <2> QED BY <1>3, <2>1 DEF RowTyped, State, OnPath
  <1>5. row' = [row EXCEPT ![p] = r] \/ row' = row
    BY <1>1
  <1>6. DOMAIN tree' = Chapter /\ left' \subseteq Pipeline
    BY <1>1, <1>2 DEF Typed, Reverted
  <1> HIDE DEF r
  <1>7. BusyTyped(r, Idle, NoJob) /\ BusyTyped(row[p], Idle, NoJob)
          /\ JobTyped(DOMAIN saved', NoJob)
    BY DEF BusyTyped, JobTyped, NoJob
  <1> QED BY <1>2, <1>3, <1>4, <1>5, <1>6, <1>7, StepTypes

LEMMA FailQaTypes == ASSUME Typed, NEW p \in Pipeline, FailQa(p) PROVE Typed'
  <1> DEFINE r == [row[p] EXCEPT !.state = "FAILED"]
  <1>1. /\ task[p] # Idle /\ row' = [row EXCEPT ![p] = r]
        /\ task' = [task EXCEPT ![p] = Idle] /\ left' = left \cup {p}
        /\ UNCHANGED <<tree, given, job, saved>>
    BY DEF FailQa, figureVars
  <1>2. row[p].state = "VISUAL" /\ job[p] = NoJob
    BY <1>1 DEF Typed, BusyTyped
  <1>3. RowTyped(p, r)
    BY <1>2, StateMoves DEF State
  <1> HIDE DEF r
  <1>4. BusyTyped(r, Idle, NoJob) /\ JobTyped(DOMAIN saved', NoJob)
    BY DEF BusyTyped, JobTyped, NoJob
  <1>5. DOMAIN tree' = Chapter /\ left' \subseteq Pipeline
    BY <1>1 DEF Typed
  <1> QED BY <1>1, <1>2, <1>3, <1>4, <1>5, StepTypes

LEMMA CrashTypes == ASSUME Typed, Crash PROVE Typed'
  <1>1. /\ task' = [p \in Pipeline |-> Idle] /\ job' = [p \in Pipeline |-> NoJob]
        /\ left' \subseteq Pipeline /\ UNCHANGED <<row, tree, given, saved>>
    BY DEF Crash, Typed
  <1>2. \A p \in Pipeline : /\ RowTyped(p, row[p])' /\ JobTyped(DOMAIN saved', job'[p])
                            /\ BusyTyped(row'[p], task'[p], job'[p])
    BY <1>1 DEF Typed, RowTyped, JobTyped, BusyTyped, NoJob
  <1> QED BY <1>1, <1>2 DEF Typed

LEMMA StutterTypes == ASSUME Typed, UNCHANGED vars PROVE Typed'
  <1>1. UNCHANGED <<row, tree, task, given, left, job, saved>>
    BY DEF vars
  <1>2. \A p \in Pipeline : RowTyped(p, row[p])'
    BY <1>1 DEF Typed, RowTyped
  <1> QED BY <1>1, <1>2 DEF Typed

LEMMA NextTypes == ASSUME Typed, [Next]_vars PROVE Typed'
  BY DraftTypes, TechnicalTypes, EditorialTypes, VisualTypes, IllustrateTypes,
     EndVisualTypes, BeginQaTypes, EndQaTypes, FailQaTypes, CrashTypes, StutterTypes DEF Next

LEMMA SizeFits ==
    ASSUME given \in Cases, NEW p \in Pipeline
    PROVE  /\ Size(given, p) \in Nat
           /\ 1 .. Size(given, p) \subseteq DOMAIN given.targets[p]
           /\ \A k \in 1 .. Size(given, p) : given.targets[p][k].chapter \in Chapter
  <1> DEFINE targets == given.targets[p]
  <1>1. IsSequence(targets) /\ \A i \in DOMAIN targets : targets[i].chapter \in Chapter
    BY BookAssumption
  <1> HIDE DEF targets
  <1>2. Len(targets) \in Nat /\ DOMAIN targets = 1 .. Len(targets)
    BY <1>1, LenProperties DEF IsSequence
  <1>3. Size(given, p) \in Nat /\ Size(given, p) <= Len(targets)
    BY <1>2, BookAssumption DEF Size, Lesser, targets
  <1> QED BY <1>1, <1>2, <1>3 DEF targets

-----------------------------------------------------------------------------
(* The jobs of the visual pipelines, and the files they work in *)

\* The file of a candidate is of one of these keys, and still holds the image the search
\* reported.
CandidatesStand(keys, files, candidates) ==
    \A c \in candidates :
        /\ c.i \in Nat /\ c.path[2] \in keys
        /\ c.path \in DOMAIN files /\ files[c.path] = c.image

\* The file chosen holds the image that was looked at, which may be printed under the
\* licence that was found.
ChoiceStands(keys, files, j) ==
    /\ j.path[2] \in keys
    /\ j.path \in DOMAIN files /\ files[j.path] = j.seen
    /\ MayBePrinted(j.seen)
    /\ j.info.source = j.seen.id

JobStands(keys, files, j) ==
    /\ j.at \notin {"none", "done"} => j.left \in Seq(keys) /\ j.left # <<>>
    /\ j.at = "judge" => CandidatesStand(keys, files, j.candidates)
    /\ j.at = "check" => /\ ChoiceStands(keys, files, j)
                         /\ j.drawn \/ CandidatesStand(keys, files, j.candidates)
    /\ j.at = "place" => ChoiceStands(keys, files, j) /\ j.checked = j.seen

\* A draft asks for the figures of its edits.
DraftAsks(keys, patches) ==
    \A i \in 1 .. Len(patches) : patches[i].figure \in keys \cup {""}

\* Two visual pipelines are under way only where the case lets them.
JobsShareTime ==
    \A p, q \in Pipeline : job[p] # NoJob /\ job[q] # NoJob => p = q \/ given.overlap

Inv ==
    /\ JobsShareTime
    /\ FiguresAreCleared
    /\ \A p \in Pipeline : JobStands(Asked(given, p), saved, job[p])
    /\ \A p \in Pipeline : DraftAsks(Asked(given, p), row[p].patches)

\* What the recursion of Needed has come to after the first n patches.
NeededSoFar(patches, f, n) ==
    IF n = 0 THEN <<>>
    ELSE IF patches[n].figure = "" THEN f[n - 1]
    ELSE Append(f[n - 1], patches[n].figure)

\* It has a solution, so the function it names is one.
LEMMA NeededIsDefined ==
    ASSUME NEW patches, NEW N \in Nat, Len(patches) = N
    PROVE  \E f : /\ f = [n \in 0 .. N |-> NeededSoFar(patches, f, n)]
                  /\ Needed(patches) = f[N]
  <1> DEFINE Solves(g, m) == g = [n \in 0 .. m |-> NeededSoFar(patches, g, n)]
             Bad == {m \in 0 .. N : ~ \E g : Solves(g, m)}
  <1>1. ASSUME NEW m \in Bad, \A k \in Bad : m <= k PROVE FALSE
    <2>1. CASE m = 0
      <3> DEFINE g == [n \in 0 .. 0 |-> <<>>]
      <3>1. ASSUME NEW n \in 0 .. 0 PROVE g[n] = NeededSoFar(patches, g, n)
        <4>1. n = 0 /\ g[n] = <<>>
          OBVIOUS
        <4> HIDE DEF g
        <4> QED BY <4>1 DEF NeededSoFar
      <3>2. Solves(g, 0)
        BY <3>1
      <3> HIDE DEF g
      <3> QED BY <2>1, <3>2
    <2>2. CASE m # 0
      <3>1. m - 1 \in 0 .. N /\ m - 1 \notin Bad /\ m \in Nat
        BY <1>1, <2>2
      <3>2. PICK g : Solves(g, m - 1)
        BY <3>1
      <3> DEFINE h == [n \in 0 .. m |->
                         IF n = m THEN NeededSoFar(patches, g, m) ELSE g[n]]
      <3>3. ASSUME NEW n \in 0 .. m PROVE h[n] = NeededSoFar(patches, h, n)
        <4>1. CASE n = m
          <5>1. h[m - 1] = g[m - 1]
            BY <2>2, <3>1
          <5> QED BY <2>2, <4>1, <5>1 DEF NeededSoFar
        <4>2. CASE n # m
          <5>1. n \in 0 .. (m - 1) /\ h[n] = g[n]
            BY <3>1, <4>2
          <5>2. g[n] = NeededSoFar(patches, g, n)
            BY <3>2, <5>1
          <5>3. n # 0 => h[n - 1] = g[n - 1]
            BY <3>1, <5>1
          <5> QED BY <5>1, <5>2, <5>3 DEF NeededSoFar
        <4> QED BY <4>1, <4>2
      <3>4. Solves(h, m)
        BY <3>3
      <3> QED BY <3>4
    <2> QED BY <2>1, <2>2
  <1>2. Bad \subseteq Nat
    OBVIOUS
  <1>3. Bad = {}
    BY <1>1, <1>2, SmallestOf
  <1>4. \E g : Solves(g, N)
    BY <1>3
  <1> DEFINE f == CHOOSE f : f = [n \in 0 .. Len(patches) |->
                     IF n = 0 THEN <<>>
                     ELSE IF patches[n].figure = "" THEN f[n - 1]
                     ELSE Append(f[n - 1], patches[n].figure)]
  <1>5. f = [n \in 0 .. N |-> NeededSoFar(patches, f, n)]
    BY <1>4 DEF NeededSoFar
  <1>6. Needed(patches) = f[N]
    BY DEF Needed
  <1> QED BY <1>5, <1>6

\* The figures a draft needs are the ones its edits name.
LEMMA NeededAreAsked ==
    ASSUME NEW keys, NEW patches, Len(patches) \in Nat, DraftAsks(keys, patches)
    PROVE  Needed(patches) \in Seq(keys)
  <1> DEFINE N == Len(patches)
  <1>1. PICK f : /\ f = [n \in 0 .. N |-> NeededSoFar(patches, f, n)]
                 /\ Needed(patches) = f[N]
    BY NeededIsDefined
  <1> DEFINE Bad == {n \in 0 .. N : f[n] \notin Seq(keys)}
  <1>2. ASSUME NEW n \in Bad, \A k \in Bad : n <= k PROVE FALSE
    <2>1. f[n] = NeededSoFar(patches, f, n)
      BY <1>1
    <2>2. CASE n = 0
      <3>1. f[n] = <<>> /\ <<>> \in Seq(keys)
        BY <2>1, <2>2 DEF NeededSoFar
      <3> QED BY <3>1
    <2>3. CASE n # 0
      <3>1. n - 1 \in 0 .. N /\ n - 1 \notin Bad /\ n \in 1 .. N
        BY <1>2, <2>3
      <3>2. f[n - 1] \in Seq(keys)
        BY <3>1
      <3>3. patches[n].figure \in keys \cup {""}
        BY <3>1 DEF DraftAsks
      <3>4. ASSUME patches[n].figure # ""
            PROVE  Append(f[n - 1], patches[n].figure) \in Seq(keys)
        <4> DEFINE key == patches[n].figure
                   before == f[n - 1]
        <4>1. key \in keys
          BY <3>3, <3>4
        <4>2. before \in Seq(keys)
          BY <3>2
        <4> HIDE DEF key, before
        <4>3. Append(before, key) \in Seq(keys)
          BY <4>1, <4>2, AppendProperties
        <4> QED BY <4>3 DEF key, before
      <3>5. f[n] = f[n - 1] \/ (/\ patches[n].figure # ""
                                /\ f[n] = Append(f[n - 1], patches[n].figure))
        BY <2>1, <2>3 DEF NeededSoFar
      <3> QED BY <3>2, <3>4, <3>5
    <2> QED BY <2>2, <2>3
  <1>3. Bad \subseteq Nat
    OBVIOUS
  <1>4. Bad = {}
    BY <1>2, <1>3, SmallestOf
  <1> QED BY <1>1, <1>4

\* A job that turns to what is left of its figures.
LEMMA OnwardStands ==
    ASSUME NEW keys, NEW files, NEW rest \in Seq(keys), NEW placed
    PROVE  JobStands(keys, files, Onward(rest, placed)) /\ Onward(rest, placed) # NoJob
  BY DEF Onward, JobStands, NoJob

\* A job that works on disturbs no other: it writes to files of its own keys.
LEMMA StepStands ==
    ASSUME Typed, Inv, KeysAreApart, NEW p \in Pipeline, job[p] # NoJob,
           NEW new, job' = [job EXCEPT ![p] = new], UNCHANGED <<given, row>>,
           JobStands(Asked(given, p), saved', new), FiguresAreCleared',
           \A f \in DOMAIN saved : /\ f \in DOMAIN saved'
                                   /\ f[2] \in Asked(given, p) \/ saved'[f] = saved[f]
    PROVE  Inv'
  <1>1. /\ given \in Cases
        /\ \A q \in Pipeline : job'[q] = IF q = p THEN new ELSE job[q]
    BY DEF Typed
  <1>2. JobsShareTime'
    BY <1>1 DEF Inv, JobsShareTime
  <1>3. ASSUME NEW q \in Pipeline, q # p PROVE JobStands(Asked(given, q), saved', job[q])
    <2>1. JobStands(Asked(given, q), saved, job[q])
      BY DEF Inv
    <2>2. CASE job[q] = NoJob
      BY <2>2 DEF JobStands, NoJob
    <2>3. CASE job[q] # NoJob
      <3>1. given.overlap
        BY <1>3, <2>3 DEF Inv, JobsShareTime
      <3>2. Asked(given, p) \cap Asked(given, q) = {}
        BY <1>1, <1>3, <3>1 DEF KeysAreApart
      <3> DEFINE mine == Asked(given, p)
                 others == Asked(given, q)
      <3> HIDE DEF mine, others
      <3>3. \A f \in DOMAIN saved : f[2] \in others => f \in DOMAIN saved' /\ saved'[f] = saved[f]
        BY <3>2 DEF mine, others
      <3>4. JobStands(others, saved, job[q])
        BY <2>1 DEF others
      <3>5. JobStands(others, saved', job[q])
        BY <3>3, <3>4 DEF JobStands, CandidatesStand, ChoiceStands
      <3> QED BY <3>5 DEF others
    <2> QED BY <2>2, <2>3
  <1>4. \A q \in Pipeline : JobStands(Asked(given', q), saved', job'[q])
    BY <1>1, <1>3
  <1>5. \A q \in Pipeline : DraftAsks(Asked(given', q), row'[q].patches)
    BY DEF Inv
  <1> QED BY <1>2, <1>4, <1>5 DEF Inv

\* A step that touches neither files nor figures.
LEMMA StillStands ==
    ASSUME Typed, Inv, KeysAreApart, NEW p \in Pipeline, job[p] # NoJob,
           NEW new, job' = [job EXCEPT ![p] = new], UNCHANGED <<given, row, saved, images>>,
           JobStands(Asked(given, p), saved, new)
    PROVE  Inv'
  <1>1. FiguresAreCleared'
    BY DEF Inv, FiguresAreCleared
  <1> QED BY <1>1, StepStands

\* The candidates downloaded are in files of their own.
LEMMA SearchStands ==
    ASSUME Typed, Inv, KeysAreApart, NEW p \in Pipeline, Search(p), UNCHANGED <<given, row>>
    PROVE  Inv'
  <1> DEFINE j    == job[p]
             key  == Head(j.left)
             keys == Asked(given, p)
  <1>1. job[p] # NoJob /\ j.at = "search" /\ UNCHANGED images
    BY DEF Search, Working, NoJob
  <1>2. j.left \in Seq(keys) /\ j.left # <<>> /\ key \in keys
    <2>1. JobStands(keys, saved, j)
      BY DEF Inv
    <2> HIDE DEF keys
    <2> QED BY <1>1, <2>1 DEF JobStands
  <1>3. PICK found \in Searches(key) :
          \E got \in SUBSET {i \in DOMAIN found : Redistributable(found[i])} :
            /\ saved' = [f \in DOMAIN saved \cup {PathOf(key, i) : i \in got} |->
                           LET new == {i \in got : PathOf(key, i) = f}
                           IN  IF new = {} THEN saved[f]
                               ELSE found[CHOOSE i \in new : \A k \in new : i >= k]]
            /\ job' = [job EXCEPT ![p] =
                 [at |-> "judge", left |-> j.left, placed |-> j.placed,
                  round |-> j.round, refine |-> FALSE,
                  candidates |-> {[path |-> PathOf(key, i), i |-> i, image |-> found[i]] :
                                     i \in got}]]
    BY DEF Search
  <1>4. PICK got \in SUBSET {i \in DOMAIN found : Redistributable(found[i])} :
          /\ saved' = [f \in DOMAIN saved \cup {PathOf(key, i) : i \in got} |->
                         LET new == {i \in got : PathOf(key, i) = f}
                         IN  IF new = {} THEN saved[f]
                             ELSE found[CHOOSE i \in new : \A k \in new : i >= k]]
          /\ job' = [job EXCEPT ![p] =
               [at |-> "judge", left |-> j.left, placed |-> j.placed,
                round |-> j.round, refine |-> FALSE,
                candidates |-> {[path |-> PathOf(key, i), i |-> i, image |-> found[i]] :
                                   i \in got}]]
    BY <1>3
  <1>5. got \subseteq Nat
    BY DEF Searches
  <1>6. ASSUME NEW i \in got
        PROVE  PathOf(key, i) \in DOMAIN saved' /\ saved'[PathOf(key, i)] = found[i]
    <2>1. {k \in got : PathOf(key, k) = PathOf(key, i)} = {i}
      BY DEF PathOf
    <2>2. (CHOOSE n \in {i} : \A k \in {i} : n >= k) = i
      BY <1>5
    <2> QED BY <1>4, <2>1, <2>2
  <1>7. ASSUME NEW f \in DOMAIN saved
        PROVE  f \in DOMAIN saved' /\ (f[2] \in keys \/ saved'[f] = saved[f])
    <2>1. \A i \in got : PathOf(key, i)[2] \in keys
      BY <1>2 DEF PathOf
    <2>2. CASE \E i \in got : PathOf(key, i) = f
      BY <1>4, <2>1, <2>2
    <2>3. CASE ~ \E i \in got : PathOf(key, i) = f
      BY <1>4, <2>3
    <2> QED BY <2>2, <2>3
  <1> DEFINE candidates == {[path |-> PathOf(key, i), i |-> i, image |-> found[i]] : i \in got}
             new == [at |-> "judge", left |-> j.left, placed |-> j.placed,
                     round |-> j.round, refine |-> FALSE, candidates |-> candidates]
  <1>8. CandidatesStand(keys, saved', candidates)
    <2>1. ASSUME NEW c \in candidates
          PROVE  /\ c.i \in Nat /\ c.path[2] \in keys
                 /\ c.path \in DOMAIN saved' /\ saved'[c.path] = c.image
      <3>1. PICK i \in got : c = [path |-> PathOf(key, i), i |-> i, image |-> found[i]]
        OBVIOUS
      <3>2. i \in Nat /\ PathOf(key, i) \in DOMAIN saved' /\ saved'[PathOf(key, i)] = found[i]
        BY <1>5, <1>6
      <3>3. PathOf(key, i)[2] \in keys
        BY <1>2 DEF PathOf
      <3> QED BY <3>1, <3>2, <3>3
    <2> HIDE DEF candidates, keys
    <2> QED BY <2>1 DEF CandidatesStand
  <1>9. job' = [job EXCEPT ![p] = new]
    BY <1>4
  <1> HIDE DEF candidates, keys
  <1>10. JobStands(keys, saved', new)
    BY <1>2, <1>8 DEF JobStands
  <1>11. FiguresAreCleared'
    BY <1>1 DEF Inv, FiguresAreCleared
  <1> HIDE DEF new
  <1> QED BY <1>1, <1>7, <1>9, <1>10, <1>11, StepStands DEF keys

\* What is accepted is the image in the file, and its licence is good.
LEMMA JudgeStands ==
    ASSUME Typed, Inv, KeysAreApart, NEW p \in Pipeline, Judge(p), UNCHANGED <<given, row>>
    PROVE  Inv'
  <1> DEFINE j    == job[p]
             c    == Next1(j.candidates)
             rest == [j EXCEPT !.candidates = @ \ {c}]
             keys == Asked(given, p)
             few  == [at |-> "judge", left |-> j.left, placed |-> j.placed,
                      round |-> j.round, refine |-> j.refine,
                      candidates |-> j.candidates \ {c}]
             more == [at |-> "judge", left |-> j.left, placed |-> j.placed,
                      round |-> j.round, refine |-> TRUE,
                      candidates |-> j.candidates \ {c}]
             new  == [at |-> "check", left |-> j.left, placed |-> j.placed,
                      round |-> j.round, refine |-> j.refine,
                      candidates |-> rest.candidates, path |-> c.path,
                      info |-> LicenceOf(c.image), seen |-> saved[c.path], drawn |-> FALSE]
  <1>1. /\ j # NoJob /\ j.at = "judge" /\ j.candidates # {}
        /\ UNCHANGED <<given, row, saved, images>>
    BY DEF Judge, Working, NoJob
  <1>2. j = [at |-> "judge", left |-> j.left, placed |-> j.placed, round |-> j.round,
             refine |-> j.refine, candidates |-> j.candidates]
    <2>1. JobTyped(DOMAIN saved, j)
      BY DEF Typed
    <2> QED BY <1>1, <2>1 DEF JobTyped
  <1>3. /\ CandidatesStand(keys, saved, j.candidates)
        /\ j.left \in Seq(keys) /\ j.left # <<>>
    <2>1. JobStands(keys, saved, j)
      BY DEF Inv
    <2> HIDE DEF keys
    <2> QED BY <1>1, <2>1 DEF JobStands
  <1> HIDE DEF keys
  <1>4. /\ c \in j.candidates /\ c.path[2] \in keys
        /\ c.path \in DOMAIN saved /\ saved[c.path] = c.image
    BY <1>1, <1>3, FirstCandidate DEF CandidatesStand
  <1>5. CandidatesStand(keys, saved, j.candidates \ {c})
    BY <1>3 DEF CandidatesStand
  <1>6. rest = few
    BY <1>2
  <1>7. [rest EXCEPT !.refine = TRUE] = more
    <2> HIDE DEF rest
    <2>1. \A now : [rest EXCEPT !.refine = now]
                     = [at |-> "judge", left |-> j.left, placed |-> j.placed,
                        round |-> j.round, refine |-> now,
                        candidates |-> j.candidates \ {c}]
      BY <1>6, MarkedToRefine
    <2> QED BY <2>1, Zenon
  <1>8. \/ job' = [job EXCEPT ![p] = rest]
        \/ job' = [job EXCEPT ![p] = [rest EXCEPT !.refine = TRUE]]
        \/ Clear(c.image) /\ job' = [job EXCEPT ![p] = new]
    BY DEF Judge
  <1>9. JobStands(keys, saved, few) /\ JobStands(keys, saved, more)
    BY <1>3, <1>5 DEF JobStands
  <1>10. ASSUME Clear(c.image) PROVE JobStands(keys, saved, new)
    <2>1. MayBePrinted(c.image)
      BY <1>10, ClearMayBePrinted
    <2>2. ChoiceStands(keys, saved, new)
      BY <1>4, <2>1 DEF ChoiceStands, LicenceOf
    <2>3. CandidatesStand(keys, saved, new.candidates)
      BY <1>5, <1>6
    <2> HIDE DEF c, rest
    <2> QED BY <1>3, <2>2, <2>3 DEF JobStands
  <1> HIDE DEF rest, few, more, new
  <1>11. \/ job' = [job EXCEPT ![p] = few]
         \/ job' = [job EXCEPT ![p] = more]
         \/ Clear(c.image) /\ job' = [job EXCEPT ![p] = new]
    BY <1>6, <1>7, <1>8, Zenon
  <1> QED BY <1>1, <1>9, <1>10, <1>11, StillStands DEF keys

\* A diagram is drawn under a licence of the book's own, to a file of its key.
LEMMA DrawStands ==
    ASSUME Typed, Inv, KeysAreApart, NEW p \in Pipeline, Draw(p), UNCHANGED <<given, row>>
    PROVE  Inv'
  <1> DEFINE j     == job[p]
             keys  == Asked(given, p)
             path  == <<"generated", Head(j.left), 1>>
             image == Drawn(p, Head(j.left))
             new   == [at |-> "check", left |-> j.left, placed |-> j.placed, path |-> path,
                       info |-> [source |-> image.id, licence |-> "cc0"], seen |-> image,
                       drawn |-> TRUE]
  <1>1. /\ j # NoJob /\ j.at = "draw" /\ UNCHANGED images /\ job' = [job EXCEPT ![p] = new]
        /\ saved' = [f \in DOMAIN saved \cup {path} |-> IF f = path THEN image ELSE saved[f]]
    BY DEF Draw, Working, NoJob
  <1>2. j.left \in Seq(keys) /\ j.left # <<>> /\ Head(j.left) \in keys
    <2>1. JobStands(keys, saved, j)
      BY DEF Inv
    <2> HIDE DEF keys
    <2> QED BY <1>1, <2>1 DEF JobStands
  <1>3. MayBePrinted(image)
    BY DEF MayBePrinted, Drawn
  <1>4. path[2] \in keys
    BY <1>2
  <1> HIDE DEF path, image, keys
  <1>5. path \in DOMAIN saved' /\ saved'[path] = image
    BY <1>1
  <1>6. JobStands(keys, saved', new)
    BY <1>2, <1>3, <1>4, <1>5 DEF JobStands, ChoiceStands
  <1>7. \A f \in DOMAIN saved : f \in DOMAIN saved' /\ (f[2] \in keys \/ saved'[f] = saved[f])
    BY <1>1, <1>4
  <1>8. FiguresAreCleared'
    BY <1>1 DEF Inv, FiguresAreCleared
  <1> HIDE DEF new
  <1> QED BY <1>1, <1>6, <1>7, <1>8, StepStands DEF keys

\* QA opens the file that the verifier opened, and nothing has been written to it.
LEMMA CheckStands ==
    ASSUME Typed, Inv, KeysAreApart, NEW p \in Pipeline, Check(p), UNCHANGED <<given, row>>
    PROVE  Inv'
  <1> DEFINE j    == job[p]
             keys == Asked(given, p)
             new  == [at |-> "place", left |-> j.left, placed |-> j.placed,
                      path |-> j.path, info |-> j.info, seen |-> j.seen,
                      checked |-> saved[j.path]]
             next == Onward(Tail(j.left), j.placed)
             back == Dropped(j, j.refine)
  <1>1. j # NoJob /\ j.at = "check" /\ UNCHANGED <<given, row, saved, images>>
    BY DEF Check, Working, NoJob
  <1>2. JobStands(keys, saved, j)
    BY DEF Inv
  <1> HIDE DEF keys
  <1>3. /\ ChoiceStands(keys, saved, j)
        /\ j.drawn \/ CandidatesStand(keys, saved, j.candidates)
        /\ j.left \in Seq(keys) /\ j.left # <<>>
    BY <1>1, <1>2 DEF JobStands
  <1>4. \/ job' = [job EXCEPT ![p] = new]
        \/ job' = [job EXCEPT ![p] = next]
        \/ ~j.drawn /\ job' = [job EXCEPT ![p] = back]
    BY DEF Check
  <1>5. JobStands(keys, saved, new)
    BY <1>3 DEF JobStands, ChoiceStands
  <1>6. JobStands(keys, saved, next)
    <2>1. Tail(j.left) \in Seq(keys)
      BY <1>3
    <2> QED BY <2>1, OnwardStands
  <1>7. ~j.drawn => JobStands(keys, saved, back)
    BY <1>3 DEF Dropped, JobStands
  <1> HIDE DEF new, next, back
  <1> QED BY <1>1, <1>4, <1>5, <1>6, <1>7, StillStands DEF keys

\* The bytes that are copied are those that were looked at.
LEMMA PlaceStands ==
    ASSUME Typed, Inv, KeysAreApart, NEW p \in Pipeline, Place(p), UNCHANGED <<given, row>>
    PROVE  Inv'
  <1> DEFINE j    == job[p]
             keys == Asked(given, p)
             key  == Head(j.left)
             f    == [image |-> saved[j.path], seen |-> j.seen, checked |-> j.checked,
                      info |-> j.info]
             new  == [at |-> "record", left |-> j.left, placed |-> j.placed, info |-> j.info,
                      image |-> saved[j.path]]
  <1>1. /\ j # NoJob /\ j.at = "place" /\ UNCHANGED saved /\ job' = [job EXCEPT ![p] = new]
        /\ images' = [k \in DOMAIN images \cup {key} |-> IF k = key THEN f ELSE images[k]]
    BY DEF Place, Working, NoJob
  <1>2. JobStands(keys, saved, j)
    BY DEF Inv
  <1> HIDE DEF keys
  <1>3. /\ ChoiceStands(keys, saved, j) /\ j.checked = j.seen
        /\ j.left \in Seq(keys) /\ j.left # <<>>
    BY <1>1, <1>2 DEF JobStands
  <1>4. /\ f.image = f.seen /\ f.image = f.checked /\ MayBePrinted(f.image)
        /\ f.info.source = f.image.id
    BY <1>3 DEF ChoiceStands
  <1>5. ASSUME NEW k \in DOMAIN images'
        PROVE  /\ images'[k].image = images'[k].seen
               /\ images'[k].image = images'[k].checked
               /\ MayBePrinted(images'[k].image)
               /\ images'[k].info.source = images'[k].image.id
    <2>1. CASE k = key
      BY <1>1, <1>4, <2>1
    <2>2. CASE k # key
      BY <1>1, <2>2 DEF Inv, FiguresAreCleared
    <2> QED BY <2>1, <2>2
  <1>6. FiguresAreCleared'
    BY <1>5 DEF FiguresAreCleared
  <1>7. JobStands(keys, saved', new)
    BY <1>3 DEF JobStands
  <1> HIDE DEF new
  <1> QED BY <1>1, <1>6, <1>7, StepStands DEF keys

\* The rest of it holds no image.
LEMMA VisualStands ==
    ASSUME Typed, Inv, KeysAreApart, NEW p \in Pipeline, VisualStep(p), UNCHANGED <<given, row>>
    PROVE  Inv'
  <1> DEFINE j    == job[p]
             keys == Asked(given, p)
  <1>1. JobStands(keys, saved, j)
    BY DEF Inv
  <1>2. ASSUME Refine(p) PROVE Inv'
    <2> DEFINE again == [at |-> "search", left |-> j.left, placed |-> j.placed,
                         round |-> j.round + 1]
               draw  == [at |-> "draw", left |-> j.left, placed |-> j.placed]
    <2>0. j.at = "judge" /\ j # NoJob /\ UNCHANGED <<given, row, saved, images>>
      BY <1>2 DEF Refine, Working, NoJob
    <2>1. job' = [job EXCEPT ![p] = again] \/ job' = [job EXCEPT ![p] = draw]
      BY <1>2 DEF Refine
    <2> HIDE DEF keys
    <2>2. JobStands(keys, saved, again) /\ JobStands(keys, saved, draw)
      BY <1>1, <2>0 DEF JobStands
    <2> HIDE DEF again, draw
    <2> QED BY <2>0, <2>1, <2>2, StillStands DEF keys
  <1>3. ASSUME GiveUp(p) \/ Record(p) PROVE Inv'
    <2>1. PICK placed : job' = [job EXCEPT ![p] = Onward(Tail(j.left), placed)]
      BY <1>3 DEF GiveUp, Record
    <2>2. j.at \in {"draw", "record"} /\ j # NoJob /\ UNCHANGED <<given, row, saved, images>>
      BY <1>3 DEF GiveUp, Record, Working, NoJob
    <2> HIDE DEF keys
    <2>3. Tail(j.left) \in Seq(keys)
      BY <1>1, <2>2 DEF JobStands
    <2> DEFINE new == Onward(Tail(j.left), placed)
    <2>4. JobStands(keys, saved, new)
      BY <2>3, OnwardStands
    <2> HIDE DEF new
    <2>5. job' = [job EXCEPT ![p] = new]
      BY <2>1 DEF new
    <2> QED BY <2>2, <2>4, <2>5, StillStands DEF keys
  <1> QED BY <1>2, <1>3, SearchStands, JudgeStands, DrawStands, CheckStands,
             PlaceStands DEF VisualStep

\* A job ends, or all of them do.
LEMMA EndStands ==
    ASSUME Inv, UNCHANGED <<given, saved, images>>,
           \A q \in Pipeline : job'[q] = NoJob \/ job'[q] = job[q],
           \A q \in Pipeline : DraftAsks(Asked(given, q), row'[q].patches)
    PROVE  Inv'
  <1>1. JobsShareTime'
    BY DEF Inv, JobsShareTime
  <1>2. \A keys : JobStands(keys, saved, NoJob)
    BY DEF JobStands, NoJob
  <1>3. \A q \in Pipeline : JobStands(Asked(given', q), saved', job'[q])
    BY <1>2 DEF Inv
  <1>4. FiguresAreCleared'
    BY DEF Inv, FiguresAreCleared
  <1>5. \A q \in Pipeline : DraftAsks(Asked(given', q), row'[q].patches)
    OBVIOUS
  <1> QED BY <1>1, <1>3, <1>4, <1>5 DEF Inv

\* A job begins with the figures of its draft, beside others only where the case has it.
LEMMA VisualOpens ==
    ASSUME Typed, Inv, NEW p \in Pipeline, Visual(p)
    PROVE  Inv'
  <1> DEFINE keys == Asked(given, p)
             need == Needed(row[p].patches)
  <1>1. UNCHANGED <<given, saved, images>>
    BY DEF Visual
  <1>2. DOMAIN row = Pipeline /\ RowTyped(p, row[p]) /\ DOMAIN job = Pipeline
    BY DEF Typed
  <1>3. \A q \in Pipeline : DraftAsks(Asked(given, q), row[q].patches)
    BY DEF Inv
  <1>4. CASE UNCHANGED job /\ row' = [row EXCEPT ![p].state = "VISUAL"]
    <2>1. \A q \in Pipeline : row'[q].patches = row[q].patches
      BY <1>2, <1>4 DEF RowTyped, RowFields
    <2> QED BY <1>1, <1>3, <1>4, <2>1, EndStands
  <1>5. CASE UNCHANGED row /\ job' = [job EXCEPT ![p] = Onward(need, {})]
    <2>1. DraftAsks(keys, row[p].patches) /\ Len(row[p].patches) \in Nat
      <3>1. row[p].state = "EDITORIAL_VERIFY"
        BY DEF Visual, Steps
      <3>2. Size(given, p) \in Nat
        BY SizeFits DEF Typed
      <3> QED BY <1>2, <1>3, <3>1, <3>2 DEF RowTyped
    <2>2. need \in Seq(keys)
      <3> HIDE DEF keys
      <3> QED BY <2>1, NeededAreAsked
    <2> HIDE DEF need, keys
    <2> DEFINE new == Onward(need, {})
    <2>3. JobStands(keys, saved', new)
      BY <2>2, OnwardStands
    <2> HIDE DEF new
    <2>4. \A q \in Pipeline : job'[q] = IF q = p THEN new ELSE job[q]
      BY <1>2, <1>5 DEF new
    <2>5. \A q \in Pipeline : given.overlap \/ job[q] = NoJob
      BY DEF Visual, Steps, Free
    <2>6. JobsShareTime'
      BY <1>1, <2>4, <2>5 DEF JobsShareTime
    <2>7. \A q \in Pipeline : JobStands(Asked(given', q), saved', job'[q])
      BY <1>1, <2>3, <2>4 DEF Inv, keys
    <2>8. \A q \in Pipeline : DraftAsks(Asked(given', q), row'[q].patches)
      BY <1>1, <1>3, <1>5
    <2>9. FiguresAreCleared'
      BY <1>1 DEF Inv, FiguresAreCleared
    <2> QED BY <2>6, <2>7, <2>8, <2>9 DEF Inv
  <1> QED BY <1>4, <1>5 DEF Visual, Opened

\* A patch refers to the figure of its edit.
LEMMA DraftStands ==
    ASSUME Typed, Inv, NEW p \in Pipeline, Draft(p)
    PROVE  Inv'
  <1> DEFINE n == Lesser(Len(given.targets[p]), MaxTargets)
             edit(i) == given.targets[p][i]
             diffs(i) == Edits(p, i, edit(i), tree[edit(i).chapter])
             keys == Asked(given, p)
  <1>1. PICK patches \in [1 .. n -> UNION {diffs(i) : i \in 1 .. n}] :
          /\ \A i \in 1 .. n : patches[i] \in diffs(i)
          /\ row' = [row EXCEPT ![p].state = "DRAFTED", ![p].patches = patches]
    BY DEF Draft
  <1>2. n = Size(given, p) /\ n \in Nat
    BY SizeFits DEF Size, Typed
  <1>3. ASSUME NEW i \in 1 .. n PROVE patches[i].figure = edit(i).figure
    <2> DEFINE e == edit(i)
               line == Line(p, i, e)
               text == tree[e.chapter]
    <2>1. patches[i] \in Edits(p, i, e, text)
      BY <1>1
    <2> HIDE DEF e, text
    <2>2. \A first, last : Hunk(text, e.chapter, first, last, <<line>>).figure = line.figure
      BY DEF Hunk
    <2>3. \E first, last : patches[i] = Hunk(text, e.chapter, first, last, <<line>>)
      BY <2>1 DEF Edits
    <2>4. patches[i].figure = line.figure
      BY <2>2, <2>3
    <2> QED BY <2>4 DEF Line, e
  <1>4. DraftAsks(keys, patches)
    <2>1. Len(patches) = n
      <3> HIDE DEF diffs, n
      <3> QED BY <1>1, <1>2
    <2>2. ASSUME NEW i \in 1 .. n PROVE patches[i].figure \in keys \cup {""}
      BY <1>2, <1>3 DEF Asked
    <2> HIDE DEF keys, n
    <2> QED BY <2>1, <2>2 DEF DraftAsks
  <1>5. DOMAIN row = Pipeline /\ RowTyped(p, row[p])
    BY DEF Typed
  <1> HIDE DEF n, diffs, edit
  <1>6. \A q \in Pipeline : row'[q].patches = IF q = p THEN patches ELSE row[q].patches
    BY <1>1, <1>5 DEF RowTyped, RowFields
  <1>7. \A q \in Pipeline : DraftAsks(Asked(given, q), row'[q].patches)
    BY <1>4, <1>6 DEF Inv
  <1>8. UNCHANGED <<given, saved, images, job>>
    BY DEF Draft, figureVars
  <1> QED BY <1>7, <1>8, EndStands

\* The other steps keep the drafts and begin no job.
LEMMA InvStep ==
    ASSUME KeysAreApart, Typed, Inv, [Next]_vars
    PROVE  Inv'
  <1> USE DEF Typed, RowFields
  <1>1. ASSUME NEW p \in Pipeline, Illustrate(p) PROVE Inv'
    BY <1>1, VisualStands DEF Illustrate
  <1>2. ASSUME UNCHANGED <<given, saved, images>>,
               \A q \in Pipeline : job'[q] = NoJob \/ job'[q] = job[q],
               \A q \in Pipeline : row'[q].patches = row[q].patches
        PROVE  Inv'
    BY <1>2, EndStands DEF Inv
  <1>3. \A q \in Pipeline : RowTyped(q, row[q])
    OBVIOUS
  <1>4. ASSUME UNCHANGED vars \/ Crash PROVE Inv'
    BY <1>2, <1>4 DEF vars, Crash
  <1>5. ASSUME NEW p \in Pipeline, EndVisual(p) \/ FailVisual(p) PROVE Inv'
    BY <1>2, <1>3, <1>5 DEF EndVisual, FailVisual, Break, RowTyped
  <1>6. ASSUME NEW p \in Pipeline, Technical(p) \/ FailQa(p) PROVE Inv'
    <2>1. UNCHANGED <<given, saved, images, job>>
      BY <1>6 DEF Technical, FailQa, figureVars
    <2>2. \E s : row' = [row EXCEPT ![p].state = s]
      BY <1>6 DEF Technical, FailQa
    <2>3. \A q \in Pipeline : row'[q].patches = row[q].patches
      BY <1>3, <2>2 DEF RowTyped
    <2> QED BY <1>2, <2>1, <2>3
  <1>7. ASSUME NEW p \in Pipeline, Editorial(p) PROVE Inv'
    <2>1. UNCHANGED <<given, saved, images, job>>
      BY <1>7 DEF Editorial, figureVars
    <2>2. \/ row' = [row EXCEPT ![p].state = "EDITORIAL_VERIFY"]
          \/ \E s, n : row' = [row EXCEPT ![p] = [row[p] EXCEPT !.state = s, !.revisions = n]]
      BY <1>7 DEF Editorial
    <2>3. ASSUME NEW s, NEW n
          PROVE  [row[p] EXCEPT !.state = s, !.revisions = n].patches = row[p].patches
      BY <1>3 DEF RowTyped
    <2>4. \A q \in Pipeline : row'[q].patches = row[q].patches
      <3>1. CASE row' = [row EXCEPT ![p].state = "EDITORIAL_VERIFY"]
        BY <1>3, <3>1 DEF RowTyped
      <3>2. CASE \E s, n : row' = [row EXCEPT ![p] = [row[p] EXCEPT !.state = s, !.revisions = n]]
        <4>1. PICK s, n : row' = [row EXCEPT ![p] = [row[p] EXCEPT !.state = s, !.revisions = n]]
          BY <3>2
        <4> DEFINE r == [row[p] EXCEPT !.state = s, !.revisions = n]
        <4>2. r.patches = row[p].patches
          BY <2>3
        <4> HIDE DEF r
        <4>3. row' = [row EXCEPT ![p] = r]
          BY <4>1 DEF r
        <4> QED BY <4>2, <4>3
      <3> QED BY <2>2, <3>1, <3>2
    <2> QED BY <1>2, <2>1, <2>4
  <1>8. ASSUME NEW p \in Pipeline, BeginQa(p) \/ EndQa(p) PROVE Inv'
    <2>1. UNCHANGED <<given, saved, images, job>>
      BY <1>8 DEF BeginQa, EndQa, figureVars
    <2>2. \/ row' = row
          \/ row' = [row EXCEPT ![p].state = "FAILED"]
          \/ \E skipped : row' = [row EXCEPT ![p].state = "BOOK_QA", ![p].skipped = skipped]
      BY <1>8 DEF BeginQa, EndQa
    <2>3. \A q \in Pipeline : row'[q].patches = row[q].patches
      BY <1>3, <2>2 DEF RowTyped
    <2> QED BY <1>2, <2>1, <2>3
  <1> QED BY <1>1, <1>4, <1>5, <1>6, <1>7, <1>8, DraftStands, VisualOpens DEF Next

-----------------------------------------------------------------------------
(* What is in the tree, and what would be written back *)

\* A patch of a draft as it was made: only its lines are new.
PatchOf(p, k, patch) ==
    /\ patch.chapter = given.targets[p][k].chapter
    /\ patch.start \in Nat \ {0}
    /\ patch.before \in Texts /\ patch.after \in Texts
    /\ \A l : In(l, patch.after) => l.by = p \/ In(l, patch.before)

DraftOf(p, patches) ==
    /\ DOMAIN patches = 1 .. Size(given, p)
    /\ \A k \in 1 .. Size(given, p) : PatchOf(p, k, patches[k])

TaskOf(p, t) ==
    /\ DOMAIN t.applied = 1 .. Size(given, p)
    /\ \A k \in 1 .. Size(given, p) :
         /\ t.applied[k].chapter = given.targets[p][k].chapter
         /\ t.applied[k].original \in Texts

Shaped ==
    /\ Typed
    /\ tree = [c \in Chapter |-> tree[c]] /\ \A c \in Chapter : tree[c] \in Texts
    /\ \A p \in Pipeline : IF row[p].state = "VERDICT_APPROVED" THEN row[p].patches = <<>>
                           ELSE DraftOf(p, row[p].patches)
    /\ \A p \in Pipeline : task[p] # Idle => TaskOf(p, task[p])
    /\ \A p, q \in Pipeline : p # q /\ task[p] # Idle /\ task[q] # Idle => given.overlap

\* A line that may stay: the author's, of a draft that passed, or of one left behind.
Settled(l) ==
    \/ l.by = "author"
    \/ \E p \in Pipeline : l.by = p /\ (p \in left \/ row[p].state = "BOOK_QA")

Due(p, c) == \E k \in 1 .. Size(given, p) : given.targets[p][k].chapter = c

\* A line QA is looking at.
Pending(l, c) == \E p \in Pipeline : l.by = p /\ task[p] # Idle /\ Due(p, c)

Adds(patch, l) == In(l, patch.after) /\ ~In(l, patch.before)

Replaced(l) ==
    \E q \in Pipeline : \E j \in DOMAIN row[q].patches : In(l, row[q].patches[j].before)

\* A text of a chapter that has what passed drafts added to it, or later drafts replaced.
Keeps(c, text) ==
    \A p \in Pipeline : row[p].state = "BOOK_QA" =>
        \A k \in 1 .. Size(given, p) : given.targets[p][k].chapter = c =>
            \A l : Adds(row[p].patches[k], l) => In(l, text) \/ Replaced(l)

Clean(text) == \A l : In(l, text) => Settled(l)

\* What an ongoing QA would write back is a text without any draft that is not settled.
OriginalsStand(p) ==
    \A k \in 1 .. Size(given, p) :
        /\ Clean(task[p].applied[k].original)
        /\ Keeps(given.targets[p][k].chapter, task[p].applied[k].original)

\* The draft it judges is in the tree.
DraftIsThere(p) ==
    \A k \in 1 .. Size(given, p) : \A l : Adds(row[p].patches[k], l) =>
        In(l, tree[given.targets[p][k].chapter])

Traced ==
    /\ \A c \in Chapter : \A l : In(l, tree[c]) => Settled(l) \/ Pending(l, c)
    /\ \A c \in Chapter : Keeps(c, tree[c])
    /\ \A p \in Pipeline : task[p] # Idle => OriginalsStand(p) /\ DraftIsThere(p)
    /\ \A p \in Pipeline : row[p].state = "BOOK_QA" => PassedDraftsAreWhole(p)

TreeInv == Shaped /\ Traced

LEMMA AddsAdded == ASSUME NEW patch, NEW l PROVE l \in Added(patch) <=> Adds(patch, l)
  BY DEF Added, Adds, In

LEMMA TracedIsNoTrace == TreeInv => RejectedDraftsLeaveNoTrace
  <1> SUFFICES ASSUME TreeInv, NEW c \in Chapter, NEW i \in DOMAIN tree[c]
               PROVE  LET p == tree[c][i].by
                      IN  p = "author" \/ p \in left \/ row[p].state = "BOOK_QA" \/ task[p] # Idle
    BY DEF TreeInv, Shaped, Typed, RejectedDraftsLeaveNoTrace
  <1>1. In(tree[c][i], tree[c])
    BY DEF In
  <1>2. Settled(tree[c][i]) \/ Pending(tree[c][i], c)
    BY <1>1 DEF TreeInv, Traced
  <1> QED BY <1>2 DEF Settled, Pending

LEMMA TracedHolds == TreeInv => PassedDraftsHold
  <1> SUFFICES ASSUME TreeInv, NEW p \in Pipeline, row[p].state = "BOOK_QA"
               PROVE  PassedDraftsStand(p) /\ PassedDraftsAreWhole(p)
    BY DEF PassedDraftsHold
  <1>1. DraftOf(p, row[p].patches)
    BY DEF TreeInv, Shaped
  <1>2. ASSUME NEW k \in DOMAIN row[p].patches, NEW l \in Added(row[p].patches[k])
        PROVE  \/ \E i \in DOMAIN tree[row[p].patches[k].chapter] :
                     tree[row[p].patches[k].chapter][i] = l
               \/ \E q \in Pipeline : \E j \in DOMAIN row[q].patches :
                     \E i \in DOMAIN row[q].patches[j].before : row[q].patches[j].before[i] = l
    <2> DEFINE c == given.targets[p][k].chapter
    <2>1. k \in 1 .. Size(given, p) /\ row[p].patches[k].chapter = c
      BY <1>1 DEF DraftOf, PatchOf
    <2>2. k \in DOMAIN given.targets[p] /\ c \in Chapter
      BY <2>1, SizeFits DEF TreeInv, Shaped, Typed
    <2>3. Adds(row[p].patches[k], l)
      BY AddsAdded
    <2>4. In(l, tree[c]) \/ Replaced(l)
      BY <2>1, <2>2, <2>3 DEF TreeInv, Traced, Keeps
    <2> QED BY <2>1, <2>4 DEF In, Replaced
  <1>3. PassedDraftsAreWhole(p)
    BY DEF TreeInv, Traced
  <1> QED BY <1>2, <1>3 DEF PassedDraftsStand

-----------------------------------------------------------------------------
(* Steps that keep tree and drafts *)

LEMMA SettledStays ==
    ASSUME left \subseteq left',
           \A q \in Pipeline : row[q].state = "BOOK_QA" => row'[q].state = "BOOK_QA",
           NEW l, Settled(l)
    PROVE  Settled(l)'
  BY DEF Settled

LEMMA ReplacedStays ==
    ASSUME \A q \in Pipeline : row'[q].patches = row[q].patches \/ row[q].patches = <<>>,
           NEW l, Replaced(l)
    PROVE  Replaced(l)'
  BY DEF Replaced

\* The row is at another place, with the draft it has.
RowKeeps(r, s) ==
    /\ s.patches = r.patches /\ s.skipped = r.skipped
    /\ s.state = "BOOK_QA" <=> r.state = "BOOK_QA"
    /\ s.state = "VERDICT_APPROVED" <=> r.state = "VERDICT_APPROVED"

\* A draft is made.
Drafted(q) ==
    /\ row[q].state = "VERDICT_APPROVED" /\ task[q] = Idle
    /\ row'[q].state = "DRAFTED" /\ DraftOf(q, row'[q].patches)

\* Rows keep their drafts or get one, and a pipeline may end in the middle of QA.
LEMMA KeepStep ==
    ASSUME TreeInv, Typed', UNCHANGED <<tree, given>>, left \subseteq left',
           DOMAIN images \subseteq DOMAIN images',
           \A q \in Pipeline : task'[q] = task[q] \/ (task'[q] = Idle /\ q \in left'),
           \A q \in Pipeline : RowKeeps(row[q], row'[q]) \/ Drafted(q)
    PROVE  TreeInv'
  <1>1. \A l : Settled(l) => Settled(l)'
    BY SettledStays DEF RowKeeps, Drafted
  <1>2. \A l : Replaced(l) => Replaced(l)'
    <2>1. \A q \in Pipeline : row'[q].patches = row[q].patches \/ row[q].patches = <<>>
      BY DEF TreeInv, Shaped, RowKeeps, Drafted
    <2> QED BY <2>1, ReplacedStays
  <1>3. Shaped'
    <2>1. \A p \in Pipeline : IF row'[p].state = "VERDICT_APPROVED" THEN row'[p].patches = <<>>
                              ELSE DraftOf(p, row'[p].patches)
      BY DEF TreeInv, Shaped, RowKeeps, Drafted
    <2>2. \A p \in Pipeline : task'[p] # Idle => task'[p] = task[p] /\ TaskOf(p, task'[p])
      BY DEF TreeInv, Shaped
    <2>3. \A p, q \in Pipeline :
            p # q /\ task'[p] # Idle /\ task'[q] # Idle => given'.overlap
      BY <2>2 DEF TreeInv, Shaped
    <2>4. tree' = [c \in Chapter |-> tree'[c]] /\ \A c \in Chapter : tree'[c] \in Texts
      BY DEF TreeInv, Shaped
    <2>5. \A p \in Pipeline : IF row'[p].state = "VERDICT_APPROVED" THEN row'[p].patches = <<>>
                              ELSE DraftOf(p, row[p].patches)'
      BY <2>1 DEF DraftOf, PatchOf
    <2>6. \A p \in Pipeline : task'[p] # Idle => TaskOf(p, task[p])'
      BY <2>2 DEF TaskOf
    <2> QED BY <2>3, <2>4, <2>5, <2>6 DEF Shaped
  <1>4. ASSUME NEW c \in Chapter, NEW l, In(l, tree'[c])
        PROVE  Settled(l)' \/ Pending(l, c)'
    <2>1. Settled(l) \/ Pending(l, c)
      BY <1>4 DEF TreeInv, Traced
    <2>2. ASSUME Pending(l, c) PROVE Settled(l)' \/ Pending(l, c)'
      <3>1. PICK p \in Pipeline : l.by = p /\ task[p] # Idle /\ Due(p, c)
        BY <2>2 DEF Pending
      <3>2. CASE task'[p] = task[p]
        BY <3>1, <3>2 DEF Pending, Due
      <3>3. CASE p \in left'
        BY <3>1, <3>3 DEF Settled
      <3> QED BY <3>2, <3>3
    <2> QED BY <1>1, <2>1, <2>2
  <1>5. ASSUME NEW c \in Chapter PROVE Keeps(c, tree[c])'
    <2>1. Keeps(c, tree[c])
      BY DEF TreeInv, Traced
    <2> QED BY <1>2, <2>1 DEF Keeps, Adds, RowKeeps, Drafted
  <1>6. ASSUME NEW p \in Pipeline, task'[p] # Idle
        PROVE  OriginalsStand(p)' /\ DraftIsThere(p)'
    <2>1. task'[p] = task[p] /\ OriginalsStand(p) /\ DraftIsThere(p)
      BY <1>6 DEF TreeInv, Traced
    <2>2. ASSUME NEW k \in 1 .. Size(given, p)
          PROVE  /\ Clean(task[p].applied[k].original)'
                 /\ Keeps(given.targets[p][k].chapter, task[p].applied[k].original)'
      <3> DEFINE text == task[p].applied[k].original
                 c == given.targets[p][k].chapter
      <3>1. Clean(text) /\ Keeps(c, text)
        BY <2>1 DEF OriginalsStand
      <3>2. task'[p].applied[k].original = text /\ given'.targets[p][k].chapter = c
        BY <2>1
      <3> HIDE DEF text, c
      <3>3. Keeps(c, text)
        BY <3>1
      <3>4. \A q \in Pipeline : row'[q].state = "BOOK_QA" =>
              \A n \in 1 .. Size(given', q) : given'.targets[q][n].chapter = c =>
                 \A l : Adds(row'[q].patches[n], l) => In(l, text) \/ Replaced(l)'
        BY <1>2, <3>3 DEF Keeps, RowKeeps, Drafted
      <3>5. \A l : In(l, text) => Settled(l)'
        BY <1>1, <3>1 DEF Clean
      <3> QED BY <3>2, <3>4, <3>5 DEF Keeps, Clean, Adds
    <2>3. row'[p].patches = row[p].patches
      BY <1>6, <2>1 DEF RowKeeps, Drafted
    <2> QED BY <2>1, <2>2, <2>3 DEF OriginalsStand, DraftIsThere, Size, Adds
  <1>7. ASSUME NEW p \in Pipeline, row'[p].state = "BOOK_QA" PROVE PassedDraftsAreWhole(p)'
    BY <1>7 DEF TreeInv, Traced, PassedDraftsAreWhole, RowKeeps, Drafted
  <1>8. Traced'
    BY <1>4, <1>5, <1>6, <1>7 DEF Traced
  <1> QED BY <1>3, <1>8 DEF TreeInv

\* A text that the author or the writer wrote.
LEMMA DraftIsOf ==
    ASSUME Shaped, NEW p \in Pipeline, NEW i \in 1 .. Size(given, p),
           NEW patch \in Edits(p, i, given.targets[p][i],
                               tree[given.targets[p][i].chapter])
    PROVE  PatchOf(p, i, patch)
  <1> DEFINE edit == given.targets[p][i]
             text == tree[edit.chapter]
             line == Line(p, i, edit)
             anchors == {j \in DOMAIN text : \A k \in DOMAIN text : text[k] = text[j] => k = j}
  <1>1. given \in Cases
    BY DEF Shaped, Typed
  <1>2. i \in DOMAIN given.targets[p] /\ edit.chapter \in Chapter
    BY <1>1, SizeFits
  <1>3. text \in Texts
    BY <1>2 DEF Shaped
  <1>4. line \in Lines /\ line.by = p
    BY <1>1, <1>2 DEF Lines, DraftLines, Line
  <1>5. \/ \E j \in anchors : patch = Hunk(text, edit.chapter, j + 1, j, <<line>>)
        \/ \E j \in anchors : patch = Hunk(text, edit.chapter, j, j, <<line>>)
        \/ patch = Hunk(text, edit.chapter, Len(text) + 1, Len(text), <<line>>)
    BY DEF Edits
  <1>6. DOMAIN text = 1 .. Len(text) /\ Len(text) \in Nat
    BY <1>3, TextsAreSequences
  <1> DEFINE chapter == edit.chapter
  <1> HIDE DEF text, line, chapter
  <1>7. PICK first \in 1 .. Len(text) + 1 : \E last \in first - 1 .. Len(text) :
          patch = Hunk(text, chapter, first, last, <<line>>)
    <2>1. ASSUME NEW j \in anchors, patch = Hunk(text, chapter, j + 1, j, <<line>>)
          PROVE  \E first \in 1 .. Len(text) + 1 : \E last \in first - 1 .. Len(text) :
                   patch = Hunk(text, chapter, first, last, <<line>>)
      <3>1. j + 1 \in 1 .. Len(text) + 1 /\ j \in (j + 1) - 1 .. Len(text)
        BY <1>6
      <3> QED BY <2>1, <3>1
    <2>2. ASSUME NEW j \in anchors, patch = Hunk(text, chapter, j, j, <<line>>)
          PROVE  \E first \in 1 .. Len(text) + 1 : \E last \in first - 1 .. Len(text) :
                   patch = Hunk(text, chapter, first, last, <<line>>)
      <3>1. j \in 1 .. Len(text) + 1 /\ j \in j - 1 .. Len(text)
        BY <1>6
      <3> QED BY <2>2, <3>1
    <2>3. Len(text) + 1 \in 1 .. Len(text) + 1 /\ Len(text) \in (Len(text) + 1) - 1 .. Len(text)
      BY <1>6
    <2> QED BY <1>5, <2>1, <2>2, <2>3 DEF chapter
  <1>8. PICK last \in first - 1 .. Len(text) :
          patch = Hunk(text, chapter, first, last, <<line>>)
    BY <1>7
  <1>9. /\ patch.chapter = chapter /\ patch.start \in Nat \ {0}
        /\ patch.before \in Texts /\ patch.after \in Texts
        /\ \A l : In(l, patch.after) => l = line \/ In(l, patch.before)
    <2>1. first \in 1 .. Len(text) + 1 /\ last \in first - 1 .. Len(text) /\ line \in Lines
      BY <1>4, <1>7, <1>8
    <2>2. AddsLine(patch, chapter, line)
      BY <1>3, <1>8, <2>1, HunkAdds
    <2> QED BY <2>2 DEF AddsLine
  <1> QED BY <1>4, <1>9 DEF PatchOf, chapter

LEMMA DraftStep == ASSUME TreeInv, Typed', NEW p \in Pipeline, Draft(p) PROVE TreeInv'
  <1> DEFINE n == Lesser(Len(given.targets[p]), MaxTargets)
             edit(i) == given.targets[p][i]
             diffs(i) == Edits(p, i, edit(i), tree[edit(i).chapter])
  <1>1. PICK patches \in [1 .. n -> UNION {diffs(i) : i \in 1 .. n}] :
          /\ \A i \in 1 .. n : patches[i] \in diffs(i)
          /\ row' = [row EXCEPT ![p].state = "DRAFTED", ![p].patches = patches]
    BY DEF Draft
  <1>2. DraftOf(p, patches)
    <2>1. n = Size(given, p)
      BY DEF Size
    <2>2. \A i \in 1 .. n : PatchOf(p, i, patches[i])
      BY <1>1, <2>1, DraftIsOf DEF TreeInv
    <2> HIDE DEF diffs, n
    <2> QED BY <1>1, <2>1, <2>2 DEF DraftOf
  <1>3. /\ row[p].state = "VERDICT_APPROVED" /\ task[p] = Idle
        /\ UNCHANGED <<tree, task, given, left, images>>
    BY DEF Draft, Steps, Free, figureVars
  <1>4. DOMAIN row = Pipeline /\ DOMAIN row[p] = RowFields
    BY DEF TreeInv, Shaped, Typed, RowTyped
  <1>5. row'[p].state = "DRAFTED" /\ row'[p].patches = patches
    BY <1>1, <1>4 DEF RowFields
  <1>6. Drafted(p)
    BY <1>2, <1>3, <1>5 DEF Drafted
  <1>7. ASSUME NEW q \in Pipeline, q # p PROVE RowKeeps(row[q], row'[q])
    BY <1>1, <1>4, <1>7 DEF RowKeeps
  <1> QED BY <1>3, <1>6, <1>7, KeepStep

\* One row has another state, on the way to QA or off it.
LEMMA RowStep ==
    ASSUME TreeInv, Typed', NEW p \in Pipeline, UNCHANGED <<tree, given>>, left \subseteq left',
           row[p].state \notin {"VERDICT_APPROVED", "BOOK_QA"},
           NEW s, s \notin {"VERDICT_APPROVED", "BOOK_QA"},
           NEW n, row' = [row EXCEPT ![p] = [row[p] EXCEPT !.state = s, !.revisions = n]],
           DOMAIN images \subseteq DOMAIN images',
           \A q \in Pipeline : task'[q] = task[q] \/ (task'[q] = Idle /\ q \in left')
    PROVE  TreeInv'
  <1>1. DOMAIN row = Pipeline /\ DOMAIN row[p] = RowFields
    BY DEF TreeInv, Shaped, Typed, RowTyped
  <1>2. RowKeeps(row[p], row'[p])
    BY <1>1 DEF RowKeeps, RowFields
  <1>3. ASSUME NEW q \in Pipeline, q # p PROVE RowKeeps(row[q], row'[q])
    BY <1>1, <1>3 DEF RowKeeps
  <1> QED BY <1>2, <1>3, KeepStep

LEMMA StateStep ==
    ASSUME TreeInv, Typed', NEW p \in Pipeline, UNCHANGED <<tree, given>>, left \subseteq left',
           row[p].state \notin {"VERDICT_APPROVED", "BOOK_QA"},
           NEW s, s \notin {"VERDICT_APPROVED", "BOOK_QA"},
           row' = [row EXCEPT ![p].state = s],
           DOMAIN images \subseteq DOMAIN images',
           \A q \in Pipeline : task'[q] = task[q] \/ (task'[q] = Idle /\ q \in left')
    PROVE  TreeInv'
  <1>1. DOMAIN row = Pipeline /\ DOMAIN row[p] = RowFields
    BY DEF TreeInv, Shaped, Typed, RowTyped
  <1>2. RowKeeps(row[p], row'[p])
    BY <1>1 DEF RowKeeps, RowFields
  <1>3. ASSUME NEW q \in Pipeline, q # p PROVE RowKeeps(row[q], row'[q])
    BY <1>1, <1>3 DEF RowKeeps
  <1> QED BY <1>2, <1>3, KeepStep

\* The rows are as they were.
LEMMA NoRowStep ==
    ASSUME TreeInv, Typed', UNCHANGED <<row, tree, given>>, left \subseteq left',
           DOMAIN images \subseteq DOMAIN images',
           \A q \in Pipeline : task'[q] = task[q] \/ (task'[q] = Idle /\ q \in left')
    PROVE  TreeInv'
  <1>1. \A q \in Pipeline : RowKeeps(row[q], row'[q])
    BY DEF RowKeeps
  <1> QED BY <1>1, KeepStep

\* Every step but those of book QA that write to the tree or end with a good report.
LEMMA QuietStep ==
    ASSUME TreeInv, Typed',
           \/ UNCHANGED vars \/ Crash
           \/ \E p \in Pipeline :
                \/ Technical(p) \/ Editorial(p) \/ Visual(p) \/ Illustrate(p)
                \/ EndVisual(p) \/ FailVisual(p) \/ FailQa(p)
    PROVE  TreeInv'
  <1>1. ASSUME UNCHANGED vars \/ Crash PROVE TreeInv'
    <2>1. UNCHANGED <<row, tree, given, images>> /\ left \subseteq left'
      BY <1>1 DEF vars, Crash
    <2>2. \A q \in Pipeline : task'[q] = task[q] \/ (task'[q] = Idle /\ q \in left')
      BY <1>1 DEF vars, Crash
    <2> QED BY <2>1, <2>2, NoRowStep
  <1>2. ASSUME NEW p \in Pipeline, Technical(p) PROVE TreeInv'
    <2>1. /\ row' = [row EXCEPT ![p].state = "CITATION_VERIFY"] /\ row[p].state = "DRAFTED"
          /\ UNCHANGED <<tree, given>> /\ left \subseteq left' /\ DOMAIN images \subseteq DOMAIN images'
          /\ \A q \in Pipeline : task'[q] = task[q]
      BY <1>2 DEF Technical, Steps, figureVars
    <2>2. row[p].state \notin {"VERDICT_APPROVED", "BOOK_QA"}
      BY <2>1
    <2>3. PICK s : s = "CITATION_VERIFY" /\ row' = [row EXCEPT ![p].state = s]
      BY <2>1
    <2>4. s \notin {"VERDICT_APPROVED", "BOOK_QA"}
      BY <2>3
    <2> QED BY <2>1, <2>2, <2>3, <2>4, StateStep
  <1>3. ASSUME NEW p \in Pipeline, Editorial(p) PROVE TreeInv'
    <2>1. /\ row[p].state = "CITATION_VERIFY"
          /\ UNCHANGED <<tree, given>> /\ left \subseteq left' /\ DOMAIN images \subseteq DOMAIN images'
          /\ \A q \in Pipeline : task'[q] = task[q]
      BY <1>3 DEF Editorial, Steps, figureVars
    <2>2. CASE row' = [row EXCEPT ![p].state = "EDITORIAL_VERIFY"]
      <3>1. row[p].state \notin {"VERDICT_APPROVED", "BOOK_QA"}
        BY <2>1
      <3>2. PICK s : s = "EDITORIAL_VERIFY" /\ row' = [row EXCEPT ![p].state = s]
        BY <2>2
      <3>3. s \notin {"VERDICT_APPROVED", "BOOK_QA"}
        BY <3>2
      <3> QED BY <2>1, <3>1, <3>2, <3>3, StateStep
    <2>3. CASE ~(row' = [row EXCEPT ![p].state = "EDITORIAL_VERIFY"])
      <3> DEFINE s == Landing("CITATION_VERIFY", "DRAFTED", row[p].revisions)
                 n == RevisionsAfter("CITATION_VERIFY", "DRAFTED", row[p].revisions)
      <3>1. row' = [row EXCEPT ![p] = [row[p] EXCEPT !.state = s, !.revisions = n]]
        BY <1>3, <2>3 DEF Editorial
      <3>2. s \notin {"VERDICT_APPROVED", "BOOK_QA"}
        BY DEF Landing
      <3> HIDE DEF s, n
      <3> QED BY <2>1, <3>1, <3>2, RowStep
    <2> QED BY <2>2, <2>3
  <1>4. ASSUME NEW p \in Pipeline, Visual(p) PROVE TreeInv'
    <2>1. /\ row' = row \/ row' = [row EXCEPT ![p].state = "VISUAL"]
          /\ row[p].state = "EDITORIAL_VERIFY"
          /\ UNCHANGED <<tree, given>> /\ left \subseteq left' /\ DOMAIN images \subseteq DOMAIN images'
          /\ \A q \in Pipeline : task'[q] = task[q]
      BY <1>4 DEF Visual, Steps
    <2> QED BY <2>1, StateStep, NoRowStep
  <1>5. ASSUME NEW p \in Pipeline, Illustrate(p) PROVE TreeInv'
    <2>1. UNCHANGED <<row, tree, task, given, left>>
      BY <1>5 DEF Illustrate
    <2>2. DOMAIN images \subseteq DOMAIN images'
      BY <1>5 DEF Illustrate, VisualStep, Search, Judge, Refine, Draw, GiveUp, Check, Place,
                  Record
    <2> QED BY <2>1, <2>2, NoRowStep
  <1>6. ASSUME NEW p \in Pipeline, EndVisual(p) \/ FailVisual(p) \/ FailQa(p) PROVE TreeInv'
    <2>1. BusyTyped(row[p], task[p], job[p])
      BY DEF TreeInv, Shaped, Typed
    <2>2. job[p] # NoJob \/ task[p] # Idle
      BY <1>6 DEF EndVisual, FailVisual, Break, FailQa, Working, NoJob
    <2>3. row[p].state \in {"EDITORIAL_VERIFY", "VISUAL"}
      BY <2>1, <2>2 DEF BusyTyped
    <2>4. /\ \/ row' = [row EXCEPT ![p].state = "VISUAL"]
             \/ row' = [row EXCEPT ![p].state = "FAILED"]
          /\ UNCHANGED <<tree, given, images>> /\ left \subseteq left'
      BY <1>6 DEF EndVisual, FailVisual, Break, FailQa, figureVars
    <2>5. \A q \in Pipeline : task'[q] = task[q] \/ (task'[q] = Idle /\ q \in left')
      BY <1>6 DEF EndVisual, FailVisual, FailQa, TreeInv, Shaped, Typed
    <2> QED BY <2>3, <2>4, <2>5, StateStep
  <1> QED BY <1>1, <1>2, <1>3, <1>4, <1>5, <1>6

-----------------------------------------------------------------------------
(* A draft goes into the tree, stays or leaves *)

LEMMA Apart ==
    ASSUME ChaptersAreApart, given \in Cases, NEW p \in Pipeline, NEW q \in Pipeline,
           NEW i \in 1 .. Size(given, p), NEW k \in 1 .. Size(given, q),
           given.targets[p][i].chapter = given.targets[q][k].chapter
    PROVE  IF p = q THEN i = k ELSE ~given.overlap
  BY DEF ChaptersAreApart

\* The chapters of a draft in QA are in no other draft that is.
LEMMA AloneOn ==
    ASSUME ChaptersAreApart, Shaped, NEW p \in Pipeline, NEW q \in Pipeline, p # q,
           task[q] # Idle, task[p] # Idle \/ Free(p), NEW c, Due(p, c)
    PROVE  ~Due(q, c)
  <1>1. given.overlap
    BY DEF Shaped, Free
  <1>2. given \in Cases
    BY DEF Shaped, Typed
  <1> QED BY <1>1, <1>2, Apart DEF Due

\* What _book_qa does to the tree when every patch fits.
Applies(p, applied) ==
    /\ task' = [task EXCEPT ![p] = [at |-> "qa", applied |-> applied]]
    /\ DOMAIN applied = 1 .. Size(given, p)
    /\ \A k \in 1 .. Size(given, p) :
         LET c == given.targets[p][k].chapter
         IN  /\ applied[k].chapter = c /\ applied[k].original = tree[c]
             /\ Fits(tree[c], row[p].patches[k])
             /\ tree'[c] = Patched(tree[c], row[p].patches[k])
    /\ \A c \in Chapter : ~Due(p, c) => tree'[c] = tree[c]
    /\ tree' = [c \in Chapter |-> tree'[c]]

LEMMA DraftChapters ==
    ASSUME ChaptersAreApart, Shaped, NEW p \in Pipeline, row[p].state # "VERDICT_APPROVED"
    PROVE  /\ Len(row[p].patches) = Size(given, p) /\ Size(given, p) \in Nat
           /\ ChapterEach(row[p].patches, Size(given, p))
           /\ \A k \in 1 .. Size(given, p) :
                row[p].patches[k].chapter = given.targets[p][k].chapter
  <1> DEFINE N == Size(given, p)
  <1>1. given \in Cases /\ RowTyped(p, row[p])
    BY DEF Shaped, Typed
  <1>2. N \in Nat /\ \A k \in 1 .. N : given.targets[p][k].chapter \in Chapter
    BY <1>1, SizeFits
  <1>3. \A k \in 1 .. N : row[p].patches[k].chapter = given.targets[p][k].chapter
    BY DEF Shaped, DraftOf, PatchOf
  <1>4. \A j, k \in 1 .. N :
          given.targets[p][j].chapter = given.targets[p][k].chapter => j = k
    BY <1>1, Apart
  <1>5. Len(row[p].patches) = N
    BY <1>1 DEF RowTyped
  <1> HIDE DEF N
  <1>6. ChapterEach(row[p].patches, N)
    BY <1>2, <1>3, <1>4 DEF ChapterEach
  <1> QED BY <1>2, <1>3, <1>5, <1>6 DEF N

LEMMA BeginQaEffect ==
    ASSUME ChaptersAreApart, Shaped, NEW p \in Pipeline, BeginQa(p)
    PROVE  \/ row' = [row EXCEPT ![p].state = "FAILED"] /\ UNCHANGED <<tree, task>>
           \/ (\E applied : Applies(p, applied)) /\ UNCHANGED row
  <1> DEFINE patches == row[p].patches
             N       == Size(given, p)
             applied == Applied(tree, patches)
             result  == Trees(tree, patches)[Len(applied)]
  <1>1. row[p].state = "VISUAL"
    BY DEF BeginQa, Steps
  <1>2. /\ Len(patches) = N /\ N \in Nat /\ ChapterEach(patches, N)
        /\ \A k \in 1 .. N : patches[k].chapter = given.targets[p][k].chapter
    BY <1>1, DraftChapters
  <1>3. tree = [c \in Chapter |-> tree[c]]
    BY DEF Shaped
  <1>4. \/ /\ Len(applied) = Len(patches) /\ tree' = result /\ UNCHANGED row
           /\ task' = [task EXCEPT ![p] = [at |-> "qa", applied |-> applied]]
        \/ /\ tree' = Reverted(result, applied)
           /\ row' = [row EXCEPT ![p].state = "FAILED"] /\ UNCHANGED task
    BY DEF BeginQa
  <1> HIDE DEF patches, N
  <1>5. PICK last \in 0 .. N :
          /\ Len(applied) = last /\ DOMAIN applied = 1 .. last
          /\ \A k \in 1 .. last :
               /\ applied[k].chapter = patches[k].chapter
               /\ applied[k].original = tree[patches[k].chapter]
               /\ Fits(tree[patches[k].chapter], patches[k])
          /\ Trees(tree, patches)[last] = After(tree, patches, last)
    BY <1>2, <1>3, AppliedOf
  <1> DEFINE after == After(tree, patches, last)
  <1>6. result = after
    BY <1>5
  <1> HIDE DEF applied, result
  <1>7. /\ \A k \in 1 .. last : after[patches[k].chapter]
                                  = Patched(tree[patches[k].chapter], patches[k])
        /\ \A c \in Chapter : (\A k \in 1 .. last : patches[k].chapter # c) =>
             after[c] = tree[c]
    <2>1. \A k \in 1 .. last : after[patches[k].chapter]
                                  = Patched(tree[patches[k].chapter], patches[k])
      <3>1. last \in 0 .. N /\ N \in Nat /\ ChapterEach(patches, N)
        BY <1>2, <1>5
      <3> QED BY <3>1, AfterPatched
    <2>2. ASSUME NEW c \in Chapter, \A k \in 1 .. last : patches[k].chapter # c
          PROVE  after[c] = tree[c]
      BY <2>2 DEF After
    <2> HIDE DEF after
    <2> QED BY <2>1, <2>2
  <1>8. DOMAIN after = Chapter /\ after = [c \in Chapter |-> after[c]]
    BY DEF After
  <1> HIDE DEF after
  <1>9. ASSUME last = N, tree' = result, UNCHANGED row,
               task' = [task EXCEPT ![p] = [at |-> "qa", applied |-> applied]]
        PROVE  Applies(p, applied)
    <2>1. \A k \in 1 .. N :
            /\ applied[k].chapter = given.targets[p][k].chapter
            /\ applied[k].original = tree[given.targets[p][k].chapter]
            /\ Fits(tree[given.targets[p][k].chapter], patches[k])
            /\ tree'[given.targets[p][k].chapter]
                 = Patched(tree[given.targets[p][k].chapter], patches[k])
      BY <1>2, <1>5, <1>6, <1>7, <1>9
    <2>2. \A c \in Chapter : ~Due(p, c) => tree'[c] = tree[c]
      BY <1>2, <1>6, <1>7, <1>9 DEF Due, N
    <2>3. tree' = [c \in Chapter |-> tree'[c]]
      BY <1>6, <1>8, <1>9
    <2> QED BY <1>5, <1>9, <2>1, <2>2, <2>3 DEF Applies, N, patches
  <1>10. ASSUME tree' = Reverted(result, applied) PROVE tree' = tree
    <2>1. last \in Nat
      BY <1>2
    <2>2. \A j, k \in 1 .. last : applied[j].chapter = applied[k].chapter => j = k
      BY <1>2, <1>5 DEF ChapterEach
    <2>3. /\ Reverted(after, applied) = [c \in DOMAIN after |-> Reverted(after, applied)[c]]
          /\ \A c \in DOMAIN after :
               \/ /\ \A k \in 1 .. last : applied[k].chapter # c
                  /\ Reverted(after, applied)[c] = after[c]
               \/ \E k \in 1 .. last : /\ applied[k].chapter = c
                                       /\ Reverted(after, applied)[c] = applied[k].original
      BY <1>5, <2>1, <2>2, RevertedOf
    <2>4. \A c \in Chapter : Reverted(after, applied)[c] = tree[c]
      BY <1>5, <1>7, <1>8, <2>3
    <2> QED BY <1>3, <1>6, <1>8, <1>10, <2>3, <2>4
  <1> QED BY <1>2, <1>4, <1>5, <1>9, <1>10

LEMMA SameRows ==
    ASSUME UNCHANGED <<row, left>>
    PROVE  \A l : (Settled(l)' <=> Settled(l)) /\ (Replaced(l)' <=> Replaced(l))
  BY DEF Settled, Replaced

\* The draft goes in.
LEMMA ApplyStep ==
    ASSUME ChaptersAreApart, TreeInv, Typed', NEW p \in Pipeline, NEW applied,
           Applies(p, applied), Free(p), row[p].state = "VISUAL",
           UNCHANGED <<row, given, left, images>>
    PROVE  TreeInv'
  <1> DEFINE N == Size(given, p)
             ch(k) == given.targets[p][k].chapter
             patch(k) == row[p].patches[k]
  <1>1. /\ given \in Cases /\ DOMAIN task = Pipeline /\ task[p] = Idle
        /\ DraftOf(p, row[p].patches)
    BY DEF TreeInv, Shaped, Typed, Free
  <1>2. N \in Nat /\ \A k \in 1 .. N : ch(k) \in Chapter
    BY <1>1, SizeFits
  <1>3. /\ \A q \in Pipeline : q # p => task'[q] = task[q]
        /\ task'[p].applied = applied /\ task'[p] # Idle
    BY <1>1 DEF Applies, Idle
  <1>4. ASSUME NEW k \in 1 .. N
        PROVE  /\ tree'[ch(k)] \in Texts
               /\ \A l : In(l, tree'[ch(k)]) => In(l, tree[ch(k)]) \/ l.by = p
               /\ \A l : In(l, patch(k).after) => In(l, tree'[ch(k)])
               /\ \A l : In(l, tree[ch(k)]) => In(l, tree'[ch(k)]) \/ Replaced(l)
    <2> DEFINE text == tree[ch(k)]
    <2>1. text \in Texts
      BY <1>2 DEF TreeInv, Shaped
    <2>2. /\ patch(k).start \in Nat \ {0} /\ patch(k).before \in Texts /\ patch(k).after \in Texts
          /\ \A l : In(l, patch(k).after) => l.by = p \/ In(l, patch(k).before)
      BY <1>1 DEF DraftOf, PatchOf
    <2>3. Fits(text, patch(k)) /\ tree'[ch(k)] = Patched(text, patch(k))
      BY DEF Applies
    <2> HIDE DEF text, patch
    <2>4. /\ Patched(text, patch(k)) \in Texts
          /\ \A l : In(l, Patched(text, patch(k))) => In(l, text) \/ In(l, patch(k).after)
          /\ \A l : In(l, patch(k).after) => In(l, Patched(text, patch(k)))
          /\ \A l : In(l, text) => In(l, Patched(text, patch(k))) \/ In(l, patch(k).before)
          /\ \A l : In(l, patch(k).before) => In(l, text)
      BY <2>1, <2>2, <2>3, PatchedText
    <2>5. \A l : In(l, patch(k).before) => Replaced(l)
      BY <1>1 DEF Replaced, patch, DraftOf
    <2> QED BY <2>2, <2>3, <2>4, <2>5 DEF text
  <1> HIDE DEF patch
  <1>5. \A c \in Chapter : Due(p, c) \/ tree'[c] = tree[c]
    BY DEF Applies
  <1>6. \A c : Due(p, c) <=> \E k \in 1 .. N : ch(k) = c
    BY DEF Due
  <1> HIDE DEF N, ch
  <1>7. \A c \in Chapter : Due(p, c) => \A q \in Pipeline : q # p /\ task[q] # Idle => ~Due(q, c)
    BY AloneOn DEF TreeInv
  <1>8. Shaped'
    <2>1. tree' = [c \in Chapter |-> tree'[c]] /\ \A c \in Chapter : tree'[c] \in Texts
      BY <1>4, <1>5, <1>6 DEF Applies, TreeInv, Shaped
    <2>2. \A q \in Pipeline : IF row[q].state = "VERDICT_APPROVED" THEN row[q].patches = <<>>
                              ELSE DraftOf(q, row[q].patches)
      BY DEF TreeInv, Shaped
    <2>3. \A q \in Pipeline : IF row'[q].state = "VERDICT_APPROVED" THEN row'[q].patches = <<>>
                              ELSE DraftOf(q, row[q].patches)'
      BY <2>2 DEF DraftOf, PatchOf
    <2>4. TaskOf(p, task'[p])
      <3>1. \A k \in 1 .. N : tree[ch(k)] \in Texts
        BY <1>2 DEF TreeInv, Shaped
      <3>2. \A k \in 1 .. N : applied[k].chapter = ch(k) /\ applied[k].original = tree[ch(k)]
        BY DEF Applies, N, ch
      <3>3. DOMAIN applied = 1 .. N
        BY DEF Applies, N
      <3>4. \A k \in 1 .. N : applied[k].original \in Texts
        BY <3>1, <3>2
      <3> QED BY <1>3, <3>2, <3>3, <3>4 DEF TaskOf, N, ch
    <2>5. \A q \in Pipeline : task'[q] # Idle => TaskOf(q, task'[q])
      BY <1>3, <2>4 DEF TreeInv, Shaped
    <2>6. \A q \in Pipeline : task'[q] # Idle => TaskOf(q, task[q])'
      BY <2>5 DEF TaskOf
    <2>7. \A q, r \in Pipeline : q # r /\ task'[q] # Idle /\ task'[r] # Idle => given'.overlap
      BY <1>3 DEF Free, TreeInv, Shaped
    <2> QED BY <2>1, <2>3, <2>6, <2>7 DEF Shaped
  <1>9. ASSUME NEW c \in Chapter, NEW l, In(l, tree'[c])
        PROVE  Settled(l)' \/ Pending(l, c)'
    <2>1. In(l, tree[c]) \/ (l.by = p /\ Due(p, c))
      BY <1>4, <1>5, <1>6, <1>9
    <2>2. CASE l.by = p /\ Due(p, c)
      BY <1>3, <2>2 DEF Pending, Due
    <2>3. CASE In(l, tree[c])
      <3>1. Settled(l) \/ Pending(l, c)
        BY <2>3 DEF TreeInv, Traced
      <3>2. Settled(l) => Settled(l)'
        BY DEF Settled
      <3>3. Pending(l, c) => Pending(l, c)'
        BY <1>1, <1>3 DEF Pending, Due
      <3> QED BY <3>1, <3>2, <3>3
    <2> QED BY <2>1, <2>2, <2>3
  <1>10. ASSUME NEW c \in Chapter PROVE Keeps(c, tree[c])'
    <2>1. \A q \in Pipeline : row[q].state = "BOOK_QA" =>
            \A k \in 1 .. Size(given, q) : given.targets[q][k].chapter = c =>
              \A l : Adds(row[q].patches[k], l) => In(l, tree[c]) \/ Replaced(l)
      BY DEF TreeInv, Traced, Keeps
    <2>2. \A l : In(l, tree[c]) => In(l, tree'[c]) \/ Replaced(l)
      BY <1>4, <1>5, <1>6
    <2> QED BY <2>1, <2>2 DEF Keeps, Replaced, Adds
  <1>11. OriginalsStand(p)' /\ DraftIsThere(p)'
    <2>1. ASSUME NEW k \in 1 .. N
          PROVE  /\ applied[k].original = tree[ch(k)] /\ Keeps(ch(k), tree[ch(k)])
                 /\ Clean(tree[ch(k)])
                 /\ \A l : Adds(row[p].patches[k], l) => In(l, tree'[ch(k)])
      <3>1. ch(k) \in Chapter /\ Due(p, ch(k))
        BY <1>2, <1>6
      <3>2. applied[k].original = tree[ch(k)]
        BY DEF Applies, N, ch
      <3>3. Keeps(ch(k), tree[ch(k)])
        BY <3>1 DEF TreeInv, Traced
      <3>4. \A l : ~Pending(l, ch(k))
        BY <1>1, <1>7, <3>1 DEF Pending
      <3>5. Clean(tree[ch(k)])
        BY <3>1, <3>4 DEF Clean, TreeInv, Traced
      <3>6. \A l : Adds(row[p].patches[k], l) => In(l, tree'[ch(k)])
        BY <1>4 DEF Adds, patch
      <3> QED BY <3>2, <3>3, <3>5, <3>6
    <2>2. ASSUME NEW k \in 1 .. N
          PROVE  /\ Keeps(ch(k), applied[k].original)' /\ Clean(applied[k].original)'
                 /\ \A l : Adds(row'[p].patches[k], l) => In(l, tree'[ch(k)])
      BY <2>1, SameRows DEF Keeps, Clean, Adds, N, ch, Size
    <2> QED BY <1>3, <2>2 DEF OriginalsStand, DraftIsThere, N, ch, Size
  <1>12. ASSUME NEW q \in Pipeline, q # p, task'[q] # Idle
         PROVE  OriginalsStand(q)' /\ DraftIsThere(q)'
    <2>1. task'[q] = task[q] /\ OriginalsStand(q) /\ DraftIsThere(q)
      BY <1>3, <1>12 DEF TreeInv, Traced
    <2>2. ASSUME NEW k \in 1 .. Size(given, q)
          PROVE  tree'[given.targets[q][k].chapter] = tree[given.targets[q][k].chapter]
      <3>1. given.targets[q][k].chapter \in Chapter
        BY <1>1, SizeFits
      <3>2. Due(q, given.targets[q][k].chapter)
        BY DEF Due
      <3> QED BY <1>5, <1>7, <1>12, <2>1, <3>1, <3>2
    <2>3. OriginalsStand(q)'
      BY <2>1, SameRows DEF OriginalsStand, Keeps, Clean, Adds, Size
    <2>4. DraftIsThere(q)'
      BY <2>1, <2>2 DEF DraftIsThere, Adds
    <2> QED BY <2>3, <2>4
  <1>13. \A q \in Pipeline : row'[q].state = "BOOK_QA" => PassedDraftsAreWhole(q)'
    BY DEF TreeInv, Traced, PassedDraftsAreWhole
  <1>14. Traced'
    BY <1>9, <1>10, <1>11, <1>12, <1>13 DEF Traced
  <1> QED BY <1>8, <1>14 DEF TreeInv

\* A draft that was refused goes out.
LEMMA RevertStep ==
    ASSUME ChaptersAreApart, TreeInv, Typed', NEW p \in Pipeline, task[p] # Idle,
           tree' = Reverted(tree, task[p].applied), task' = [task EXCEPT ![p] = Idle],
           UNCHANGED <<row, given, left, images>>
    PROVE  TreeInv'
  <1> DEFINE N == Size(given, p)
             ch(k) == given.targets[p][k].chapter
             applied == task[p].applied
  <1>1. /\ given \in Cases /\ DOMAIN task = Pipeline /\ DOMAIN tree = Chapter
        /\ TaskOf(p, task[p])
    BY DEF TreeInv, Shaped, Typed
  <1>2. N \in Nat /\ \A k \in 1 .. N : ch(k) \in Chapter
    BY <1>1, SizeFits
  <1>3. task'[p] = Idle /\ \A q \in Pipeline : q # p => task'[q] = task[q]
    BY <1>1
  <1>4. DOMAIN applied = 1 .. N /\ \A k \in 1 .. N : applied[k].chapter = ch(k)
                                                      /\ applied[k].original \in Texts
    BY <1>1 DEF TaskOf
  <1>5. \A j, k \in 1 .. N : ch(j) = ch(k) => j = k
    BY <1>1, Apart
  <1>6. \A c : Due(p, c) <=> \E k \in 1 .. N : ch(k) = c
    BY DEF Due
  <1>7. \A k \in 1 .. N : Clean(applied[k].original) /\ Keeps(ch(k), applied[k].original)
    BY DEF TreeInv, Traced, OriginalsStand
  <1> HIDE DEF N, ch, applied
  <1>8. /\ tree' = [c \in Chapter |-> tree'[c]]
        /\ \A c \in Chapter : \/ ~Due(p, c) /\ tree'[c] = tree[c]
                              \/ \E k \in 1 .. N : ch(k) = c /\ tree'[c] = applied[k].original
    <2>1. \A j, k \in 1 .. N : applied[j].chapter = applied[k].chapter => j = k
      BY <1>4, <1>5
    <2>2. /\ Reverted(tree, applied) = [c \in DOMAIN tree |-> Reverted(tree, applied)[c]]
          /\ \A c \in DOMAIN tree :
               \/ /\ \A k \in 1 .. N : applied[k].chapter # c
                  /\ Reverted(tree, applied)[c] = tree[c]
               \/ \E k \in 1 .. N : /\ applied[k].chapter = c
                                    /\ Reverted(tree, applied)[c] = applied[k].original
      BY <1>2, <1>4, <2>1, RevertedOf
    <2>3. tree' = Reverted(tree, applied)
      BY DEF applied
    <2> QED BY <1>1, <1>4, <1>6, <2>2, <2>3
  <1>9. Shaped'
    <2>1. \A c \in Chapter : tree'[c] \in Texts
      BY <1>4, <1>8 DEF TreeInv, Shaped
    <2>2. \A q \in Pipeline : IF row[q].state = "VERDICT_APPROVED" THEN row[q].patches = <<>>
                              ELSE DraftOf(q, row[q].patches)
      BY DEF TreeInv, Shaped
    <2>3. \A q \in Pipeline : IF row'[q].state = "VERDICT_APPROVED" THEN row'[q].patches = <<>>
                              ELSE DraftOf(q, row[q].patches)'
      BY <2>2 DEF DraftOf, PatchOf
    <2>4. \A q \in Pipeline : task'[q] # Idle => TaskOf(q, task'[q])
      BY <1>3 DEF TreeInv, Shaped
    <2>5. \A q \in Pipeline : task'[q] # Idle => TaskOf(q, task[q])'
      BY <2>4 DEF TaskOf
    <2>6. \A q, r \in Pipeline : q # r /\ task'[q] # Idle /\ task'[r] # Idle => given'.overlap
      BY <1>3 DEF TreeInv, Shaped
    <2> QED BY <1>8, <2>1, <2>3, <2>5, <2>6 DEF Shaped
  <1>10. ASSUME NEW c \in Chapter, NEW l, In(l, tree'[c])
         PROVE  Settled(l)' \/ Pending(l, c)'
    <2>1. CASE \E k \in 1 .. N : ch(k) = c /\ tree'[c] = applied[k].original
      BY <1>7, <1>10, <2>1, SameRows DEF Clean
    <2>2. CASE ~Due(p, c) /\ tree'[c] = tree[c]
      <3>1. Settled(l) \/ Pending(l, c)
        BY <1>10, <2>2 DEF TreeInv, Traced
      <3>2. Pending(l, c) => Pending(l, c)'
        BY <1>3, <2>2 DEF Pending, Due
      <3> QED BY <3>1, <3>2, SameRows
    <2> QED BY <1>8, <2>1, <2>2
  <1>11. ASSUME NEW c \in Chapter PROVE Keeps(c, tree[c])'
    <2>1. \E text : tree'[c] = text /\ Keeps(c, text)
      BY <1>7, <1>8 DEF TreeInv, Traced
    <2>2. PICK text : tree'[c] = text /\ Keeps(c, text)
      BY <2>1
    <2> QED BY <2>2, SameRows DEF Keeps, Adds, Size
  <1>12. ASSUME NEW q \in Pipeline, task'[q] # Idle
         PROVE  OriginalsStand(q)' /\ DraftIsThere(q)'
    <2>1. q # p /\ task'[q] = task[q] /\ OriginalsStand(q) /\ DraftIsThere(q)
      BY <1>3, <1>12 DEF TreeInv, Traced
    <2>2. ASSUME NEW k \in 1 .. Size(given, q)
          PROVE  tree'[given.targets[q][k].chapter] = tree[given.targets[q][k].chapter]
      <3> DEFINE c == given.targets[q][k].chapter
      <3>1. c \in Chapter
        BY <1>1, SizeFits
      <3>2. Due(q, c)
        BY DEF Due
      <3> HIDE DEF c
      <3>3. ~Due(p, c)
        BY <1>12, <2>1, <3>2, AloneOn DEF TreeInv
      <3>4. tree'[c] = tree[c]
        BY <1>6, <1>8, <3>1, <3>3
      <3> QED BY <3>4 DEF c
    <2>3. OriginalsStand(q)'
      BY <2>1, SameRows DEF OriginalsStand, Keeps, Clean, Adds, Size
    <2>4. DraftIsThere(q)'
      BY <2>1, <2>2 DEF DraftIsThere, Adds
    <2> QED BY <2>3, <2>4
  <1>13. \A q \in Pipeline : row'[q].state = "BOOK_QA" => PassedDraftsAreWhole(q)'
    BY DEF TreeInv, Traced, PassedDraftsAreWhole
  <1>14. Traced'
    BY <1>10, <1>11, <1>12, <1>13 DEF Traced
  <1> QED BY <1>9, <1>14 DEF TreeInv

\* What QA lets pass is whole, as far as it looked.
LEMMA QaSeesFlaws ==
    ASSUME TreeInv, NEW p \in Pipeline, task[p] # Idle, row[p].state = "VISUAL",
           NEW skipped, Failing(row[p].patches, skipped) = {},
           NEW k \in DOMAIN row[p].patches, NEW l \in Added(row[p].patches[k])
    PROVE  /\ "figures" \in skipped \/ l.figure = "" \/ l.figure \in DOMAIN images
           /\ "bibliography" \in skipped \/ ~l.gap
           /\ "language" \in skipped \/ k > 1 \/ ~Foreign(l.words)
  <1> DEFINE c == given.targets[p][k].chapter
             patches == row[p].patches
  <1>1. k \in 1 .. Size(given, p)
    BY DEF TreeInv, Shaped, DraftOf
  <1>2. c \in Chapter /\ DOMAIN tree = Chapter
    BY <1>1, SizeFits DEF TreeInv, Shaped, Typed
  <1>3. In(l, tree[c])
    BY <1>1, AddsAdded DEF TreeInv, Traced, DraftIsThere
  <1>4. PICK i \in DOMAIN tree[c] : tree[c][i] = l
    BY <1>3 DEF In
  <1> HIDE DEF c
  <1>5. /\ "figures" \in skipped \/ FiguresResolve(tree)
        /\ "bibliography" \in skipped \/ Bibliography(tree)
        /\ "language" \in skipped \/ Language(patches)
    BY DEF Failing, Checks
  <1>6. FiguresResolve(tree) => l.figure = "" \/ l.figure \in DOMAIN images
    BY <1>2, <1>4 DEF FiguresResolve
  <1>7. Bibliography(tree) => ~l.gap
    BY <1>2, <1>4 DEF Bibliography
  <1>8. Language(patches) => k > 1 \/ ~Foreign(l.words)
    <2>1. patches # <<>>
      OBVIOUS
    <2>2. Size(given, p) \in Nat
      BY SizeFits DEF TreeInv, Shaped, Typed
    <2>3. k > 1 \/ k = 1
      BY <1>1, <2>2
    <2> QED BY <2>1, <2>3 DEF Language
  <1> QED BY <1>5, <1>6, <1>7, <1>8

\* A draft that passed stays.
LEMMA PassStep ==
    ASSUME ChaptersAreApart, TreeInv, Typed', NEW p \in Pipeline, task[p] # Idle,
           NEW skipped, Failing(row[p].patches, skipped) = {},
           row' = [row EXCEPT ![p].state = "BOOK_QA", ![p].skipped = skipped],
           task' = [task EXCEPT ![p] = Idle], UNCHANGED <<tree, given, left, images>>
    PROVE  TreeInv'
  <1> DEFINE N == Size(given, p)
             ch(k) == given.targets[p][k].chapter
  <1>1. /\ given \in Cases /\ DOMAIN task = Pipeline /\ row[p].state = "VISUAL"
        /\ DOMAIN row = Pipeline /\ DOMAIN row[p] = RowFields
    BY DEF TreeInv, Shaped, Typed, BusyTyped, RowTyped
  <1>2. task'[p] = Idle /\ \A q \in Pipeline : q # p => task'[q] = task[q]
    BY <1>1
  <1>3. /\ row'[p].state = "BOOK_QA" /\ row'[p].skipped = skipped
        /\ row'[p].patches = row[p].patches
        /\ \A q \in Pipeline : q # p => row'[q] = row[q]
    BY <1>1 DEF RowFields
  <1>4. \A l : (Settled(l) \/ l.by = p => Settled(l)') /\ (Replaced(l) => Replaced(l)')
    <2>1. ASSUME NEW l, Settled(l) PROVE Settled(l)'
      BY <1>3, <2>1 DEF Settled
    <2>2. ASSUME NEW l, l.by = p PROVE Settled(l)'
      BY <1>3, <2>2 DEF Settled
    <2>3. ASSUME NEW l, Replaced(l) PROVE Replaced(l)'
      BY <1>3, <2>3 DEF Replaced
    <2> QED BY <2>1, <2>2, <2>3
  <1>5. Shaped'
    <2>1. \A q \in Pipeline : IF row'[q].state = "VERDICT_APPROVED" THEN row'[q].patches = <<>>
                              ELSE DraftOf(q, row'[q].patches)
      BY <1>1, <1>3 DEF TreeInv, Shaped
    <2>a. \A q, patches : DraftOf(q, patches) <=> DraftOf(q, patches)'
      BY DEF DraftOf, PatchOf
    <2>2. \A q \in Pipeline : IF row'[q].state = "VERDICT_APPROVED" THEN row'[q].patches = <<>>
                              ELSE DraftOf(q, row[q].patches)'
      BY <2>1, <2>a
    <2>3. \A q \in Pipeline : task'[q] # Idle => TaskOf(q, task'[q])
      BY <1>2 DEF TreeInv, Shaped
    <2>4. \A q \in Pipeline : task'[q] # Idle => TaskOf(q, task[q])'
      BY <2>3 DEF TaskOf
    <2>5. \A q, r \in Pipeline : q # r /\ task'[q] # Idle /\ task'[r] # Idle => given'.overlap
      BY <1>2 DEF TreeInv, Shaped
    <2>6. tree' = [c \in Chapter |-> tree'[c]] /\ \A c \in Chapter : tree'[c] \in Texts
      BY DEF TreeInv, Shaped
    <2> QED BY <2>2, <2>4, <2>5, <2>6 DEF Shaped
  <1>6. ASSUME NEW c \in Chapter, NEW l, In(l, tree'[c])
        PROVE  Settled(l)' \/ Pending(l, c)'
    <2>1. Settled(l) \/ Pending(l, c)
      BY <1>6 DEF TreeInv, Traced
    <2>2. Pending(l, c) => l.by = p \/ Pending(l, c)'
      BY <1>2 DEF Pending, Due
    <2> QED BY <1>4, <2>1, <2>2
  <1>7. ASSUME NEW c, NEW text, Keeps(c, text),
               \A k \in 1 .. N : ch(k) = c =>
                  \A l : Adds(row[p].patches[k], l) => In(l, text)
        PROVE  \A q \in Pipeline : row'[q].state = "BOOK_QA" =>
                  \A k \in 1 .. Size(given, q) : given.targets[q][k].chapter = c =>
                    \A l : Adds(row'[q].patches[k], l) => In(l, text) \/ Replaced(l)'
    BY <1>3, <1>4, <1>7 DEF Keeps
  <1>8. ASSUME NEW c \in Chapter PROVE Keeps(c, tree[c])'
    <2>1. Keeps(c, tree[c])
      BY DEF TreeInv, Traced
    <2>2. \A k \in 1 .. N : ch(k) = c => \A l : Adds(row[p].patches[k], l) => In(l, tree[c])
      BY DEF TreeInv, Traced, DraftIsThere
    <2>3. \A q \in Pipeline : row'[q].state = "BOOK_QA" =>
             \A k \in 1 .. Size(given, q) : given.targets[q][k].chapter = c =>
               \A l : Adds(row'[q].patches[k], l) => In(l, tree[c]) \/ Replaced(l)'
      BY <1>7, <2>1, <2>2
    <2> QED BY <2>3 DEF Keeps, Adds, Size
  <1>9. ASSUME NEW q \in Pipeline, task'[q] # Idle
        PROVE  OriginalsStand(q)' /\ DraftIsThere(q)'
    <2>1. q # p /\ task'[q] = task[q] /\ OriginalsStand(q) /\ DraftIsThere(q)
      BY <1>2, <1>9 DEF TreeInv, Traced
    <2>2. ASSUME NEW k \in 1 .. Size(given, q)
          PROVE  /\ Clean(task[q].applied[k].original)'
                 /\ Keeps(given.targets[q][k].chapter, task[q].applied[k].original)'
      <3> DEFINE c == given.targets[q][k].chapter
                 text == task[q].applied[k].original
      <3>1. Clean(text) /\ Keeps(c, text)
        BY <2>1 DEF OriginalsStand
      <3>2. ~Due(p, c)
        <4>1. Due(q, c)
          BY DEF Due
        <4> HIDE DEF c
        <4> QED BY <1>9, <2>1, <4>1, AloneOn DEF TreeInv
      <3>3. task'[q].applied[k].original = text /\ given'.targets[q][k].chapter = c
        BY <2>1
      <3> HIDE DEF c, text
      <3>4. \A n \in 1 .. N : ch(n) # c
        BY <3>2 DEF Due
      <3>5. \A r \in Pipeline : row'[r].state = "BOOK_QA" =>
               \A n \in 1 .. Size(given, r) : given.targets[r][n].chapter = c =>
                 \A l : Adds(row'[r].patches[n], l) => In(l, text) \/ Replaced(l)'
        BY <1>7, <3>1, <3>4
      <3>6. \A l : In(l, text) => Settled(l)'
        BY <1>4, <3>1 DEF Clean
      <3> QED BY <3>3, <3>5, <3>6 DEF Keeps, Clean, Adds, Size
    <2>3. row'[q].patches = row[q].patches
      BY <1>3, <2>1
    <2> QED BY <2>1, <2>2, <2>3 DEF OriginalsStand, DraftIsThere, Size, Adds
  <1>10. ASSUME NEW q \in Pipeline, row'[q].state = "BOOK_QA" PROVE PassedDraftsAreWhole(q)'
    <2>1. CASE q = p
      <3>1. \A k \in DOMAIN row[p].patches : \A l \in Added(row[p].patches[k]) :
              /\ "figures" \in skipped \/ l.figure = "" \/ l.figure \in DOMAIN images
              /\ "bibliography" \in skipped \/ ~l.gap
              /\ "language" \in skipped \/ k > 1 \/ ~Foreign(l.words)
        BY <1>1, QaSeesFlaws
      <3>2. images' = images /\ row'[p].patches = row[p].patches /\ row'[p].skipped = skipped
        BY <1>3
      <3>3. PassedDraftsAreWhole(p)'
        BY <3>1, <3>2 DEF PassedDraftsAreWhole
      <3> QED BY <2>1, <3>3
    <2>2. CASE q # p
      BY <1>3, <1>10, <2>2 DEF TreeInv, Traced, PassedDraftsAreWhole
    <2> QED BY <2>1, <2>2
  <1>11. Traced'
    BY <1>6, <1>8, <1>9, <1>10 DEF Traced
  <1> QED BY <1>5, <1>11 DEF TreeInv

-----------------------------------------------------------------------------
(* The theorems *)

LEMMA InitTraced == Init => TreeInv
  <1> SUFFICES ASSUME Init PROVE TreeInv
    OBVIOUS
  <1>1. Typed
    BY InitTypes
  <1>2. \A p \in Pipeline : /\ row[p].state = "VERDICT_APPROVED" /\ row[p].patches = <<>>
                            /\ task[p] = Idle
    BY DEF Init
  <1>3. tree = Authored /\ Authored = [c \in Chapter |-> Authored[c]]
    BY BookAssumption DEF Init
  <1>4. ASSUME NEW c \in Chapter PROVE Authored[c] \in Texts
    <2> DEFINE text == Authored[c]
    <2>1. text \in Seq({text[i] : i \in DOMAIN text})
      BY BookAssumption DEF IsSequence
    <2>2. \A i \in DOMAIN text : text[i] \in Lines
      BY DEF Lines, AuthorLines
    <2> HIDE DEF text
    <2>3. Len(text) \in Nat /\ DOMAIN text = 1 .. Len(text) /\ text \in [1 .. Len(text) -> Lines]
      BY <2>1, <2>2, LenProperties
    <2>4. text \in Seq(Lines)
      BY <2>3, SeqDef
    <2> QED BY <2>4 DEF Texts, text
  <1>5. ASSUME NEW c \in Chapter, NEW l, In(l, Authored[c]) PROVE Settled(l)
    BY <1>5, BookAssumption DEF In, Settled
  <1>6. Shaped
    BY <1>1, <1>2, <1>3, <1>4 DEF Shaped
  <1>7. Traced
    BY <1>2, <1>3, <1>5 DEF Traced, Keeps
  <1> QED BY <1>6, <1>7 DEF TreeInv

LEMMA TreeStep ==
    ASSUME ChaptersAreApart, TreeInv, [Next]_vars
    PROVE  TreeInv'
  <1>1. Typed'
    BY NextTypes DEF TreeInv, Shaped
  <1>2. ASSUME NEW p \in Pipeline, BeginQa(p) PROVE TreeInv'
    <2>1. /\ UNCHANGED <<given, left, images>> /\ Free(p) /\ row[p].state = "VISUAL"
      BY <1>2 DEF BeginQa, Steps, figureVars
    <2>2. ASSUME row' = [row EXCEPT ![p].state = "FAILED"], UNCHANGED <<tree, task>>
          PROVE  TreeInv'
      <3>1. row[p].state \notin {"VERDICT_APPROVED", "BOOK_QA"}
        BY <2>1
      <3>2. PICK s : s = "FAILED" /\ row' = [row EXCEPT ![p].state = s]
        BY <2>2
      <3>3. s \notin {"VERDICT_APPROVED", "BOOK_QA"}
        BY <3>2
      <3> QED BY <1>1, <2>1, <2>2, <3>1, <3>2, <3>3, StateStep
    <2>3. ASSUME NEW applied, Applies(p, applied), UNCHANGED row PROVE TreeInv'
      BY <1>1, <2>1, <2>3, ApplyStep
    <2> QED BY <1>2, <2>2, <2>3, BeginQaEffect DEF TreeInv
  <1>3. ASSUME NEW p \in Pipeline, EndQa(p) PROVE TreeInv'
    <2>1. /\ UNCHANGED <<given, left, images>> /\ task[p] # Idle
          /\ task' = [task EXCEPT ![p] = Idle]
      BY <1>3 DEF EndQa, figureVars
    <2>2. \/ \E skipped :
               /\ Failing(row[p].patches, skipped) = {} /\ UNCHANGED tree
               /\ row' = [row EXCEPT ![p].state = "BOOK_QA", ![p].skipped = skipped]
          \/ tree' = Reverted(tree, task[p].applied) /\ UNCHANGED row
      BY <1>3 DEF EndQa, QaPassed
    <2> QED BY <1>1, <2>1, <2>2, PassStep, RevertStep
  <1>4. ASSUME NEW p \in Pipeline, Draft(p) PROVE TreeInv'
    BY <1>1, <1>4, DraftStep
  <1>5. ASSUME \/ UNCHANGED vars \/ Crash
               \/ \E p \in Pipeline :
                    \/ Technical(p) \/ Editorial(p) \/ Visual(p) \/ Illustrate(p)
                    \/ EndVisual(p) \/ FailVisual(p) \/ FailQa(p)
        PROVE  TreeInv'
    BY <1>1, <1>5, QuietStep
  <1> QED BY <1>2, <1>3, <1>4, <1>5 DEF Next

\* Rows, trees, tasks and jobs have the types they should, for any drafts, any overlap of
\* the handlers and any crash.
THEOREM TypeCorrect == Spec => []TypeOK
  <1>1. Init => Typed
    BY InitTypes
  <1>2. Typed /\ [Next]_vars => Typed'
    BY NextTypes
  <1>3. Typed => TypeOK
    BY TypedImpliesTypeOK
  <1> QED BY <1>1, <1>2, <1>3, PTL DEF Spec

\* Every figure of the book is the image that was verified and passed QA, may be printed,
\* and was entered under its own licence, if the visual pipelines that are under way at
\* once have no figure in common: the five steps that open the file then find what the
\* step before left.
THEOREM PlacedFiguresAreCleared == KeysAreApart => (Spec => []FiguresAreCleared)
  <1> SUFFICES ASSUME KeysAreApart PROVE Spec => []FiguresAreCleared
    OBVIOUS
  <1>1. Init => Typed /\ Inv
    <2> SUFFICES ASSUME Init PROVE Inv
      BY InitTypes
    <2>1. \A p \in Pipeline : job[p] = NoJob /\ row[p].patches = <<>>
      BY DEF Init
    <2>2. \A keys : JobStands(keys, saved, NoJob) /\ DraftAsks(keys, <<>>)
      BY DEF JobStands, NoJob, DraftAsks
    <2>3. JobsShareTime /\ FiguresAreCleared
      BY <2>1 DEF Init, JobsShareTime, FiguresAreCleared
    <2> QED BY <2>1, <2>2, <2>3 DEF Inv
  <1>2. Typed /\ Inv /\ [Next]_vars => Typed' /\ Inv'
    BY NextTypes, InvStep
  <1>3. Inv => FiguresAreCleared
    BY DEF Inv
  <1> QED BY <1>1, <1>2, <1>3, PTL DEF Spec

\* "A rejected draft leaves no trace in the book": what _apply_patches wrote, _revert takes
\* back, though other drafts went in and out while QA was at it and though it is the text
\* they made that is written back.  For drafts that edit a chapter once each, of which two
\* in QA at once have no chapter in common.
THEOREM NoTraceOfTheRejected == ChaptersAreApart => (Spec => []RejectedDraftsLeaveNoTrace)
  <1> SUFFICES ASSUME ChaptersAreApart PROVE Spec => []RejectedDraftsLeaveNoTrace
    OBVIOUS
  <1>1. Init => TreeInv
    BY InitTraced
  <1>2. TreeInv /\ [Next]_vars => TreeInv'
    BY TreeStep
  <1>3. TreeInv => RejectedDraftsLeaveNoTrace
    BY TracedIsNoTrace
  <1> QED BY <1>1, <1>2, <1>3, PTL DEF Spec

\* What QA passed is in the book and stays, unless a later draft that had read it replaced
\* it, and it is whole as far as the checks ran: on the same condition.
THEOREM PassedDraftsAreKept == ChaptersAreApart => (Spec => []PassedDraftsHold)
  <1> SUFFICES ASSUME ChaptersAreApart PROVE Spec => []PassedDraftsHold
    OBVIOUS
  <1>1. Init => TreeInv
    BY InitTraced
  <1>2. TreeInv /\ [Next]_vars => TreeInv'
    BY TreeStep
  <1>3. TreeInv => PassedDraftsHold
    BY TracedHolds
  <1> QED BY <1>1, <1>2, <1>3, PTL DEF Spec

=============================================================================
