-------------------------------- MODULE Book --------------------------------
(***************************************************************************)
(* From an approved verdict to a draft that passed book QA: the writer     *)
(* (agents/writer, skills/book/editing.py), the diffs it makes and how     *)
(* they are applied (tools/filesystem.py), the verifiers and QA            *)
(* (agents/verification, skills/verification, tools/book.py,               *)
(* tools/language.py), composed with the visual pipeline (Figures).        *)
(*                                                                         *)
(* manuscript/ is one working tree for all pipelines.  A chapter is a      *)
(* sequence of lines; a line the writer adds carries what the checks read  *)
(* off it.  The writer touches nothing: book QA applies the diffs, runs,   *)
(* and puts the old text back when the report is bad.  Handlers of         *)
(* different pipelines interleave, their awaits may overlap, and the       *)
(* process may stop while a draft is in the tree.                          *)
(***************************************************************************)
EXTENDS Figures, StateMachine

CONSTANTS
    Chapter,
    Authored,       \* Authored[c]: the lines of a chapter as the author left it
    Cases,          \* bound: what is tried, as [targets, overlap, skips] (see given)
    Context,        \* lines of context in a hunk; 3 in the code
    MaxTargets,     \* writer.max_files_per_patch
    MaxFindings,    \* check_language: max_findings, 30
    MaxCrashes      \* bound

\* A function on 1 .. n.
IsSequence(s) == s \in Seq({s[i] : i \in DOMAIN s})

ASSUME BookAssumption ==
    /\ Authored = [c \in Chapter |-> Authored[c]]
    /\ \A c \in Chapter :
         IsSequence(Authored[c]) /\ \A i \in DOMAIN Authored[c] : Authored[c][i].by = "author"
    /\ \A case \in Cases :
         /\ case.overlap \in BOOLEAN /\ case.skips \in Nat /\ DOMAIN case.targets = Pipeline
         /\ \A p \in Pipeline :
              /\ IsSequence(case.targets[p])
              /\ \A i \in DOMAIN case.targets[p] : case.targets[p][i].chapter \in Chapter
    /\ Context \in Nat \ {0} /\ MaxTargets \in Nat \ {0}
    /\ MaxFindings \in Nat /\ MaxCrashes \in Nat

VARIABLES
    row,        \* the pipeline's row: state, revisions, patches
    tree,       \* manuscript/: the lines of each chapter
    task,       \* a _book_qa in progress, with what _revert would write
    given,      \* targets: the edits each verdict names; overlap: whether handlers of two
                \* pipelines may run at once; skips: checks that cannot run in one QA
    left,       \* pipelines whose _book_qa ended with the draft in the tree and no report
    crashes

vars == <<row, tree, task, given, left, crashes, saved, images, figures, sources, job>>

-----------------------------------------------------------------------------
(* Diffs *)

\* The line an edit adds: the figure it refers to or "", what check_language finds in it
\* in the order of its words, and whether it cites \cite{NEEDS_CITATION}.
Line(p, n, edit) ==
    [by |-> p, n |-> n, figure |-> edit.figure, words |-> edit.words, gap |-> edit.gap]

Lesser(a, b) == IF a <= b THEN a ELSE b
Greater(a, b) == IF a >= b THEN a ELSE b

\* make_unified_diff of lines first .. last replaced by new: one hunk, with context.
Hunk(text, chapter, first, last, new) ==
    LET from == Greater(1, first - Context)
        to   == Lesser(Len(text), last + Context)
    IN  [chapter |-> chapter, figure |-> new[1].figure,
         start |-> from, before |-> SubSeq(text, from, to),
         after |-> SubSeq(text, from, first - 1) \o new \o SubSeq(text, last + 1, to)]

\* Mutant: the hunk is put where it says, whatever is there.
Fits1(text, patch) == patch.start + Len(patch.before) - 1 <= Len(text)

\* apply_unified_diff: at the line the hunk names, and only onto the lines it shows.
Fits(text, patch) ==
    /\ patch.start + Len(patch.before) - 1 <= Len(text)
    /\ SubSeq(text, patch.start, patch.start + Len(patch.before) - 1) = patch.before

Patched(text, patch) ==
    SubSeq(text, 1, patch.start - 1) \o patch.after
      \o SubSeq(text, patch.start + Len(patch.before), Len(text))

\* ChapterEditingSkill._apply: after or instead of an anchor that occurs once, or at the
\* end.  Other anchors are refused; the writer is tried again, then fails.
Edits(p, n, edit, text) ==
    LET new     == <<Line(p, n, edit)>>
        anchors == {i \in DOMAIN text : \A k \in DOMAIN text : text[k] = text[i] => k = i}
    IN  {Hunk(text, edit.chapter, i + 1, i, new) : i \in anchors}
          \cup {Hunk(text, edit.chapter, i, i, new) : i \in anchors}
          \cup {Hunk(text, edit.chapter, Len(text) + 1, Len(text), new)}

\* The lines a patch adds.
Added(patch) ==
    {patch.after[i] : i \in DOMAIN patch.after}
      \ {patch.before[i] : i \in DOMAIN patch.before}

-----------------------------------------------------------------------------
(* Verification *)

\* What a verifying model may find, by severity.  A report also says whether it passed;
\* the pipeline does not look at that, only for a blocker.
Findings == SUBSET {"blocker", "major", "minor", "note"}
Blocks(findings) == "blocker" \in findings

\* TechnicalVerifier: nothing to say of a patch that adds nothing.
TechnicalReports(patch) == IF Added(patch) = {} THEN {{}} ELSE Findings

\* check_language: its verdict counts every finding, its list stops at MaxFindings.
Foreign(words) == \E i \in DOMAIN words : words[i] = "foreign"
Reported(words) == SubSeq(words, 1, Lesser(Len(words), MaxFindings))

\* EditorialVerifier: the listed language findings go beside the model's.
EditorialReports(patch) ==
    LET listed == {IF w = "foreign" THEN "blocker" ELSE "minor" :
                      w \in UNION {{Reported(l.words)[i] : i \in DOMAIN Reported(l.words)} :
                                      l \in Added(patch)}}
    IN  {listed \cup said : said \in Findings}

\* CrossChapterConsistencyAgent: contradictions as the model rates them; a term that
\* drifts or a text said twice is minor.
ConsistencyReports ==
    {contradictions \cup others : contradictions \in {{}, {"blocker"}, {"major"}, {"minor"}},
                                  others \in {{}, {"minor"}}}

\* bib_validate: the placeholder is cited and no entry has its key.
Bibliography(text) == \A c \in DOMAIN text : \A i \in DOMAIN text[c] : ~text[c][i].gap

\* check_figures: every \bookimage of the book, not of the draft, has its file.
FiguresResolve(text) ==
    \A c \in DOMAIN text : \A i \in DOMAIN text[c] :
        text[c][i].figure = "" \/ text[c][i].figure \in DOMAIN images

\* check_language on the patch QA is given: the first.
Language(patches) ==
    patches = <<>> \/ \A l \in Added(patches[1]) : ~Foreign(l.words)

Checks == {"bibliography", "figures", "language"}

\* BookQASkill._deterministic: the checks that fail on the tree.  One that cannot run is
\* skipped, which counts as well.
Failing(patches, skipped) ==
    {c \in Checks \ skipped :
        \/ c = "bibliography" /\ ~Bibliography(tree)
        \/ c = "figures" /\ ~FiguresResolve(tree)
        \/ c = "language" /\ ~Language(patches)}

\* QaPassed: latex_lint and the build say yes (a build that cannot run says no), no
\* other check fails, and the model found no blocker.  No model, no finding.
QaPassed(patches, skipped, compiles, blocked) ==
    compiles /\ Failing(patches, skipped) = {} /\ ~blocked

Answers == {Blocks(findings) : findings \in Findings}

-----------------------------------------------------------------------------
(* _apply_patches and _revert *)

\* The trees after the first 0, 1, .. patches of a draft, up to the first that fails.
Trees(text, patches) ==
    LET ts[n \in 0 .. Len(patches)] ==
          IF n = 0 THEN text
          ELSE [ts[n - 1] EXCEPT ![patches[n].chapter] = Patched(@, patches[n])]
        fits(n) == \A k \in 1 .. n : Fits(ts[k - 1][patches[k].chapter], patches[k])
        last    == CHOOSE n \in 0 .. Len(patches) :
                      fits(n) /\ (n = Len(patches) \/ ~fits(n + 1))
    IN  [n \in 0 .. last |-> ts[n]]

\* applied: for each patch written, its chapter and the text it found there.
Applied(text, patches) ==
    LET ts == Trees(text, patches)
        n  == Cardinality(DOMAIN ts) - 1
    IN  [i \in 1 .. n |-> [chapter  |-> patches[i].chapter,
                           original |-> ts[i - 1][patches[i].chapter]]]

\* Mutant: only what the last patch found is written back.
RevertedLast(text, applied) ==
    IF applied = <<>> THEN text
    ELSE [text EXCEPT ![applied[Len(applied)].chapter] = applied[Len(applied)].original]

\* _revert writes the originals back in the order the patches were applied in.
Reverted(text, applied) ==
    [c \in DOMAIN text |->
        LET of == {i \in DOMAIN applied : applied[i].chapter = c}
        IN  IF of = {} THEN text[c]
            ELSE applied[CHOOSE i \in of : \A k \in of : i >= k].original]

-----------------------------------------------------------------------------
(* The handlers *)

Idle == [at |-> "idle"]

Free(p) ==
    /\ task[p] = Idle /\ job[p] = NoJob
    /\ given.overlap \/ \A q \in Pipeline : task[q] = Idle /\ job[q] = NoJob

Steps(p, state) == row[p].state = state /\ Free(p)

Init ==
    /\ given \in Cases
    /\ row = [p \in Pipeline |-> [state |-> "VERDICT_APPROVED", revisions |-> 0,
                                  patches |-> <<>>, skipped |-> {}]]
    /\ tree = Authored
    /\ task = [p \in Pipeline |-> Idle]
    /\ left = {}
    /\ crashes = 0
    /\ saved = <<>> /\ images = <<>> /\ figures = <<>> /\ sources = <<>>
    /\ job = [p \in Pipeline |-> NoJob]

\* A verdict of at most MaxTargets edits becomes a draft, target after target against
\* the tree as it is; nothing is written.  No edit comes out empty here.
Draft(p) ==
    /\ Steps(p, "VERDICT_APPROVED")
    /\ LET n == Lesser(Len(given.targets[p]), MaxTargets)
           edit(i) == given.targets[p][i]
           diffs(i) == Edits(p, i, edit(i), tree[edit(i).chapter])
       IN  \E patches \in [1 .. n -> UNION {diffs(i) : i \in 1 .. n}] :
             /\ \A i \in 1 .. n : patches[i] \in diffs(i)
             /\ row' = [row EXCEPT ![p].state = "DRAFTED", ![p].patches = patches]
    /\ UNCHANGED <<tree, task, given, left, crashes, figureVars>>

\* _technical_verify of every patch: blockers submit DRAFTED, no edge of DRAFTED, and
\* the row stays.  (The citation states that follow are those of Citation.)
Technical(p) ==
    LET reports == {r \in [DOMAIN row[p].patches -> Findings] :
                       \A i \in DOMAIN r : r[i] \in TechnicalReports(row[p].patches[i])}
    IN  /\ Steps(p, "DRAFTED")
        /\ \E r \in reports : \A i \in DOMAIN r : ~Blocks(r[i])
        /\ row' = [row EXCEPT ![p].state = "CITATION_VERIFY"]
        /\ UNCHANGED <<tree, task, given, left, crashes, figureVars>>

\* _editorial_verify of every patch, and of the book around them.  Findings are stored,
\* and the same draft comes back until its revisions are used up.
Editorial(p) ==
    LET patches == row[p].patches
        back == [row[p] EXCEPT
                   !.state = Landing("CITATION_VERIFY", "DRAFTED", row[p].revisions),
                   !.revisions = RevisionsAfter("CITATION_VERIFY", "DRAFTED", @)]
        bad(i)  == \E r \in EditorialReports(patches[i]) : Blocks(r)
        good(i) == \E r \in EditorialReports(patches[i]) : ~Blocks(r)
    IN  /\ Steps(p, "CITATION_VERIFY")
        /\ \/ /\ (\E i \in DOMAIN patches : bad(i)) \/ (\E r \in ConsistencyReports : Blocks(r))
              /\ row' = [row EXCEPT ![p] = back]
           \/ /\ \A i \in DOMAIN patches : good(i)
              /\ \E r \in ConsistencyReports : ~Blocks(r)
              /\ row' = [row EXCEPT ![p].state = "EDITORIAL_VERIFY"]
        /\ UNCHANGED <<tree, task, given, left, crashes, figureVars>>

\* The figures a draft asks for (visual_requirements), patch after patch.
Needed(patches) ==
    LET keys[n \in 0 .. Len(patches)] ==
          IF n = 0 THEN <<>>
          ELSE IF patches[n].figure = "" THEN keys[n - 1]
          ELSE Append(keys[n - 1], patches[n].figure)
    IN  keys[Len(patches)]

\* _visual, first part: without requirements it is done, else the visual pipeline runs.
Visual(p) ==
    LET keys == Needed(row[p].patches)
    IN  /\ Steps(p, "EDITORIAL_VERIFY")
        /\ IF keys = <<>>
           THEN row' = [row EXCEPT ![p].state = "VISUAL"] /\ UNCHANGED job
           ELSE job' = [job EXCEPT ![p] = Opened(keys)] /\ UNCHANGED row
        /\ UNCHANGED <<tree, task, given, left, crashes, saved, images, figures, sources>>

\* A figure is found, drawn or given up; the row waits.
Illustrate(p) ==
    /\ VisualStep(p)
    /\ UNCHANGED <<row, tree, task, given, left, crashes>>

\* _visual, last part: the step ends well whatever was placed.
EndVisual(p) ==
    /\ Working(p, "done")
    /\ row' = [row EXCEPT ![p].state = "VISUAL"]
    /\ job' = [job EXCEPT ![p] = NoJob]
    /\ UNCHANGED <<tree, task, given, left, crashes, saved, images, figures, sources>>

FailVisual(p) ==
    /\ Break(p)
    /\ row' = [row EXCEPT ![p].state = "FAILED"]
    /\ UNCHANGED <<tree, task, given, left, crashes>>

\* _book_qa, first part: the draft goes into the tree.  A patch that does not fit has
\* the ones before it reverted, and the step raises.
BeginQa(p) ==
    LET patches == row[p].patches
        trees   == Trees(tree, patches)
        applied == Applied(tree, patches)
        result  == trees[Len(applied)]
    IN  /\ Steps(p, "VISUAL")
        /\ IF Len(applied) = Len(patches)
           THEN /\ tree' = result
                /\ task' = [task EXCEPT ![p] = [at |-> "qa", applied |-> applied]]
                /\ UNCHANGED row
           ELSE /\ tree' = Reverted(result, applied)
                /\ row' = [row EXCEPT ![p].state = "FAILED"]
                /\ UNCHANGED task
        /\ UNCHANGED <<given, left, crashes, figureVars>>

\* _book_qa, last part: the report, and the checks it skipped.  A bad one has the tree
\* reverted; DRAFTED is no edge of VISUAL, so the row stays and the draft is tried again.
EndQa(p) ==
    /\ task[p] # Idle
    /\ \E skipped \in SUBSET Checks, compiles \in BOOLEAN, blocked \in Answers :
         /\ Cardinality(skipped) <= given.skips
         /\ IF QaPassed(row[p].patches, skipped, compiles, blocked)
            THEN /\ row' = [row EXCEPT ![p].state = "BOOK_QA", ![p].skipped = skipped]
                 /\ UNCHANGED tree
            ELSE /\ tree' = Reverted(tree, task[p].applied)
                 /\ UNCHANGED row
    /\ task' = [task EXCEPT ![p] = Idle]
    /\ UNCHANGED <<given, left, crashes, figureVars>>

\* BookQAAgent fails after its retries: the step raises, and nothing is reverted.
FailQa(p) ==
    /\ task[p] # Idle
    /\ row' = [row EXCEPT ![p].state = "FAILED"]
    /\ task' = [task EXCEPT ![p] = Idle]
    /\ left' = left \cup {p}
    /\ UNCHANGED <<tree, given, crashes, figureVars>>

\* The process dies: files and rows stay as they are.
Crash ==
    /\ crashes < MaxCrashes
    /\ crashes' = crashes + 1
    /\ \E p \in Pipeline : task[p] # Idle \/ job[p] # NoJob
    /\ left' = left \cup {p \in Pipeline : task[p] # Idle}
    /\ task' = [p \in Pipeline |-> Idle]
    /\ job' = [p \in Pipeline |-> NoJob]
    /\ UNCHANGED <<row, tree, given, saved, images, figures, sources>>

Next ==
    \/ \E p \in Pipeline :
         \/ Draft(p) \/ Technical(p) \/ Editorial(p)
         \/ Visual(p) \/ Illustrate(p) \/ EndVisual(p) \/ FailVisual(p)
         \/ BeginQa(p) \/ EndQa(p) \/ FailQa(p)
    \/ Crash

Spec == Init /\ [][Next]_vars

-----------------------------------------------------------------------------
(* Properties *)

\* Type invariant: rows, tree, tasks and jobs.
TypeOK ==
    /\ \A p \in Pipeline :
         /\ row[p].state \in State
         /\ row[p].revisions \in 0 .. MaxRevisions + 1
         /\ row[p].state # "VERDICT_APPROVED" =>
              Len(row[p].patches) = Lesser(Len(given.targets[p]), MaxTargets)
         /\ task[p] # Idle => row[p].state = "VISUAL" /\ job[p] = NoJob
         /\ job[p] # NoJob => row[p].state = "EDITORIAL_VERIFY"
         /\ job[p].at \notin {"none", "done"} => job[p].left # <<>>
         /\ job[p].at \in {"check", "place"} => job[p].path \in DOMAIN saved
    /\ DOMAIN tree = DOMAIN Authored
    /\ left \subseteq Pipeline

\* "A rejected draft leaves no trace in the book" (writer.py): a line in the tree is the
\* author's, or of a draft that passed QA, or of one QA is looking at.  Said of every
\* pipeline whose QA came to a report, when no chapter is edited twice at once.
RejectedDraftsLeaveNoTrace ==
    \A c \in DOMAIN tree : \A i \in DOMAIN tree[c] :
        LET p == tree[c][i].by
        IN  p = "author" \/ p \in left \/ row[p].state = "BOOK_QA" \/ task[p] # Idle

\* What QA passed is in the book and stays there, whatever is applied and reverted for
\* others, unless a later draft that had read it replaced it.
PassedDraftsStand(p) ==
    \A k \in DOMAIN row[p].patches : \A l \in Added(row[p].patches[k]) :
        \/ \E i \in DOMAIN tree[row[p].patches[k].chapter] :
              tree[row[p].patches[k].chapter][i] = l
        \/ \E q \in Pipeline : \E j \in DOMAIN row[q].patches :
              \E i \in DOMAIN row[q].patches[j].before : row[q].patches[j].before[i] = l

\* As far as its report says that the checks ran: every figure it refers to has its file,
\* it cites no placeholder, and its first patch has no foreign word.
PassedDraftsAreWhole(p) ==
    \A k \in DOMAIN row[p].patches : \A l \in Added(row[p].patches[k]) :
        /\ "figures" \in row[p].skipped \/ l.figure = "" \/ l.figure \in DOMAIN images
        /\ "bibliography" \in row[p].skipped \/ ~l.gap
        /\ "language" \in row[p].skipped \/ k > 1 \/ ~Foreign(l.words)

PassedDraftsHold ==
    \A p \in Pipeline : row[p].state = "BOOK_QA" =>
        PassedDraftsStand(p) /\ PassedDraftsAreWhole(p)

\* Under what the theorems state the two: no draft edits a chapter twice, and two drafts
\* that may be in QA at once have no chapter in common.
Size(case, p) == Lesser(Len(case.targets[p]), MaxTargets)

ChaptersAreApart ==
    \A case \in Cases : \A p, q \in Pipeline :
        \A i \in 1 .. Size(case, p), k \in 1 .. Size(case, q) :
            case.targets[p][i].chapter = case.targets[q][k].chapter =>
                IF p = q THEN i = k ELSE ~case.overlap

\* Under what the theorem states FiguresAreCleared: two drafts that are illustrated at once
\* have no figure in common, and so no file of its candidates.
Asked(case, p) == {case.targets[p][i].figure : i \in 1 .. Size(case, p)} \ {""}

KeysAreApart ==
    \A case \in Cases : \A p, q \in Pipeline :
        p # q /\ case.overlap => Asked(case, p) \cap Asked(case, q) = {}

\* Refuted: no foreign word ships ("a check that cannot miss", language.py).  After
\* MaxFindings new words in a patch that is not the first, it does: the list is cut
\* before the editorial verifier reads it, and QA looks at the first patch.
ForeignWordsNeverShip ==
    \A p \in Pipeline : row[p].state = "BOOK_QA" =>
        \A k \in DOMAIN row[p].patches :
            \A l \in Added(row[p].patches[k]) : ~Foreign(l.words)

\* Refuted: a placeholder never ships ("it must never ship", test_manuscript_integrity).
\* A bib_validate that raises is skipped, and a skipped check is a passed one.
PlaceholdersNeverShip ==
    \A p \in Pipeline : row[p].state = "BOOK_QA" =>
        \A k \in DOMAIN row[p].patches : \A l \in Added(row[p].patches[k]) : ~l.gap

\* Refuted: no line is in the book twice.  After a crash in QA the draft is still there,
\* and an addition at the end of a chapter fits a second time.
AddedOnce ==
    \A c \in DOMAIN tree : \A i, k \in DOMAIN tree[c] :
        i # k => tree[c][i] # tree[c][k]

\* Refuted: nothing of a draft is there without a report: a crash, or a QA agent that
\* fails, leaves it in the tree.
OnlyJudgedDraftsStay ==
    \A c \in DOMAIN tree : \A i \in DOMAIN tree[c] :
        LET p == tree[c][i].by
        IN  p = "author" \/ row[p].state = "BOOK_QA" \/ task[p] # Idle

=============================================================================
