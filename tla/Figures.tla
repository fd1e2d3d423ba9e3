------------------------------- MODULE Figures -------------------------------
(***************************************************************************)
(* The visual pipeline (orchestrator/visual_flow.py), its agents           *)
(* (agents/visual), their skills (skills/visual/engine.py) and tools       *)
(* (tools/visual.py): search, verify, licence, refine and search again, or *)
(* draw, then QA and place.                                                *)
(*                                                                         *)
(* The steps hand each other the PATH of a file and what the search said   *)
(* of the image; every one of them opens the file again.  So files are     *)
(* part of the state, each with the image that is in it now.  An image is  *)
(* [id, licence, author]: the licence as its page words it and whether an  *)
(* author is recorded.  What the multimodal model says of an image is any  *)
(* answer of its schema.                                                   *)
(***************************************************************************)
EXTENDS Integers, Sequences, FiniteSets

CONSTANTS
    Pipeline,
    Key,            \* keys of figures, as \bookimage names them
    Listed,         \* Listed[key]: the images the searches may return for it
    MaxCandidates,  \* visual.max_candidates_per_requirement
    MaxRounds       \* visual.max_refine_rounds

ASSUME FiguresAssumption ==
    /\ \A k \in Key : \A image \in Listed[k] : image.author \in BOOLEAN
    /\ MaxCandidates \in Nat /\ MaxRounds \in Nat

VARIABLES
    saved,      \* figures/candidates and figures/generated: the image in each file
    images,     \* manuscript/images: each file with how it got there
    figures,    \* the table figures: what it says of each placed key
    sources,    \* manuscript/images/SOURCES.md
    job         \* each pipeline's run_visual_pipeline, or NoJob

figureVars == <<saved, images, figures, sources, job>>

NoJob == [at |-> "none"]

-----------------------------------------------------------------------------
(* Licences *)

\* normalise_license: "cc0" comes out as "cc-0", as "cc-by" of the same pattern would.
Normalised(licence) ==
    IF licence = "" THEN "unknown" ELSE IF licence = "cc0" THEN "cc-0" ELSE licence

\* is_license_acceptable with visual.acceptable_licenses, a version left off.
Redistributable(image) ==
    Normalised(image.licence) \in {"cc-0", "pd", "publicdomain", "cc-by", "cc-by-sa"}

\* Attribution, where the licence asks for it.  The verifier's list and the checker's
\* both name "cc0", which no normalised licence is; what both let off is this.
Credited(image) == image.author \/ Normalised(image.licence) = "pd"

Clear(image) == Redistributable(image) /\ Credited(image)

\* LicenseChecker's answer, which goes into the ledgers.
LicenceOf(image) == [source |-> image.id, licence |-> Normalised(image.licence)]

-----------------------------------------------------------------------------
(* Search, verification and QA *)

\* What a search may bring: no image twice, those with a good licence first.
Searches(key) ==
    {s \in UNION {[1 .. n -> Listed[key]] : n \in 0 .. MaxCandidates} :
        /\ \A i, j \in DOMAIN s : i # j => s[i] # s[j]
        /\ \A i, j \in DOMAIN s :
             i < j /\ Redistributable(s[j]) => Redistributable(s[i])}

\* Mutant: all candidates of a figure share a file.
PathOfKey(key, i) == <<"candidates", key, 1>>

\* figures/candidates/{key}_{i}
PathOf(key, i) == <<"candidates", key, i>>

Drawn(p, key) == [id |-> <<"drawn", p, key>>, licence |-> "cc0", author |-> TRUE]

\* The verdict left of the model's: unrelated or illegible is rejected, and too many
\* missing elements turn an accepted image into a reason to search again.
Verdict(says) ==
    IF says.unrelated \/ says.illegible THEN "reject"
    ELSE IF says.verdict = "accept" /\ says.lacking THEN "refine_search"
    ELSE says.verdict

Verdicts ==
    {Verdict(s) : s \in [verdict : {"accept", "reject", "refine_search"},
                         unrelated : BOOLEAN, illegible : BOOLEAN, lacking : BOOLEAN]}

\* FigureQASkill on the image in a file: wide enough, no problems, and passed.
QaPasses(says) == says.wide /\ ~says.problems /\ says.passed

QaAnswers == {QaPasses(s) : s \in [wide : BOOLEAN, problems : BOOLEAN, passed : BOOLEAN]}

-----------------------------------------------------------------------------
(* run_visual_pipeline, one requirement after the other *)

\* Mutant: the last requirement is followed by another search.
OnwardAgain(left, placed) ==
    [at |-> "search", left |-> left, placed |-> placed, round |-> 0]

\* The job turns to the next requirement, or is done; placed is figure_changes.
Onward(left, placed) ==
    IF left = <<>>
    THEN [at |-> "done", placed |-> placed]
    ELSE [at |-> "search", left |-> left, placed |-> placed, round |-> 0]

Opened(keys) == Onward(keys, {})

Working(p, at) == job[p].at = at

\* ImageSearchAgent: search, then download what has a good licence to a file of its
\* place in the list.  A dead source, or a failed download, leaves less.
Search(p) ==
    LET j   == job[p]
        key == Head(j.left)
    IN  /\ Working(p, "search")
        /\ \E found \in Searches(key) :
             \E got \in SUBSET {i \in DOMAIN found : Redistributable(found[i])} :
               /\ saved' = [f \in DOMAIN saved \cup {PathOf(key, i) : i \in got} |->
                              LET new == {i \in got : PathOf(key, i) = f}
                              IN  IF new = {} THEN saved[f]
                                  ELSE found[CHOOSE i \in new : \A k \in new : i >= k]]
               /\ job' = [job EXCEPT ![p] =
                    [at |-> "judge", left |-> j.left, placed |-> j.placed,
                     round |-> j.round, refine |-> FALSE,
                     candidates |-> {[path |-> PathOf(key, i), i |-> i, image |-> found[i]] :
                                        i \in got}]]
        /\ UNCHANGED <<images, figures, sources>>

\* The candidates are taken in their order.
Next1(candidates) == CHOOSE c \in candidates : \A d \in candidates : c.i <= d.i

Dropped(j, refine) ==
    [at |-> "judge", left |-> j.left, placed |-> j.placed, round |-> j.round,
     refine |-> refine, candidates |-> j.candidates]

\* SemanticImageVerifier opens the file and asks the model, unless the licence the
\* search reported already rules the image out; then LicenseChecker.
Judge(p) ==
    LET j    == job[p]
        c    == Next1(j.candidates)
        rest == [j EXCEPT !.candidates = @ \ {c}]
    IN  /\ Working(p, "judge")
        /\ j.candidates # {}
        /\ \E verdict \in Verdicts :
             job' = [job EXCEPT ![p] =
                IF ~Clear(c.image) \/ verdict = "reject" THEN rest
                ELSE IF verdict = "refine_search" THEN [rest EXCEPT !.refine = TRUE]
                ELSE [at |-> "check", left |-> j.left, placed |-> j.placed,
                      round |-> j.round, refine |-> j.refine,
                      candidates |-> rest.candidates, path |-> c.path,
                      info |-> LicenceOf(c.image), seen |-> saved[c.path], drawn |-> FALSE]]
        /\ UNCHANGED <<saved, images, figures, sources>>

\* Nothing was accepted.  If a candidate said how to search better, and rounds are
\* left, search again; else draw.
Refine(p) ==
    LET j == job[p]
    IN  /\ Working(p, "judge")
        /\ j.candidates = {}
        /\ job' = [job EXCEPT ![p] =
             IF j.round < MaxRounds /\ j.refine
             THEN [at |-> "search", left |-> j.left, placed |-> j.placed,
                   round |-> j.round + 1]
             ELSE [at |-> "draw", left |-> j.left, placed |-> j.placed]]
        /\ UNCHANGED <<saved, images, figures, sources>>

\* DiagramGeneratorAgent renders a diagram of the model's design.
Draw(p) ==
    LET j     == job[p]
        key   == Head(j.left)
        path  == <<"generated", key, 1>>
        image == Drawn(p, key)
    IN  /\ Working(p, "draw")
        /\ saved' = [f \in DOMAIN saved \cup {path} |->
                       IF f = path THEN image ELSE saved[f]]
        /\ job' = [job EXCEPT ![p] =
             [at |-> "check", left |-> j.left, placed |-> j.placed, path |-> path,
              info |-> [source |-> image.id, licence |-> "cc0"], seen |-> image,
              drawn |-> TRUE]]
        /\ UNCHANGED <<images, figures, sources>>

\* No diagram, or one that fails QA: the requirement is given up.
GiveUp(p) ==
    /\ Working(p, "draw")
    /\ job' = [job EXCEPT ![p] = Onward(Tail(@.left), @.placed)]
    /\ UNCHANGED <<saved, images, figures, sources>>

\* FigureQAAgent opens the file once more.
Check(p) ==
    LET j == job[p]
    IN  /\ Working(p, "check")
        /\ \E passes \in QaAnswers :
             job' = [job EXCEPT ![p] =
                IF passes
                THEN [at |-> "place", left |-> j.left, placed |-> j.placed,
                      path |-> j.path, info |-> j.info, seen |-> j.seen,
                      checked |-> saved[j.path]]
                ELSE IF j.drawn
                THEN Onward(Tail(j.left), j.placed)
                ELSE Dropped(j, j.refine)]
        /\ UNCHANGED <<saved, images, figures, sources>>

\* AssetManager copies the bytes that are in the file now.
Place(p) ==
    LET j   == job[p]
        key == Head(j.left)
        new == [image |-> saved[j.path], seen |-> j.seen, checked |-> j.checked,
                info |-> j.info]
    IN  /\ Working(p, "place")
        /\ images' = [k \in DOMAIN images \cup {key} |-> IF k = key THEN new ELSE images[k]]
        /\ job' = [job EXCEPT ![p] =
             [at |-> "record", left |-> j.left, placed |-> j.placed, info |-> j.info,
              image |-> saved[j.path]]]
        /\ UNCHANGED <<saved, figures, sources>>

\* Then, after the await of kb_upsert, the row; and _update_sources_md, which leaves a
\* file that is already listed as it is listed.
Record(p) ==
    LET j   == job[p]
        key == Head(j.left)
    IN  /\ Working(p, "record")
        /\ figures' = [k \in DOMAIN figures \cup {key} |->
                         IF k = key THEN [info |-> j.info, hash |-> j.image] ELSE figures[k]]
        /\ sources' = [k \in DOMAIN sources \cup {key} |->
                         IF k \in DOMAIN sources THEN sources[k] ELSE j.info]
        /\ job' = [job EXCEPT ![p] = Onward(Tail(j.left), j.placed \cup {key})]
        /\ UNCHANGED <<saved, images>>

\* LicenseChecker and AssetManager fail the pipeline on any exception.
Break(p) ==
    /\ job[p].at \in {"judge", "place", "record"}
    /\ job' = [job EXCEPT ![p] = NoJob]
    /\ UNCHANGED <<saved, images, figures, sources>>

VisualStep(p) ==
    \/ Search(p) \/ Judge(p) \/ Refine(p) \/ Draw(p) \/ GiveUp(p)
    \/ Check(p) \/ Place(p) \/ Record(p)

-----------------------------------------------------------------------------
(* Properties *)

MayBePrinted(image) ==
    /\ image.licence \in {"cc0", "cc-0", "pd", "publicdomain", "cc-by", "cc-by-sa"}
    /\ image.author \/ image.licence \in {"cc0", "pd", "publicdomain"}

\* What is in the file of every figure is the image the verifier looked at (or that was
\* drawn) and QA passed, it may be redistributed, it is credited where its licence asks
\* for it, and the licence that was checked is its own: "no unlicensed or irrelevant
\* image reaches the book" (agents/visual/agents.py).  Two pipelines must not look for
\* one key at once: they share the files of its candidates.
FiguresAreCleared ==
    \A k \in DOMAIN images :
        LET f == images[k]
        IN  /\ f.image = f.seen /\ f.image = f.checked
            /\ MayBePrinted(f.image)
            /\ f.info.source = f.image.id

\* Refuted: the ledger of rights is complete.  A stop between the file and the row, or
\* an upsert that fails, leaves a figure that neither table nor SOURCES.md knows.
LedgersAreComplete == DOMAIN images \subseteq DOMAIN figures \cap DOMAIN sources

\* Refuted: SOURCES.md names the source of the image that is there.  Its line stays when
\* a second draft places another image under the key.
SourcesNameTheImage ==
    \A k \in DOMAIN images \cap DOMAIN sources : sources[k].source = images[k].image.id

=============================================================================
