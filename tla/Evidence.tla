------------------------------ MODULE Evidence ------------------------------
(***************************************************************************)
(* What a finding may count as, and what it may change: the evidence kinds *)
(* of research/models.py, the analyses of skills/research/discovery.py,    *)
(* the maturity of skills/research/synthesis.py and the two gates of       *)
(* agents/verdict/verdict.py.                                              *)
(*                                                                         *)
(* A piece of evidence keeps what the gates read of it: its kind, its      *)
(* strength and the sources of its provenance; of and about say which item *)
(* and which statement it is.  Texts are left out, and so is everything a  *)
(* model reports that no gate reads.                                       *)
(***************************************************************************)
EXTENDS Naturals, FiniteSets, Sequences

CONSTANTS
    MinScientific,      \* verdict.min_evidence_for_book_change.scientific
    MinSources          \* verdict.min_evidence_for_book_change.total

ASSUME FloorAssumption == MinScientific \in Nat /\ MinSources \in Nat

-----------------------------------------------------------------------------
(* Kinds *)

\* _KIND_RANK, the weakest kind first.
KindRank == <<"anecdotal_practical", "community", "author_claim", "adoption",
              "practical", "independent_verification", "scientific">>

Kinds == {KindRank[n] : n \in 1..7}
Strengths == {"strong", "moderate", "weak", "anecdotal"}

\* SOURCE_EVIDENCE_KINDS, with the default of its readers for any other source.
SourceKinds(source) ==
    CASE source = "arxiv" -> {"scientific", "author_claim"}
      [] source \in {"openalex", "semantic_scholar", "openreview", "acl"} ->
             {"scientific", "independent_verification"}
      [] source \in {"crossref", "datacite"} -> {"scientific"}
      [] source \in {"github", "huggingface"} -> {"practical", "adoption"}
      [] source = "hf_papers" -> {"community", "adoption"}
      [] source = "blog" -> {"practical", "author_claim"}
      [] source \in {"hackernews", "github_discussion", "reddit"} ->
             {"community", "anecdotal_practical"}
      [] source = "web" -> {"community", "author_claim"}
      [] OTHER -> {"community"}

\* _weakest
Weakest(kinds) ==
    LET ranks == {n \in 1..7 : KindRank[n] \in kinds}
    IN  IF ranks = {} THEN "community"
        ELSE KindRank[CHOOSE n \in ranks : \A m \in ranks : n <= m]

\* _allowed_kinds: what the source can support, of that what the agent declares.
AllowedKinds(source, declared) ==
    LET both == SourceKinds(source) \cap declared
    IN  IF both = {} THEN SourceKinds(source) ELSE both

Piece == [of : STRING, about : STRING, kind : Kinds, strength : Strengths,
          sources : SUBSET STRING]

\* Mutant: the kind is taken as stated.
AsStated(item, about, kind, strength, permitted, sources) ==
    [of |-> item, about |-> about, kind |-> kind, strength |-> strength, sources |-> sources]

\* Evidence.for_source, for an item of that source: a kind beyond what is permitted
\* becomes the weakest permitted one.
ForSource(item, about, kind, strength, permitted, sources) ==
    LET stands == kind \in permitted
    IN  [of |-> item, about |-> about,
         kind |-> IF stands THEN kind ELSE Weakest(permitted),
         strength |-> IF stands THEN strength ELSE "weak",
         sources |-> sources]

-----------------------------------------------------------------------------
(* Analyses: what a model reports of an item, as evidence *)

\* PaperAnalysisSkill: the claims it reports ("author" and "shown" ones) and the
\* numbers ("sota" and "plain" ones), each of them once.
PaperEvidence(item, source, declared, claims, numbers) ==
    LET allowed == AllowedKinds(source, declared)
    IN  {ForSource(item, c,
                   IF c = "author" THEN "author_claim" ELSE "scientific",
                   IF c = "author" THEN "moderate" ELSE "strong", allowed, {source}) :
            c \in claims}
        \cup
        {ForSource(item, b, "scientific",
                   IF b = "sota" THEN "moderate" ELSE "strong", allowed, {source}) :
            b \in numbers}

\* RepoAnalysisSkill: how widely it is adopted, and its practical notes.
RepoEvidence(item, source, declared, adoption, notes) ==
    LET allowed == AllowedKinds(source, declared)
    IN  {ForSource(item, "adoption", "adoption", adoption, allowed, {source})}
        \cup {ForSource(item, n, "practical", "moderate", allowed, {source}) : n \in notes}

\* Sources of the first threads of a digest.
SourcesIn(threads, cut) == {threads[n] : n \in {m \in DOMAIN threads : m <= cut}}

\* CommunitySignalSkill over several threads, given by their sources, the first of which
\* is that of the digest.  Its evidence has every thread for provenance, so one digest
\* may count as two sources.
CommunityEvidence(item, source, declared, interest, threads, pains) ==
    LET allowed == AllowedKinds(source, declared)
        strength == IF interest = "high" /\ Len(threads) >= 3 THEN "moderate" ELSE "anecdotal"
    IN  {ForSource(item, "discussion", "community", strength, allowed,
                   SourcesIn(threads, 12))}
        \cup {ForSource(item, p, "anecdotal_practical", "anecdotal", allowed,
                        SourcesIn(threads, 3)) : p \in pains}

-----------------------------------------------------------------------------
(* Maturity *)

MaturityOrder == <<"speculative", "emerging", "consolidating", "mature">>
Maturities == {"speculative", "emerging", "consolidating", "mature", "superseded"}

Level(maturity) == CHOOSE n \in 1..4 : MaturityOrder[n] = maturity

SourcesOf(evidence) == UNION {e.sources : e \in evidence}
Has(evidence, kinds) == \E e \in evidence : e.kind \in kinds

\* compute_maturity, of a group of that many items.
ComputeMaturity(evidence, size) ==
    LET science == Has(evidence, {"scientific"})
        independent == Has(evidence, {"independent_verification"})
        practical == Has(evidence, {"practical", "adoption"})
        adopted == \E e \in evidence : e.kind = "adoption" /\ e.strength = "strong"
        sources == Cardinality(SourcesOf(evidence))
    IN  IF science /\ independent /\ adopted /\ sources >= 4 THEN "mature"
        ELSE IF science /\ (independent \/ practical) /\ sources >= 3 THEN "consolidating"
        ELSE IF \/ science /\ (practical \/ size >= 3)
                \/ (science \/ practical) /\ sources >= 2 THEN "emerging"
        ELSE "speculative"

\* Mutant: the model's word stands.
StatedMaturity(stated, computed) == stated

\* _min_maturity: what the model states, capped by what was computed.
MinMaturity(stated, computed) ==
    IF "superseded" \in {stated, computed} THEN "superseded"
    ELSE IF Level(stated) <= Level(computed) THEN stated ELSE computed

-----------------------------------------------------------------------------
(* The two gates of the verdict *)

Decisions == {"IGNORE", "MONITOR", "ADD_REFERENCE", "ADD_FOOTNOTE", "EXTEND_SECTION",
              "ADD_NEW_SECTION", "REWRITE_SECTION", "REPLACE_OBSOLETE_CONTENT"}

\* Verdict.changes_manuscript
Changes(decision) == decision \notin {"IGNORE", "MONITOR"}

\* verdict.maturity_required_for
RequiredMaturity(decision) ==
    CASE decision \in {"ADD_NEW_SECTION", "REWRITE_SECTION"} -> {"consolidating", "mature"}
      [] decision = "REPLACE_OBSOLETE_CONTENT" -> {"mature"}
      [] decision \in {"EXTEND_SECTION", "ADD_FOOTNOTE", "ADD_REFERENCE"} ->
             {"emerging", "consolidating", "mature"}
      [] OTHER -> Maturities

\* _evidence_floor, of evidence and the sources of a cluster's members.
PassesFloor(evidence, sources) ==
    /\ Cardinality({e \in evidence : e.kind \in {"scientific", "independent_verification"}})
           >= MinScientific
    /\ Cardinality(sources) >= MinSources

\* _allowed_decisions
Allowed(maturity) == {d \in Decisions : maturity \in RequiredMaturity(d)}

\* _enforce_gates: what is not allowed becomes the most that is.
Enforced(decision, maturity) ==
    IF decision \in Allowed(maturity) THEN decision
    ELSE IF "EXTEND_SECTION" \in Allowed(maturity) THEN "EXTEND_SECTION"
    ELSE IF "ADD_FOOTNOTE" \in Allowed(maturity) THEN "ADD_FOOTNOTE"
    ELSE IF "ADD_REFERENCE" \in Allowed(maturity) THEN "ADD_REFERENCE"
    ELSE "MONITOR"

=============================================================================
