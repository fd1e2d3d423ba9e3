----------------------------- MODULE MCCitation -----------------------------
(* Two drafts that need sources, over a bibliography of one entry.  Two works share *)
(* the title "Overview", author and year; a third is listed as a preprint and as   *)
(* the journal article it became.                                                  *)
EXTENDS Citation

MCPipeline == {"p", "q"}
MCClaim    == {"a", "b", "c"}
MCStrict   == {"a"}

\* One draft with two claims, or two drafts with one claim each.
Single == [p \in MCPipeline |-> IF p = "p" THEN {"a", "b"} ELSE {}]
Double(c, d) == [p \in MCPipeline |-> IF p = "p" THEN {c} ELSE {d}]

MCCases ==
    { [draft |-> Single, overlap |-> FALSE], [draft |-> Double("c", "b"), overlap |-> FALSE],
      [draft |-> Double("b", "b"), overlap |-> TRUE] }

MCAuthored ==
    << [key |-> <<"overview", 1>>, work |-> "old", doi |-> "", arxiv |-> "",
        title |-> "Overview", by |-> Author] >>

New      == [work |-> "new", doi |-> "10.1", arxiv |-> "", title |-> "Overview"]
Preprint == [work |-> "deep", doi |-> "10.48550", arxiv |-> "2401",
             title |-> "Deep overview, a preprint"]
Article  == [work |-> "deep", doi |-> "10.2", arxiv |-> "", title |-> "Deep overview of it all"]

MCListing ==
    [c \in MCClaim |->
        IF c = "a" THEN {New} ELSE IF c = "b" THEN {Preprint} ELSE {Preprint, Article}]

\* An arXiv record has a DOI made from its id, and that DOI resolves without the id.
MCRegistry ==
    LET Is(doi, arxiv, source) == [doi |-> doi, arxiv |-> arxiv, title |-> source.title]
    IN  [id \in {"10.1", "10.2", "2401", "10.48550"} |->
            IF id = "10.1" THEN Is(id, "", New)
            ELSE IF id = "10.2" THEN Is(id, "", Article)
            ELSE Is("10.48550", IF id = "2401" THEN id ELSE "", Preprint)]

MCStem ==
    [t \in {"Overview", "Deep overview, a preprint", "Deep overview of it all"} |->
        IF t = "Overview" THEN "overview" ELSE "deep"]

MCBrief == {"Overview"}

Says(identity, supports, quoted, laundered, verdict) ==
    [identity |-> identity, supports |-> supports, quoted |-> quoted,
     laundered |-> laundered, lead |-> laundered, verdict |-> verdict]

\* A good answer, and for each gate the answer that only that gate stops.  One of them
\* calls the source laundered in the field that no gate reads: it passes where no
\* quotation is asked for.
MCAnswer ==
    { Says(TRUE, "supports", TRUE, FALSE, "accept"),
      Says(TRUE, "laundered", FALSE, FALSE, "accept"),
      Says(TRUE, "supports", TRUE, TRUE, "accept"),
      Says(FALSE, "supports", TRUE, FALSE, "accept"),
      Says(TRUE, "does_not_support", TRUE, FALSE, "accept") }

\* The works of these identifiers and titles: what the theorems assume holds here.
MCMeaning ==
    [id    |-> [id \in DOMAIN MCRegistry |-> IF id = "10.1" THEN "new" ELSE "deep"],
     kind  |-> [id \in DOMAIN MCRegistry |-> IF id = "2401" THEN "arxiv" ELSE "doi"],
     title |-> [t \in DOMAIN MCStem |-> "deep"]]

ASSUME MCSourcesAssumption ==
    /\ SourcesAreTruthful(MCMeaning)
    /\ IdentifiersResolve(MCMeaning)
    /\ AuthorKeepsKeysApart

=============================================================================
