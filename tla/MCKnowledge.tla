----------------------------- MODULE MCKnowledge -----------------------------
(* A book of two files: a chapter with a labelled section and one without a label.  *)
EXTENDS Knowledge

Heading(level, label) == [level |-> level, label |-> label, word |-> ""]
Prose(word) == [level |-> 0, label |-> "", word |-> word]

MCOrder == <<"intro", "body">>

Book(body) == [f \in {"intro", "body"} |-> IF f = "intro" THEN <<Heading(1, "ch")>> ELSE body]

\* As it was; with a draft in it, which cuts the first section short and moves what
\* follows; with the second section gone, and the first copied in its place, label and all.
MCText ==
    [was     |-> Book(<<Heading(2, "sec"), Prose("rope"), Prose("gqa"),
                        Heading(3, ""), Prose("moe"), Prose("rope")>>),
     drafted |-> Book(<<Heading(2, "sec"), Prose("dpo"),
                        Heading(3, ""), Prose("moe"), Prose("rope")>>),
     copied  |-> Book(<<Heading(2, "sec"), Prose("rope"), Prose("gqa"),
                        Heading(2, "sec"), Prose("moe"), Prose("lora")>>)]

MCVersions == DOMAIN MCText

MCIndexer == {"job", "cli"}

\* TLC keeps a function it has compared, and computes any other at each application.
ASSUME Tabulated == Parsed = Parsed /\ Sections = Sections

=============================================================================
