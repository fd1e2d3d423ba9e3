----------------------------- MODULE MCDelivery -----------------------------
(* Instances of Delivery for TLC. *)
EXTENDS Delivery, TLC

CONSTANTS p1, p2, ch1, ch2, bib

\* Each draft changes a chapter of its own.
OwnChapters == (p1 :> ch1) @@ (p2 :> ch2)

\* Both drafts change one chapter.
OneChapter == (p1 :> ch1) @@ (p2 :> ch1)

\* Both cite: the first adds an entry, the second finds one there to reuse.
BothCite == [p \in Pipeline |-> {bib}]
OneAdds == (p1 :> {bib}) @@ (p2 :> {})

\* Each topic has its branch.
OwnBranches == (p1 :> "agent/one") @@ (p2 :> "agent/two")

=============================================================================
