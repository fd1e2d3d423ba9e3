------------------------------- MODULE MCBook -------------------------------
(* Two drafts on a book of three short chapters.                                   *)
EXTENDS Book

MCPipeline == {"p", "q"}
MCChapter  == {"one", "two", "three"}
MCKey      == {"fig", "alt", "gem"}

AuthorLine(n) == [by |-> "author", n |-> n, figure |-> "", words |-> <<>>, gap |-> FALSE]
MCAuthored ==
    [c \in MCChapter |-> IF c = "one" THEN <<AuthorLine(1), AuthorLine(2)>>
                         ELSE IF c = "two" THEN <<AuthorLine(3)>> ELSE <<AuthorLine(4)>>]

Edit(c, figure, words, gap) == [chapter |-> c, figure |-> figure, words |-> words, gap |-> gap]
Plain(c) == Edit(c, "", <<>>, FALSE)
Wordy(c) == Edit(c, "", <<"new", "foreign">>, FALSE)
Drawing(c, key) == Edit(c, key, <<>>, FALSE)

Both(a, b) == [p \in MCPipeline |-> IF p = "p" THEN a ELSE b]

\* One after another: on one chapter, for one figure, with a flaw.  At once: on chapters
\* and for figures of their own.
MCCases ==
    { [targets |-> Both(<<Plain("one"), Wordy("two"), Plain("three")>>, <<Plain("one")>>),
       overlap |-> FALSE, skips |-> 1],
      [targets |-> Both(<<Drawing("two", "fig")>>, <<Drawing("three", "fig")>>),
       overlap |-> FALSE, skips |-> 0],
      [targets |-> Both(<<Edit("one", "", <<>>, TRUE)>>, <<Wordy("two")>>),
       overlap |-> FALSE, skips |-> 2],
      [targets |-> Both(<<Drawing("two", "alt")>>, <<Drawing("three", "gem")>>),
       overlap |-> TRUE, skips |-> 0] }

MCListed ==
    [k \in MCKey |->
        IF k = "fig"
        THEN { [id |-> "photo", licence |-> "cc-by", author |-> TRUE],
               [id |-> "scan", licence |-> "cc-by", author |-> FALSE] }
        ELSE IF k = "alt" THEN { [id |-> "plate", licence |-> "cc0", author |-> TRUE] }
        ELSE {}]

\* What the theorems assume of the drafts holds of these.
ASSUME MCChaptersAssumption == ChaptersAreApart
ASSUME MCKeysAssumption == KeysAreApart

=============================================================================
