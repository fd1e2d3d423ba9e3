------------------------------ MODULE Knowledge ------------------------------
(***************************************************************************)
(* The book knowledge base: the parser of the manuscript                   *)
(* (knowledge/latex.py), the indexer (knowledge/indexer.py), the job       *)
(* kb_reindex that runs it and the command line that runs it as well, the  *)
(* concept graph (knowledge/graph.py) and the source an agent is shown     *)
(* (knowledge/retrieval.py).                                               *)
(*                                                                         *)
(* The manuscript changes while an indexer waits for the model: a person   *)
(* edits it, a draft is published, or QA puts one in and takes it out      *)
(* again.  The job reads the files twice, first for the fingerprint and    *)
(* then to parse them.  An indexer works on the book it parsed, stores     *)
(* every summary as it comes, and the job writes the fingerprint it took   *)
(* at the start when everything is done.  It may fail or be killed before. *)
(***************************************************************************)
EXTENDS Integers, Sequences, FiniteSets, SequencesExt

CONSTANTS
    Order,      \* the files of the book in reading order, as main.tex inputs them
    Versions,   \* bound: the texts the manuscript may have, by name
    Text,       \* Text[t][f]: the lines of file f in t, [level, label, word]: level 0 is
                \* prose, 1 a chapter, 2 a section and so on down
    Indexer,    \* "job" (the scheduler's kb_reindex), and processes of the command line
    MinWords,   \* MIN_WORDS_FOR_SUMMARY, in lines
    Budget,     \* max_tokens of context_for, in lines
    MaxEdits,   \* bound
    MaxFailures \* bound: summaries the model fails, indexers that fail or die

ASSUME KnowledgeAssumption ==
    /\ Versions # {} /\ "none" \notin Versions
    /\ DOMAIN Text = Versions
    /\ "job" \in Indexer
    /\ MinWords \in Nat /\ Budget \in Nat /\ MaxEdits \in Nat /\ MaxFailures \in Nat

VARIABLES
    text,       \* manuscript/: which of the texts it is
    nodes,      \* book_nodes, with cite_edges, xrefs and the structural edges they imply
    summaries,  \* node_summaries with their node_concepts and claims
    firsts,     \* concepts: the section each appears in first, or NoNode
    embeddings, \* embeddings of nodes
    edges,      \* graph_edges: which concept is explained in which section
    print,      \* schema_meta.manuscript_fingerprint, of which text; "none" at first
    job,        \* each indexer at work: the fingerprint it took, the book it parsed and what
                \* it has yet to summarise
    gaveUp,     \* history: sections, with their text, whose summary failed
    torn,       \* history: the job has not ended well, alone and with both its reads of one
                \* text, since it did otherwise, or the command line ran
    edits, failures

vars == <<text, nodes, summaries, firsts, embeddings, edges, print, job, gaveUp, torn,
          edits, failures>>

-----------------------------------------------------------------------------
(* The parser: a heading is known by the place of its file and its line *)

NoNode == [kind |-> 0]

Line(t, h) == Text[t][Order[h[1]]][h[2]]

Headings(t) ==
    {h \in UNION {{f} \X DOMAIN Text[t][Order[f]] : f \in DOMAIN Order} : Line(t, h).level > 0}

Before(h, k) == h[1] < k[1] \/ (h[1] = k[1] /\ h[2] < k[2])

\* A node reaches to the line before the next heading of its file, whatever its level.
End(t, h) ==
    LET next == {k \in Headings(t) : k[1] = h[1] /\ Before(h, k)}
    IN  IF next = {} THEN Len(Text[t][Order[h[1]]])
        ELSE (CHOOSE k \in next : \A l \in next : ~Before(l, k))[2] - 1

Body(t, h) == SubSeq(Text[t][Order[h[1]]], h[2], End(t, h))

\* make_id: by the first label of its body, and by its line without one.
Id(t, h) ==
    LET labelled == {i \in h[2] .. End(t, h) : Line(t, <<h[1], i>>).label # ""}
    IN  [kind |-> Line(t, h).level, file |-> Order[h[1]],
         base |-> IF labelled = {} THEN <<h[2]>>
                  ELSE <<Line(t, <<h[1], CHOOSE i \in labelled :
                                             \A k \in labelled : i <= k>>).label>>]

\* _assign_structure: the parent is the last heading before it of a higher level.
Parent(t, h) ==
    LET above == {k \in Headings(t) : Before(k, h) /\ Line(t, k).level < Line(t, h).level}
    IN  IF above = {} THEN NoNode
        ELSE Id(t, CHOOSE k \in above : \A l \in above : ~Before(k, l))

\* The rows of a parsed book.  Of two nodes with one id the later is kept.
Rows(t) ==
    [id \in {Id(t, h) : h \in Headings(t)} |->
        LET hs == {h \in Headings(t) : Id(t, h) = id}
            h  == CHOOSE k \in hs : \A l \in hs : ~Before(k, l)
        IN  [at |-> h, last |-> End(t, h), parent |-> Parent(t, h), hash |-> Body(t, h)]]

Parsed == [t \in Versions |-> Rows(t)]

Words(body) == Cardinality({i \in DOMAIN body : body[i].level = 0})
Concepts(body) == {body[i].word : i \in {k \in DOMAIN body : body[k].level = 0}}

\* The sections of a book that are long enough, two with one id among them.
Sections ==
    [t \in Versions |->
        [h \in {k \in Headings(t) : Words(Body(t, k)) >= MinWords} |->
            [id |-> Id(t, h), hash |-> Body(t, h)]]]

-----------------------------------------------------------------------------
(* Retrieval *)

\* read_source: the lines a row names, of the file as it is now.
Shown(id) ==
    LET file == Text[text][id.file]
        last == nodes[id].last
    IN  SubSeq(file, nodes[id].at[2], IF last < Len(file) THEN last ELSE Len(file))

\* _ancestors, of any depth a book has.
Ancestors(id) ==
    LET up[n \in 0 .. Cardinality(DOMAIN nodes)] ==
            IF n = 0 THEN {id}
            ELSE up[n - 1] \cup ({nodes[k].parent : k \in up[n - 1]} \ {NoNode})
    IN  up[Cardinality(DOMAIN nodes)] \ {id}

\* context_for one section: its ancestors from the top down and then itself, each left
\* out if it no longer fits.  A chapter above it costs its heading only.
Context(id) ==
    LET cost(k) == IF k # id /\ k.kind = 1 THEN 1 ELSE Len(Shown(k))
        take(got, k) == IF got.used + cost(k) > Budget THEN got
                        ELSE [used |-> got.used + cost(k), ids |-> got.ids \cup {k}]
        asked == SetToSortSeq(Ancestors(id) \cup {id},
                              LAMBDA a, b : Before(nodes[a].at, nodes[b].at))
    IN  FoldLeft(take, [used |-> 0, ids |-> {}], asked).ids

\* nodes_for_concepts and the sections that contain them.
Impact(concepts) ==
    LET direct == {e[2] : e \in {e2 \in edges : e2[1] \in concepts}} \cap DOMAIN nodes
    IN  direct \cup ({nodes[id].parent : id \in direct} \ {NoNode})

-----------------------------------------------------------------------------
(* The indexer *)

Idle == [at |-> "idle"]
Reading(stamp, alone) == [at |-> "read", stamp |-> stamp, alone |-> alone]
Working(left, taken, stamp, names, alone) ==
    [at |-> "summarise", left |-> left, taken |-> taken, stamp |-> stamp, names |-> names,
     alone |-> alone]

\* What runs is no longer alone, or its two reads are not of one text.
Beside(j) ==
    CASE j.at = "idle"      -> Idle
      [] j.at = "read"      -> Reading(j.stamp, FALSE)
      [] j.at = "summarise" -> Working(j.left, j.taken, j.stamp, j.names, FALSE)

Init ==
    /\ text \in Versions
    /\ nodes = <<>> /\ summaries = <<>> /\ firsts = <<>> /\ embeddings = <<>>
    /\ edges = {} /\ print = "none"
    /\ job = [x \in Indexer |-> Idle]
    /\ gaveUp = {} /\ torn = FALSE /\ edits = 0 /\ failures = 0

\* The manuscript changes.
Edit ==
    /\ edits < MaxEdits
    /\ edits' = edits + 1
    /\ text' \in Versions \ {text}
    /\ IF job["job"].at = "read"
       THEN job' = [job EXCEPT !["job"] = Beside(job["job"])] /\ torn' = TRUE
       ELSE UNCHANGED <<job, torn>>
    /\ UNCHANGED <<nodes, summaries, firsts, embeddings, edges, print, gaveUp, failures>>

\* index_semantics: the sections whose summary is not of this text.
Targets(t, known) ==
    {h \in DOMAIN Sections[t] :
        LET s == Sections[t][h] IN ~(s.id \in DOMAIN known /\ known[s.id].hash = s.hash)}

\* Mutant: the fingerprint is taken when the work is done.
Stored1(x, stamp) == IF x = "job" THEN text ELSE print

\* The job stores the fingerprint it took; the command line stores none.
Stored(x, stamp) == IF x = "job" THEN stamp ELSE print

\* No other indexer is at work.
Alone(x) == \A y \in Indexer \ {x} : job[y] = Idle

\* job_kb_reindex: manuscript_fingerprint, which is not the one stored.
TakesPrint ==
    /\ job["job"] = Idle
    /\ print # text
    /\ job' = [job EXCEPT !["job"] = Reading(text, Alone("job"))]
    /\ UNCHANGED <<text, nodes, summaries, firsts, embeddings, edges, print, gaveUp, torn,
                   edits, failures>>

\* index_structure.  Summaries, concepts and claims go with their node (ON DELETE
\* CASCADE), a first appearance becomes NULL; embeddings and semantic edges stay.
\* With nothing to summarise the semantic pass returns at once.
Begin(x) ==
    LET book   == Parsed[text]
        kept   == [id \in DOMAIN summaries \cap DOMAIN book |-> summaries[id]]
        target == Targets(text, kept)
        stamp  == IF x = "job" THEN job[x].stamp ELSE text
        alone  == IF x = "job" THEN job[x].alone ELSE Alone(x)
    IN  /\ job[x].at = IF x = "job" THEN "read" ELSE "idle"
        /\ nodes' = book
        /\ summaries' = kept
        /\ firsts' = [c \in DOMAIN firsts |->
                        IF firsts[c] \in DOMAIN book THEN firsts[c] ELSE NoNode]
        /\ job' = [y \in Indexer |->
                      IF y # x THEN Beside(job[y])
                      ELSE IF target = {} THEN Idle
                      ELSE Working(target, text, stamp, {}, alone)]
        /\ print' = IF target = {} THEN Stored(x, stamp) ELSE print
        /\ torn' = IF x = "job" THEN torn /\ ~(alone /\ target = {}) ELSE TRUE
        /\ UNCHANGED <<text, embeddings, edges, gaveUp, edits, failures>>

Stopped(x) == job' = [job EXCEPT ![x] = Idle] /\ torn' = TRUE

\* x goes on without the section at h; names: the concepts found so far.
GoesOn(x, h, names) ==
    job' = [job EXCEPT ![x] = Working(job[x].left \ {h}, job[x].taken, job[x].stamp, names,
                                      job[x].alone)]

\* A summary comes, in any order, and is stored with the hash of the text it was made
\* from: of two sections with one id, the one that comes last stays.  For a node that
\* another indexer has dropped the foreign key fails, and with it the indexer.
Summarise(x) ==
    /\ job[x].at = "summarise"
    /\ \E h \in job[x].left :
         LET s    == Sections[job[x].taken][h]
             says == Concepts(s.hash)
         IN  IF s.id \in DOMAIN nodes
             THEN /\ summaries' = [n \in DOMAIN summaries \cup {s.id} |->
                        IF n = s.id THEN [hash |-> s.hash, says |-> says] ELSE summaries[n]]
                  /\ firsts' = [c \in DOMAIN firsts \cup says |->
                        IF c \in DOMAIN firsts THEN firsts[c] ELSE NoNode]
                  /\ GoesOn(x, h, job[x].names \cup says)
                  /\ gaveUp' = gaveUp \ {<<s.id, s.hash>>}
                  /\ UNCHANGED torn
             ELSE Stopped(x) /\ UNCHANGED <<summaries, firsts, gaveUp>>
    /\ UNCHANGED <<text, nodes, embeddings, edges, print, edits, failures>>

\* The model fails for one section: it is left out, and the pass goes on.
GiveUp(x) ==
    /\ failures < MaxFailures
    /\ failures' = failures + 1
    /\ job[x].at = "summarise"
    /\ \E h \in job[x].left :
         LET s == Sections[job[x].taken][h]
         IN  GoesOn(x, h, job[x].names) /\ gaveUp' = gaveUp \cup {<<s.id, s.hash>>}
    /\ UNCHANGED <<text, nodes, summaries, firsts, embeddings, edges, print, torn, edits>>

\* _persist_concepts: where the concepts of this pass appear first.
FirstOf(c) ==
    LET ids == {id \in DOMAIN summaries : c \in summaries[id].says}
    IN  IF ids = {} THEN NoNode
        ELSE CHOOSE id \in ids : \A k \in ids : ~Before(nodes[k].at, nodes[id].at)

\* What has no embedding at all.
Pending == DOMAIN summaries \ DOMAIN embeddings

\* put_embeddings, for the summaries that has_embedding found without.
Embedded(got) ==
    [id \in DOMAIN embeddings \cup got |->
        IF id \in DOMAIN embeddings THEN embeddings[id] ELSE summaries[id].says]

\* _build_semantic_graph: a concept is explained in the sections whose summary names it.
Explained == UNION {summaries[id].says \X {id} : id \in DOMAIN summaries}

\* _embed_all, _build_semantic_graph and the end of job_kb_reindex.
Conclude(x) ==
    /\ job[x].at = "summarise" /\ job[x].left = {}
    /\ firsts' = [c \in DOMAIN firsts |-> IF c \in job[x].names THEN FirstOf(c) ELSE firsts[c]]
    /\ embeddings' = Embedded(Pending)
    /\ edges' = Explained
    /\ print' = Stored(x, job[x].stamp)
    /\ job' = [job EXCEPT ![x] = Idle]
    /\ torn' = (torn /\ ~(x = "job" /\ job[x].alone))
    /\ UNCHANGED <<text, nodes, summaries, gaveUp, edits, failures>>

\* The embedding service fails after the chunks before, or the process dies.
Stop(x) ==
    LET embeds == job[x].at = "summarise" /\ job[x].left = {}
    IN  /\ failures < MaxFailures
        /\ failures' = failures + 1
        /\ job[x] # Idle
        /\ Stopped(x)
        /\ \E got \in SUBSET (IF embeds THEN Pending ELSE {}) : embeddings' = Embedded(got)
        /\ firsts' = [c \in DOMAIN firsts |->
                        IF embeds /\ c \in job[x].names THEN FirstOf(c) ELSE firsts[c]]
        /\ UNCHANGED <<text, nodes, summaries, edges, print, gaveUp, edits>>

Next ==
    \/ Edit \/ TakesPrint
    \/ \E x \in Indexer : Begin(x) \/ Summarise(x) \/ GiveUp(x) \/ Conclude(x) \/ Stop(x)

Spec == Init /\ [][Next]_vars

-----------------------------------------------------------------------------
(* Properties *)

\* The job calls the manuscript unchanged, no indexer is at work, and since one stopped
\* early, the command line ran, or the text changed between the job's two reads, the job
\* has ended well alone.
Current == print = text /\ torn = FALSE /\ \A x \in Indexer : job[x] = Idle

\* The section at h of t has a summary made of its text, or of the text of another
\* section with its id.
HasSummary(t, h) ==
    LET id == Sections[t][h].id
    IN  \E k \in DOMAIN Sections[t] : /\ Sections[t][k].id = id
                                      /\ id \in DOMAIN summaries
                                      /\ summaries[id].hash = Sections[t][k].hash

\* No summary is there of a section that is gone, or with the hash of another text than
\* the one it speaks of, however the job and the command line overlap.
SummariesAreOfTheirText ==
    \A id \in DOMAIN summaries :
        id \in DOMAIN nodes /\ summaries[id].says = Concepts(summaries[id].hash)

\* When the job finds nothing to do, the rows are those of the manuscript as it is, and
\* every section that is long enough has a summary of its own present text (of one of
\* theirs, if several have one id) or the model failed for that text.
IndexIsCurrent ==
    Current =>
        /\ nodes = Parsed[text]
        /\ \A h \in DOMAIN Sections[text] :
              \/ HasSummary(text, h)
              \/ <<Sections[text][h].id, Sections[text][h].hash>> \in gaveUp

\* Both: an agent that asks the knowledge base is told of this manuscript.
KnowledgeIsCurrent == IndexIsCurrent /\ SummariesAreOfTheirText

\* Refuted: the same whatever has stopped, overlapped or changed meanwhile.  The command
\* line stores no fingerprint of what it indexed.  An indexer that reads a draft QA
\* is looking at and then fails leaves the rows of that draft; when QA takes it out, the
\* fingerprint is the stored one again.  And even the job alone, with no failure, keeps
\* the rows of a draft that came after its fingerprint and goes again.
UnchangedMeansIndexed ==
    print = text /\ (\A x \in Indexer : job[x] = Idle) => nodes = Parsed[text]

\* Refuted: every section that is long enough gets its summary.  The fingerprint is
\* stored even when the model failed for some, or two have one id.
EverySectionIsSummarised ==
    Current => Targets(text, summaries) = {}

\* Refuted: a summary is of the present text.  A section cut below the minimum keeps
\* its old one.
SummariesAreOfThePresentText ==
    Current => \A id \in DOMAIN summaries :
                   summaries[id].hash = nodes[id].hash \/ <<id, nodes[id].hash>> \in gaveUp

\* Refuted: search looks at the summaries there are.  A node that has an embedding
\* never gets another.
EmbeddingsFollowSummaries ==
    Current => \A id \in DOMAIN summaries \cap DOMAIN embeddings :
                   embeddings[id] = summaries[id].says

\* Refuted: impact analysis reaches every section that explains a concept.  When
\* embedding fails, the next run has nothing to summarise and returns before the graph.
ImpactIsComplete ==
    Current => \A id \in DOMAIN summaries : \A c \in summaries[id].says : id \in Impact({c})

\* Refuted: ancestors never crowd out the section that was asked for, as the comment at
\* retrieval.py:237 has it: those that are sections come with all their prose, and first.
ContextHoldsWhatWasAsked ==
    \A id \in DOMAIN nodes : Len(Shown(id)) + Cardinality(Ancestors(id)) <= Budget => id \in Context(id)

\* Refuted: an agent that asks for a section is shown that section.  Until the next
\* reindex the lines are those of the old text.
SectionsAreShownAsTheyAre ==
    \A id \in DOMAIN nodes : id \in DOMAIN Parsed[text] => Shown(id) = Parsed[text][id].hash

=============================================================================
