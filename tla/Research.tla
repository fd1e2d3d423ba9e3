------------------------------ MODULE Research ------------------------------
(***************************************************************************)
(* Research memory: the source agents of agents/research/sources.py that   *)
(* fill it, the synthesizer that groups it, the verdict that judges the    *)
(* groups, and the jobs of the orchestrator between them.                  *)
(*                                                                         *)
(* An agent looks its findings up, analyses them for minutes and writes    *)
(* them; the synthesizer reads rows, asks a model for minutes and writes   *)
(* clusters.  Each is two steps here, others act in between, and a crash   *)
(* loses what lies between them.  A cluster's id is the hash of its        *)
(* members' ids: here it is the set of its members.  The age of a row is   *)
(* not kept: which rows are due or expired is a free choice.  What becomes *)
(* of a pipeline after its verdict is PipelineDriver's subject.            *)
(***************************************************************************)
EXTENDS Synthesis

CONSTANTS
    Item,           \* what the sources have, rows of (source, source_id)
    Origin,         \* [Item -> source]
    Identity,       \* [Item -> DOI or arXiv id, "" if it has none]
    Reports,        \* [Item -> what a model may report of it]
    Agent,          \* the source agents that are enabled
    Finds,          \* [Agent -> items its searches return]
    LoadLimit,      \* rows the synthesizer loads at most
    Stated,         \* maturities the model of the synthesizer may state
    Asked,          \* decisions the model of the verdict may take
    MaxKnown,       \* bound: no synthesis once there are that many clusters
    Crashes         \* TRUE: the process may die

ASSUME ResearchAssumption ==
    /\ IsFiniteSet(Item)
    /\ \A a \in Agent : Finds[a] \subseteq Item
    /\ Stated \subseteq Maturities
    /\ \A i \in Item : \A report \in Reports[i] : IsFiniteSet(report.concepts)
    /\ \A i, j \in Item : Cosine[{i, j}] \in Int
    /\ JoinAt \in Int

\* What a digest is made of, and that it is of the source of its first thread.
ASSUME DigestsAssumption ==
    \A i \in Item : \A report \in Reports[i] :
        /\ report.threads \in Seq({"hackernews", "github_discussion"})
        /\ report.threads # <<>> => Origin[i] = report.threads[1]

VARIABLES
    memory,     \* research_items: lifecycle and payload of every item
    batch,      \* per agent, the findings it is analysing
    synth,      \* the synthesizer: idle, or the rows it has loaded, or clusters to announce
    clusters,   \* clusters, by their members
    pipes,      \* per cluster, the state of its last pipeline
    verdicts    \* per cluster, the verdict and the evidence it was taken on

vars == <<memory, batch, synth, clusters, pipes, verdicts>>

-----------------------------------------------------------------------------
(* The source agents: config/agents.yaml and what each class overrides *)

ArxivAgent == [source |-> "arxiv", analysis |-> "paper", dedupes |-> TRUE,
               kinds |-> {"scientific", "author_claim"}]
ScholarlyAgent == [source |-> "openalex", analysis |-> "paper", dedupes |-> TRUE,
                   kinds |-> {"scientific", "independent_verification"}]
GithubResearchAgent == [source |-> "github", analysis |-> "repo", dedupes |-> TRUE,
                        kinds |-> {"practical", "adoption"}]
HuggingFaceAgent == [source |-> "huggingface", analysis |-> "repo", dedupes |-> FALSE,
                     kinds |-> {"practical", "adoption"}]
ResearchBlogAgent == [source |-> "blog", analysis |-> "paper", dedupes |-> FALSE,
                      kinds |-> {"practical", "author_claim"}]
ConferenceAgent == [source |-> "openreview", analysis |-> "paper", dedupes |-> TRUE,
                    kinds |-> {"scientific", "independent_verification"}]
BenchmarkAgent == [source |-> "github", analysis |-> "repo", dedupes |-> FALSE,
                   kinds |-> {"scientific", "practical"}]
CommunityAgent == [source |-> "hackernews", analysis |-> "digest", dedupes |-> TRUE,
                   kinds |-> {"community", "anecdotal_practical"}]

Contract(a) ==
    CASE a = "arxiv_agent" -> ArxivAgent
      [] a = "scholarly_agent" -> ScholarlyAgent
      [] a = "github_research_agent" -> GithubResearchAgent
      [] a = "huggingface_agent" -> HuggingFaceAgent
      [] a = "research_blog_agent" -> ResearchBlogAgent
      [] a = "conference_agent" -> ConferenceAgent
      [] a = "benchmark_agent" -> BenchmarkAgent
      [] a = "community_agent" -> CommunityAgent

\* What the agent makes of a report: the payload of the row.
Payload(a, i, report) ==
    LET kinds == Contract(a).kinds
    IN  [source |-> Origin[i], identity |-> Identity[i], concepts |-> report.concepts,
         evidence |->
             CASE Contract(a).analysis = "paper" ->
                      PaperEvidence(i, Origin[i], kinds, report.claims, report.numbers)
               [] Contract(a).analysis = "repo" ->
                      RepoEvidence(i, Origin[i], kinds, report.adoption, report.notes)
               [] OTHER ->
                      CommunityEvidence(i, Origin[i], kinds, report.interest,
                                        report.threads, report.pains)]

-----------------------------------------------------------------------------
(* The rows *)

\* INSERT OR REPLACE, and ON CONFLICT DO UPDATE.
Replaced(table, rows) ==
    [x \in DOMAIN table \cup DOMAIN rows |-> IF x \in DOMAIN rows THEN rows[x] ELSE table[x]]

Lives == {"DISCOVERED", "SEEN", "MONITOR", "DISMISSED", "INTEGRATED"}
NoRow == [life |-> "NONE", payload |-> <<>>]
Stored(i) == memory[i].life # "NONE"

\* Mutant: a finding that comes again starts anew.
UpsertedAnew(row, times, payload) == [life |-> "DISCOVERED", payload |-> payload]

\* kb_upsert of a research item, that many times: a row that exists keeps its lifecycle,
\* but for DISCOVERED, and gets the new payload.
Upserted(row, times, payload) ==
    [life |-> CASE row.life = "NONE" -> IF times = 1 THEN "DISCOVERED" ELSE "SEEN"
                [] row.life = "DISCOVERED" -> "SEEN"
                [] OTHER -> row.life,
     payload |-> payload]

-----------------------------------------------------------------------------
(* Discovery *)

\* _drop_already_seen: the rows of the agent's own source are known.
Known(a, i) == Stored(i) /\ Origin[i] = Contract(a).source

\* discover and _drop_already_seen.  Agents that keep no seen set may find an item twice.
Discover(a) ==
    /\ Contract(a).analysis # "digest"
    /\ batch[a] = <<>>
    /\ \E raw \in SeqOf(Finds[a], 2) :
           /\ Contract(a).dedupes => IsInjective(raw)
           /\ batch' = [batch EXCEPT ![a] = Those(raw, {i \in Finds[a] : ~Known(a, i)})]
           /\ batch'[a] # <<>>
    /\ UNCHANGED <<memory, synth, clusters, pipes, verdicts>>

\* screen, analyse and persist: what is screened out, or fails, is not written, and of
\* an item found twice the last analysis stays.
Persist(a) ==
    /\ batch[a] # <<>>
    /\ \E kept \in SUBSET DOMAIN batch[a] :
       \E report \in [ToSet(batch[a]) -> UNION {Reports[i] : i \in Item}] :
           LET times(i) == Cardinality({n \in kept : batch[a][n] = i})
           IN  /\ \A i \in ToSet(batch[a]) : report[i] \in Reports[i]
               /\ memory' = [i \in Item |->
                      IF \E n \in kept : batch[a][n] = i
                      THEN Upserted(memory[i], times(i), Payload(a, i, report[i]))
                      ELSE memory[i]]
    /\ batch' = [batch EXCEPT ![a] = <<>>]
    /\ UNCHANGED <<synth, clusters, pipes, verdicts>>

\* CommunityAgent.execute: a digest of several threads, written unless it is there.
Digest(a) ==
    /\ Contract(a).analysis = "digest"
    /\ \E i \in Finds[a] : \E report \in Reports[i] :
           /\ Len(report.threads) >= 2
           /\ ~Stored(i)
           /\ memory' = [memory EXCEPT ![i] = Upserted(@, 1, Payload(a, i, report))]
    /\ UNCHANGED <<batch, synth, clusters, pipes, verdicts>>

-----------------------------------------------------------------------------
(* Synthesis *)

Idle == [pc |-> "idle", rows |-> <<>>, made |-> {}]

InACluster(i) == \E c \in DOMAIN clusters : i \in c

\* The rows _load_undigested asks for: in no cluster, or monitored and due.
Undigested(due) ==
    {i \in Item : /\ memory[i].life \in {"DISCOVERED", "SEEN", "MONITOR"}
                  /\ ~InACluster(i) \/ (memory[i].life = "MONITOR" /\ i \in due)}

\* _load_undigested
Load ==
    /\ synth.pc = "idle"
    /\ Cardinality(DOMAIN clusters) < MaxKnown
    /\ \E due \in SUBSET {i \in Item : memory[i].life = "MONITOR"} :
       \E loaded \in kSubset(Min({LoadLimit, Cardinality(Undigested(due))}), Undigested(due)) :
           /\ loaded # {}
           /\ synth' = [pc |-> "thinks", made |-> {},
                        rows |-> [i \in loaded |-> memory[i].payload]]
    /\ UNCHANGED <<memory, batch, clusters, pipes, verdicts>>

\* run of the skill and _persist: groups whose model call fails are left out.
Synthesise ==
    /\ synth.pc = "thinks"
    /\ \E order \in SetToSeqs(DOMAIN synth.rows) :
       \E first \in BOOLEAN : \E second \in {first, TRUE} :
       LET unique == Deduplicated(order, synth.rows, first)
           groups == Clustered(unique.kept, unique.rows, second)
       IN  \E taken \in Heaviest(groups, unique.rows) :
           \E made \in SUBSET taken :
           \E stated \in [made -> Stated] :
               /\ clusters' = Replaced(clusters, [c \in made |->
                                                  ClusterRow(unique.rows, c, stated[c])])
               /\ synth' = IF made = {} THEN Idle
                           ELSE [Idle EXCEPT !.pc = "announces", !.made = made]
    /\ UNCHANGED <<memory, batch, pipes, verdicts>>

Ended == {"REJECTED", "COMPLETED", "FAILED"}

\* The rest of job_synthesis: a pipeline for every cluster that has none under way.
Announce ==
    /\ synth.pc = "announces"
    /\ pipes' = Replaced(pipes, [c \in {c \in synth.made :
                                           c \notin DOMAIN pipes \/ pipes[c] \in Ended}
                                     |-> "SYNTHESIZED"])
    /\ synth' = Idle
    /\ UNCHANGED <<memory, batch, clusters, verdicts>>

-----------------------------------------------------------------------------
(* The verdict and the jobs around it *)

\* _verdict_pending
Queue(c) ==
    /\ c \in DOMAIN pipes /\ pipes[c] = "SYNTHESIZED"
    /\ pipes' = [pipes EXCEPT ![c] = "VERDICT_PENDING"]
    /\ UNCHANGED <<memory, batch, synth, clusters, verdicts>>

\* execute: below the floor nobody is asked, and the answer is checked again.
Decision(c, asked) ==
    IF PassesFloor(clusters[c].evidence, clusters[c].sources)
    THEN Enforced(asked, clusters[c].maturity)
    ELSE "MONITOR"

\* Mutant: the decision itself is written as lifecycle.
LifeAsDecided(decision) == decision

\* The lifecycle _persist gives to all members.
LifeAfter(decision) ==
    IF Changes(decision) THEN "INTEGRATED"
    ELSE IF decision = "MONITOR" THEN "MONITOR" ELSE "DISMISSED"

\* Where the driver's handler sends the pipeline; WRITING is all that follows.
StateAfter(decision) ==
    IF Changes(decision) THEN "WRITING"
    ELSE IF decision = "MONITOR" THEN "MONITORING" ELSE "REJECTED"

\* execute and _persist write verdict and lifecycles; the driver moves the pipeline,
\* unless the process dies before it does.
Judge(c) ==
    /\ c \in DOMAIN pipes /\ pipes[c] = "VERDICT_PENDING"
    /\ \E asked \in Asked :
           LET decision == Decision(c, asked)
           IN  /\ verdicts' = Replaced(verdicts, [d \in {c} |->
                                  [decision |-> decision, evidence |-> clusters[c].evidence]])
               /\ memory' = [i \in Item |-> IF i \in c /\ Stored(i)
                                            THEN [life |-> LifeAfter(decision), payload |-> memory[i].payload]
                                            ELSE memory[i]]
               /\ \/ pipes' = [pipes EXCEPT ![c] = StateAfter(decision)]
                  \/ Crashes /\ pipes' = pipes
    /\ UNCHANGED <<batch, synth, clusters>>

\* The agent gives up after its retries, and the pipeline fails.
JudgeFails(c) ==
    /\ c \in DOMAIN pipes /\ pipes[c] = "VERDICT_PENDING"
    /\ pipes' = [pipes EXCEPT ![c] = "FAILED"]
    /\ UNCHANGED <<memory, batch, synth, clusters, verdicts>>

\* The rest of the pipeline; FAILED stands for every end without a change.
Finish(c) ==
    /\ c \in DOMAIN pipes /\ pipes[c] = "WRITING"
    /\ \E end \in {"COMPLETED", "FAILED"} : pipes' = [pipes EXCEPT ![c] = end]
    /\ UNCHANGED <<memory, batch, synth, clusters, verdicts>>

\* job_monitor_sweep: a row nobody has seen for long is given up, and a parked pipeline
\* is judged again, each in a transaction of its own.
Expire(i) ==
    /\ memory[i].life = "MONITOR"
    /\ memory' = [memory EXCEPT ![i] = [life |-> "DISMISSED", payload |-> @.payload]]
    /\ UNCHANGED <<batch, synth, clusters, pipes, verdicts>>

Requeue(c) ==
    /\ c \in DOMAIN pipes /\ pipes[c] = "MONITORING"
    /\ pipes' = [pipes EXCEPT ![c] = "VERDICT_PENDING"]
    /\ UNCHANGED <<memory, batch, synth, clusters, verdicts>>

\* The process dies: what agents and synthesizer hold is lost.
Crash ==
    /\ Crashes
    /\ batch' = [a \in Agent |-> <<>>]
    /\ synth' = Idle
    /\ UNCHANGED <<memory, clusters, pipes, verdicts>>

Init ==
    /\ memory = [i \in Item |-> NoRow]
    /\ batch = [a \in Agent |-> <<>>]
    /\ synth = Idle
    /\ clusters = <<>> /\ pipes = <<>> /\ verdicts = <<>>

Next ==
    \/ \E a \in Agent : Discover(a) \/ Persist(a) \/ Digest(a)
    \/ Load \/ Synthesise \/ Announce
    \/ \E c \in DOMAIN pipes : Queue(c) \/ Judge(c) \/ JudgeFails(c) \/ Finish(c) \/ Requeue(c)
    \/ \E i \in Item : Expire(i)
    \/ Crash

Spec == Init /\ [][Next]_vars

-----------------------------------------------------------------------------
(* Properties *)

PipeStates == Ended \cup {"SYNTHESIZED", "VERDICT_PENDING", "MONITORING", "WRITING"}

\* Every row, batch, cluster, pipeline and verdict is one the code can have written.
TypeOK ==
    /\ \A i \in Item : memory[i] = NoRow \/ memory[i].life \in Lives
    /\ \A a \in Agent : ToSet(batch[a]) \subseteq Finds[a]
    /\ synth.pc \in {"idle", "thinks", "announces"}
    /\ synth.made \subseteq DOMAIN clusters
    /\ \A c \in DOMAIN clusters : /\ c \subseteq Item /\ c # {}
                                 /\ clusters[c].maturity \in Maturities
    /\ DOMAIN verdicts \subseteq DOMAIN pipes /\ DOMAIN pipes \subseteq DOMAIN clusters
    /\ \A c \in DOMAIN pipes : pipes[c] \in PipeStates
    /\ \A c \in DOMAIN verdicts : verdicts[c].decision \in Decisions

\* No piece of evidence, in memory or in a cluster, is of a kind the source of its item
\* cannot support, whatever an agent declares and a model reports (models.py:3-7).
EvidenceStaysInKind ==
    /\ \A i \in Item : Stored(i) => \A e \in memory[i].payload.evidence :
           e.kind \in SourceKinds(Origin[e.of])
    /\ \A c \in DOMAIN clusters : \A e \in clusters[c].evidence :
           e.kind \in SourceKinds(Origin[e.of])

Structural == {"ADD_NEW_SECTION", "REWRITE_SECTION", "REPLACE_OBSOLETE_CONTENT"}

\* A scientific piece, a second kind beside it, and three sources, as the code counts
\* them: the threads of one digest may be two (DigestsAreOneSource is refuted).
Earned(evidence) ==
    /\ Has(evidence, {"scientific"})
    /\ Has(evidence, {"independent_verification", "practical", "adoption"})
    /\ Cardinality(SourcesOf(evidence)) >= 3

\* A verdict that adds, rewrites or replaces a section rests on evidence that has earned
\* it, whatever either model answered (synthesis.py:316-318, verdict.py:186-190).
StructuralChangesAreEarned ==
    \A c \in DOMAIN verdicts :
        verdicts[c].decision \in Structural => Earned(verdicts[c].evidence)

\* Whatever the synthesizer has loaded, of one paper one item is left, and the evidence
\* of the others is with it (synthesis.py:502-506).
DuplicatesAreFolded ==
    synth.pc = "thinks" =>
        \A embedded \in BOOLEAN, order \in SetToSeqs(DOMAIN synth.rows) :
            LET unique == Deduplicated(order, synth.rows, embedded)
            IN  /\ \A i, j \in ToSet(unique.kept) :
                       SamePaper(synth.rows, i, j) => i = j
                /\ UNION {unique.rows[i].evidence : i \in ToSet(unique.kept)}
                   = UNION {synth.rows[i].evidence : i \in DOMAIN synth.rows}

\* The members of a group fit one another on average: no chain of neighbours becomes
\* one topic (synthesis.py:201-206).
GroupsHoldTogether ==
    synth.pc = "thinks" =>
        \A embedded \in BOOLEAN, order \in SetToSeqs(DOMAIN synth.rows) :
            LET unique == Deduplicated(order, synth.rows, embedded)
                groups == Clustered(unique.kept, unique.rows, embedded)
            IN  \A g \in groups : HoldsTogether(unique.rows, embedded, g)

\* A row that a verdict or the sweep has decided about is not undecided again when the
\* finding comes back, also not by an agent that looked it up before (kb.py:151-155).
DecidedStaysDecided ==
    [][\A i \in Item : memory[i].life \in {"MONITOR", "DISMISSED", "INTEGRATED"} =>
           memory'[i].life \in {"MONITOR", "DISMISSED", "INTEGRATED"}]_vars

-----------------------------------------------------------------------------
(* What does not hold *)

\* An author's claim is not a verified result: a paper whose claims are all its authors'
\* own is not counted as independently verified (discovery.py:227-228).
ClaimsAreNotVerification ==
    \A i \in Item : Stored(i) => \A e \in memory[i].payload.evidence :
        e.about = "author" => e.kind # "independent_verification"

\* The three sources of a structural change are those of three findings (models.py:273).
DigestsAreOneSource ==
    \A c \in DOMAIN verdicts :
        verdicts[c].decision \in Structural =>
            Cardinality({Origin[e.of] : e \in verdicts[c].evidence}) >= 3

\* Research is INTEGRATED only if it led to a change, or may still do (verdict.py:356).
IntegratedLedToAChange ==
    \A i \in Item : memory[i].life = "INTEGRATED" =>
        \E c \in DOMAIN pipes : i \in c /\ pipes[c] \notin {"REJECTED", "FAILED"}

\* A cluster in the table has had a pipeline, or job_synthesis is about to create it.
ClustersHavePipelines == DOMAIN clusters \subseteq DOMAIN pipes \cup synth.made

\* One paper is in the works once, by whichever route it came.
OnePaperAtATime ==
    \A c, d \in DOMAIN pipes :
        /\ c # d /\ pipes[c] = "WRITING" /\ pipes[d] = "WRITING"
        => \A i \in c, j \in d : i # j /\ (Identity[i] = "" \/ Identity[i] # Identity[j])

=============================================================================
