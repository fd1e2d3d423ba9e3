# Living Book: the verification project

TLA+ modules, TLC configurations and TLAPS proofs for the living-book system in
`src/livingbook`: a daemon that watches research sources, decides whether a book
should change, has agents draft and verify the change, and commits and announces it.

All paths below are relative to `src/`. `PROJECT.json` lists components, runs, mutants,
hazards and, for every definition, the lines it was translated from.

## 1. The system

| part | state it keeps | operations | works with |
|---|---|---|---|
| **state machine** `livingbook/state/machine.py` | the `pipelines` row: state, previous state, revisions, merged `state_data` | create, transition, fail, record_attempt, active, in_state | every job and command |
| **pipeline driver** `orchestrator/pipeline.py` | nothing of its own; reads and writes the row's data, the working tree | `step`: a handler per state; `run_to_completion` | calls the agents, hands results to the state machine |
| **orchestrator** `orchestrator/orchestrator.py` | lists of rows it has read | jobs (discovery, synthesis, verdict, pipeline tick, monitor sweep, kb reindex), `run_cycle`, operator commands (approve, reject, retry, resume) | driver, store |
| **scheduler** `orchestrator/scheduler.py` | table `scheduled_jobs`: next run, lock, owner; tasks in memory | due, tick, acquire, run, release, drain, reset | calls the jobs; other daemons through the table |
| **research memory** `agents/research`, `skills/research`, `research/models.py` | tables `research_items`, `evidence`, `clusters` | discover, screen, analyse, upsert; load, fold, cluster | job_discovery, job_synthesis, the verdict |
| **verdict** `agents/verdict` | table `verdicts`, lifecycle of items | floor, decision, enforcement, persist | driver |
| **citations** `agents/citation`, `skills/citation`, `knowledge/bib.py` | `references.bib`, gaps and candidates in the row | audit, find, verify, enter | four states of the driver; all pipelines share the file |
| **writer and verifiers** `agents/writer`, `agents/verification`, `skills/book`, `skills/verification`, `tools/book.py`, `tools/language.py`, `tools/filesystem.py` | the working tree, patches in the row | draft, verify, apply, QA, revert | driver |
| **figures** `orchestrator/visual_flow.py`, `agents/visual`, `skills/visual`, `tools/visual.py` | candidate and generated files, `manuscript/images`, table `figures`, `SOURCES.md` | search, verify, license, refine, draw, QA, place | one state of the driver; files shared by key |
| **knowledge base** `knowledge/` | nodes, summaries, concepts, embeddings, graph, fingerprint | parse, index, embed, impact, context | job_kb_reindex, `livingbook index`, the writer |
| **delivery agents** `agents/delivery`, `skills/publishing` | the chosen version number | GitAgent, GitPublishingSkill, EmailAgent, EmailReportingSkill | git tools, mail tool, table `versions` |
| **git tools** `tools/git_tools.py` | working tree, index, branches, HEAD | create_branch, git_commit, git_push | shared by all pipelines |
| **mail tool** `tools/email_tools.py` | table `emails_sent` | send_email | SMTP server |
| **LLM provider** `llm/gemini.py`, `keypool.py`, `errors.py`, `provider.py` | key states, cooldowns, limiter | acquire, reports, `_request`, `_call_with_chain` | every agent, many calls at once |
| **tool registry, HTTP tools, MCP server** | the last call per host | permission checks, requests with retries | every tool call |
| **store, artifacts** | SQLite, one connection per process | transactions, events | everyone |

What is hard here is not any one handler. It is that

* handlers, table and operators must agree on what comes next, and an exception from
  `transition` silently drops a handler's result (*protocol*);
* jobs hold copies of rows across long awaits, and run at the same time as each other and
  as operators; the writer, the indexer and the bibliography do the same with files
  (*interleaving, stale state*);
* a step touches the database, the working tree, git and a mail server, and may stop
  between any two (*atomicity, partial failure, crash*);
* an agent's failure is retried, skipped or gives up by policy, and what it had written
  stays (*partial failure, retry*);
* daemons share locks whose owners die and whose PIDs come back (*liveness, exclusion*);
* one working tree, one index, one bibliography and one directory of images serve all
  pipelines (*shared state*);
* every call walks three nested retry loops over keys that other calls cool and retire
  (*liveness, resource limits*).

`hazards` in `PROJECT.json` has them one by one, at the line where each bites.

What makes the parts correct:

* **state machine and driver**: only work that every gate certified and a verdict, or a
  person, sanctioned is committed; work refused is rewritten; rework is bounded; ticks move
  pipelines on.
* **orchestrator**: stored states change along the table; one pipeline in flight per
  cluster; no work beyond the revision limit; nobody starves.
* **scheduler**: one run of a job at a time; a live owner keeps its lock, also when locks
  of dead owners go stale beside it; no dead owner stops a job for good.
* **research and verdict**: evidence counts for no more than its source supports, however
  it travels; structural changes rest on evidence that has earned them; one paper is one
  item; what was decided is not decided again.
* **citations**: an entry of the bibliography passed the gates; a citation names the source
  that was accepted for it; keys are unique; what a retry finds is not entered again.
* **book and figures**: a draft that QA passed is in the tree and one it refused is not; no
  figure is in the book without the licence and checks it needs.
* **knowledge base**: when the job finds nothing to do, the index is that of the book.
* **delivery**: what QA has not passed is on no branch but through a file shared with what
  it has; version rows are not lost and tell the truth;
  nobody is mailed twice without cause.
* **provider**: working keys are tried before a call is given up; calls come back.

## 2. Modules

```
StateMachine ─┬ PipelineDriver ── PipelineDriverProofs        Scheduler ── SchedulerProofs
              │       └ INSTANCE Publication                  KeyPool ── GeminiProvider ┐
              ├ Orchestrator ── OrchestratorProofs                           Knowledge ┴ ServiceProofs
              ├ Citation ── CitationProofs
              └ Book ── BookProofs                            Repository ┐
     Figures ───┘                                             Mail ──────┴ Delivery ── DeliveryProofs

Evidence ── Synthesis ── Research ── ResearchProofs
```

Each that is run has an `MC…` module with the model values and functions its `.cfg` files use.

**StateMachine** has no variables: the transition table, the backward edges and the
arithmetic of `transition` (`Landing`: where a move ends up, given the revision limit;
`RevisionsAfter`). The modules that own a row, or a table of rows, apply it.

**PipelineDriver** is one pipeline: its row, what handlers read back from `state_data`
(verdict, draft, findings of each gate, gaps), the step in progress, and what is outside the
database (working tree, commits, mail). One action per outcome of each handler:
`TechnicalPass` / `TechnicalBlockers`, `CitationAudit(found)`, and so on. `Submits` is
`transition` outside any `try`: an edge that is not in the table leaves row and data as
they were. Handlers with side effects take two actions (`ApplyPatches` then `QaPass`,
`QaFail` or `QaAgentFails`; `GitCommit` then `PublishDone` or `PublishInterrupted`;
`SendMail` then `MailDone`), and `Crash` may come between. Operators act between steps.
`passed`, `rejected` and `approved` are history: they record which gates judged the draft
in hand and serve the properties only. The tree is a set of layers, the draft and left-over
text, because the Writer's patches are strict diffs (`tools/filesystem.py:215-267`): one
applied to a tree that has it already fails, or, when it appends at the end of a file, is
applied twice. That a verdict is stored stands for "verdict and cluster" (`pipeline.py:165`,
`213`): only a handler that has loaded the cluster stores one, and rows of `clusters` are
written over but never deleted (`tools/kb.py:195-204`).

**Publication** is the abstract promise: sanction, certificates of four ordered gates, ship.
PipelineDriver implements it with `sanctioned <- Sanctioned`, `certified <- passed`,
`shipped <- commits # {}`.

**Orchestrator** is the table of all rows with the jobs that step through it. `todo[w]` is
the list a job read, copies included; `Finishes` writes from the copy as `transition` does,
`Fails` reads again as `fail` does, `Raises` ends the pass as an `IllegalTransition` does. A
handler is reduced to `Results(s)`, the states it may submit. `order` is `updated_at`, which
decides who gets into a list of `Limit` rows.

**Scheduler** is the `scheduled_jobs` table and the tasks of several daemons. `Tick` (due),
`Acquire`, `FindsDeadOwner` / `Reclaim`, `Release` and `Exit` are its transactions: a
reclaim is two, because the log line between SELECT and UPDATE goes through
`Store.record_event`, which commits the connection. Clocks are two facts about a row: due,
and older than the stale window (`LongJobs` lets the lock of a running job age, `LongOutages`
that of a dead owner). `PidReturns` says whether the host may give out a dead owner's PID
while somebody is between the two transactions of reclaiming its lock.

**KeyPool, GeminiProvider**: the pool's operations are atomic (an asyncio lock), so
operators; the provider's calls interleave at `acquire`, the limiter and the answer.
`Fails`, `Repeats`, `Advances` and `TriesNextKey` are the except clauses of the three loops.
Cooldowns are an order of recovery in two parts, within and beyond acquire's grace. A pool
starts with the keys an earlier process retired (`_load_stats`); those it retires are among
the ones the API rejects.

**Repository, Mail, Delivery** are several pipelines between VISUAL and COMPLETED over one
repository, one table of versions and one mail account. Repository is git as the tools use
it: `git checkout` carries along a file that is the same on both branches or staged as on
the other, and refuses to overwrite one that differs; `git commit` takes the whole index
(git itself is outside `src/`, so `Stays` and `RepositoryInit` are marked external). Mail is
one session per attempt, recipient by recipient, with rows written after it. Delivery is
the handlers, the agents with their failure policies and the operator's ways back. A
pipeline writes first, from CITATION_FIND on, to files that are not only its own
(`Prepares`): the bibliography, and its figures. What it stages is `Carries(p)`, as
`changed_paths` is: the draft's file, its figures, and `references.bib` if it has citations
at all, entries added or reused. CITATION_VERIFY to VISUAL is the one action `Prepared`, and
BOOK_QA, whose handler only moves on, is merged into `QaPass`; what build, push and pull
request do is only whether they fail.

**Evidence, Synthesis, Research** are the memory of findings. Evidence has the kinds a
source can support and how every analysis clamps to them (a digest's pieces each have the
source of their thread, 12 threads and 3 of them for its pains), the maturity of a set of
evidence, and the verdict's floor and allowed decisions. Synthesis folds duplicates and
clusters by similarity, in the code's greedy order (`Deduplicated`, `Clustered`). Research
has the tables: `Discover` / `Persist` of each agent by its contract, `Load` /
`Synthesise` / `Announce`, `Judge`, the sweep, and a crash between any two of them. What a
model reports of an item is any member of `Reports`; a cluster is the set of its members,
as its id is their hash.

**Citation** is the four citation states of several pipelines over one `references.bib`.
`Audit`, `Find` and `Verify` are the agents; then the bibliography agent takes the accepted
ones in turn: `Reuse` an entry, `Ask` the registries and `Enter` (with what the file held
when it was read), `Refuse`, or break off and be repeated. `Conclude` joins the answers to the
gaps as the driver does. Works are known to the model only: the code sees DOI, arXiv id and
title. The file is the one of the working tree these handlers see: that a publication in
between checks out a branch made from `main` (`git_tools.py:141`), with the bibliography of
that branch, is in Repository and Delivery and not here.

**Figures** is `run_visual_pipeline` of each pipeline: search, licence and verification of
the candidates, refinement rounds, drawing, figure QA, placing in `images/`, the table and
`SOURCES.md`. Each step opens the file of its candidate again, so files are state, with the
image that is in them now. **Book** adds the rest of a draft's way: the writer's hunks with
their context, the verifiers with what they block on, cut or skip, and QA that applies,
checks and reverts, for several pipelines in one working tree.

**Knowledge** is the index and whoever writes it: the job and the command line, at once or
one after the other, while the text changes. The job reads the files twice: `TakesPrint` for
the fingerprint (`orchestrator.py:179`), `Begin` to parse them and store the structure (186),
and the text may change in between. Rows of sections that are gone take their summaries
along. `Summarise` / `GiveUp` are the concurrent model calls, one for each section, also when
two have one id and so one row; `Conclude` embeds, builds the graph and stores the
fingerprint; `Stop` is a failure or a kill.

## 3. Runs

| run | question | answer |
|---|---|---|
| `driver` | one pipeline, all commands, one crash | all seven properties hold |
| `driver_approved` | does a published change go on? | **no**, `ApprovedGoesOn` refuted |
| `orch_alone` | one worker, operators between its passes | one pipeline per cluster, rows follow the table |
| `orch_together` | verdict and tick jobs at once | budget kept, nobody starves |
| `sched_safety` | two daemon identities, crashes, restarts, locks that outlive the window | exclusion, live locks hold |
| `sched_liveness` | the same, with long jobs, PIDs that return at any time, resets | every job keeps running |
| `provider` | two calls, one pool, dead keys | good keys have their turn, calls end |
| `delivery` | two pipelines, chapters of their own, one bibliography | nothing unjudged leaves but with the bibliography, rows and mails tell the truth |
| `research` | four agents, synthesizer and verdict, crashes | kinds stay, changes are earned, folding and grouping are sound in every order, decisions stay |
| `citation` | two drafts, one bibliography, retries, a crash | entries are vetted, citations name their sources; without overlap keys stay apart and nothing is entered twice, with it no more entries share a key than there are pipelines |
| `book` | two drafts and figures in one tree, a crash, checks that cannot run | QA's answer and the tree agree, figures are cleared |
| `knowledge` | job and command line, edits, failures | an unchanged book is one that is indexed, once the job has ended alone with both its reads of one text |

**Bounds, and why they are enough.**
`driver`: `MaxRevisions = 1` with `RevisionCap = 2` reaches the limit, passes it and retries
from beyond it, with and without reset; one crash falls at every two-action handler;
`FromStates` holds a state without a handler and the two past APPROVED. Naming states between
the gates is the operator's way around them, and left out (see KeepsGates below).
`orch_together`: two pipelines with `Limit = 1`, the smallest table that can starve somebody;
`MaxRevisions = 0` makes every rework reach the limit. `orch_alone`: two pipelines of one
cluster are what the property is about.
`sched_safety`: `MaxExits = 4` lets each identity die twice, and a job be reclaimed after a
reclaim; locks of dead owners go stale (`LongOutages`), jobs are shorter than the window, and
no PID comes back in the middle of a reclaim: a third identity, longer jobs, or such a PID
beside a stale lock break exclusion (section 4). `sched_liveness` allows all of it and needs
`MaxLive = 1`: a daemon and the one that replaces it, under its own or another PID.
`provider`: two keys, of which one or both are dead, two calls, every loop of length two:
each loop is repeated, exhausted and left in the middle, and the limiter (one) is contended.
`delivery`: two versions let numbers collide, two recipients let a session serve some, one
crash and one broken session fall at every point. Both pipelines have citations, so both
stage the bibliography, and one of them adds an entry to it: that is enough for its entry to
leave with the other's commit (section 4 has the case in which both add). Rows, branches and
index outlive the handlers, so what one pipeline leaves meets every step of the other.
`research`: a paper that two sources have, a repository and a digest of threads of two sites;
neighbours by similarity form a chain whose ends do not belong together, so that both the cut
of a group and the fold of a duplicate depend on the order. `MaxKnown = 2` lets a second
cycle meet what the first one grouped, judged or lost; the floor (`MinScientific`,
`MinSources`) is met and missed.
`citation`: two works with the title, author and year that make one key, and a work listed
twice, as preprint and article; for each gate of the verifier an answer that only that gate
stops, one of them laundered by the field no gate reads; registries that give an arXiv record
a DOI of its own; two tries, two attempts and a crash. The overlapping case has one claim per
draft: two handlers on the file are what matters.
`book`: drafts one after the other on one chapter, for one figure, or with a flaw, and at
once on chapters and for figures of their own, one found and one drawn. `MaxTargets` and
`MaxFindings` are exceeded, `MaxCandidates` and `MaxRounds` reached. `Context = 1` line
anchors a hunk in a chapter of one or two lines.
`knowledge`: three texts: one in which a section is cut below `MinWords` and the next moves,
one in which a section goes and another has the label of the first, so that two have one id;
two edits, among them the way back, at any point and so also between the two reads; one
failure of either kind.

**Deadlock** is not checked where the system may rest: a pipeline at its end with the
operator's bound reached (`driver`, `driver_approved`, `delivery`), a scheduler whose
daemons have used up `MaxExits` (`sched_safety`), and a memory, draft, bibliography or text
for which all that is bounded has happened (`research`, `citation`, `book`, `knowledge`).

**Fairness.** `driver`: weak fairness of the driver (the tick comes every 15 minutes while
the daemon runs, `config/config.yaml:222`) and of the weekly sweep; none of operators, agents'
choices or crashes. `orch_together`: of each job and the sweep; handlers end because their
calls have timeouts. `sched_liveness`: daemons are restarted, poll, and their tasks proceed;
time passes. `provider`: time passes; strong fairness of each call, since the semaphore
serves waiters in turn and a call that waits for a key is woken while others take it again.
`ReworkEnds` needs no fairness, and `CallsEnd` rests on the count of each loop: its mutant
drops one. The other runs state safety only: their loops are bounded by construction, and
what follows them is in `driver`.

**Mutants.** Every property of a passing run has one: a plausible slip in a mapped
definition, such as dropping the re-draft on unsupported claims, staging with `git add -A`,
counting only the pipeline's own versions, storing the fingerprint of the text as it is
when the index ends, keeping only the concepts of a duplicate. Each is caught by the very
property.

## 4. What does not hold

One run shows where the code differs from what its own texts say:
**a published change stays in APPROVED** (`driver_approved`). `_git_publish` submits EMAIL
or COMPLETED (`pipeline.py:440`); TRANSITIONS[APPROVED] has GIT_PUBLISH only. The commit is
made, the result dropped, and every tick publishes again. `pipeline.py:69`: "Advance one
pipeline by exactly one state."

The modules state further expectations that TLC refutes. They are definitions at the end of
each module, or properties that need the constants named here, without a run of their own:
each is seen by naming it in the run's `.cfg`.

| definition | the text | what happens |
|---|---|---|
| `AuditGoesOn` | `pipeline.py:263` "Nothing needs a source, so the finding and verifying states have no work." | EDITORIAL_VERIFY is no edge of TECHNICAL_VERIFY: the draft that needs nothing stays |
| `DefectsEscalate` | `machine.py:8-9` "exceeding it escalates to NEEDS_HUMAN instead of looping forever" | DRAFTED to DRAFTED is no edge (`pipeline.py:238`): findings and revision are dropped, for ever |
| `QaGoesOn` | `tests/test_state_machine.py:98` "a patch that cannot pass QA must reach a person" | VISUAL to DRAFTED is no edge (`pipeline.py:398`) |
| `EditorialRefusalsAreRewritten` | `tests/test_redraft_feedback.py:1` "Sending a draft back must actually tell the Writer something." | `editorial_findings` (`pipeline.py:351`) are never read |
| `QaFailureReverts`, `OnlyTheDraftShips` | `pipeline.py:381-382` | a failure or crash leaves the draft in the tree; the next application adds it again, QA passes and it ships twice |
| `MailFollowsCommit` | `agents/delivery/agents.py:7-9`: the mail is only reachable through APPROVED | `stuck --retry --from GIT_PUBLISH` mails without a commit |
| `RowsFollowTable` with two jobs: `orch_together.cfg` with `PROPERTIES RowsFollowTable` | `machine.py:3-4` "An illegal transition raises rather than silently corrupting a pipeline" | `transition` trusts the caller's copy (`machine.py:229`), so a row is moved along no edge |
| `EndsAreFinal` | `tests/test_state_machine.py:64` `test_terminal_states_are_terminal` | a job with an older copy writes over a rejection |
| `SiblingsAreStepped` | `ARCHITECTURE.md:626` "one pipeline failing never touches its siblings" | an IllegalTransition leaves the loop; the rest of the list waits for the next pass |
| `OnePipelinePerCluster` with `Revives = TRUE` | `orchestrator.py:78` "One pipeline per cluster, and only one" | a FAILED pipeline is revived beside its successor |
| `MutualExclusion` with three identities: `sched_safety.cfg` with `Process = {p1, p2, p3}` | `scheduler.py:4-5` "two processes cannot run the same job at once" | the log line in `_acquire` commits (`scheduler.py:158`): two daemons reclaim one lock |
| `MutualExclusion`, `LiveLocksHold` with `PidReturns = TRUE`: `sched_safety.cfg` with it | `scheduler.py:4-5` | a stale lock of a dead owner; one daemon finds it dead, the owner's PID is given to a new daemon, which takes the stale lock and runs; the first one's UPDATE (`scheduler.py:162`) takes it again |
| `MutualExclusion`, `LiveLocksHold` with `LongJobs = TRUE` | `scheduler.py:25` "On this host we check the PID directly, which is exact." | the window is applied on this host as well |
| `RunsOnlyWhenDue` | `ARCHITECTURE.md:641` "guarded by `last_run_at` + a per-job lock" | `_acquire` does not look at the time again |
| `MailsOnce` | `publish.py:304-305` "a retried delivery step cannot produce a duplicate email", `email_tools.py:7` "a retry never double-sends" | nothing is noted of a session that breaks off |
| `NothingUnjudgedShips` | `pipeline.py:381-382` "A failure here reverts them." | `references.bib` is staged whole by every pipeline with citations (`pipeline.py:420-425`): entries of one that is not yet in QA, or is refused there later, go with the commit of another. Chapters leak the same way when two drafts are for one (`Target <- OneChapter`), since a QA agent that raises leaves its patches (`pipeline.py:384`) |
| `BranchesCanBeTaken` with `Written <- BothCite` | `git_tools.py:126` "Create and check out a branch for an agent change." | an entry that is not committed, in a file that differs on the branch to be checked out, stops the checkout |
| `BranchesAreOwn`, `DraftsArePublished` | `git_tools.py:155` "Stage paths and create a commit": each commit is of its own paths | what one pipeline staged and could not commit goes with the next commit, and its own branch then lacks it |
| `CommitsHaveRows` | `agents/delivery/agents.py:3-5`: a half-published change is worse than an unpublished one | a crash between commit and row |
| `RowsNameCommits`, `VersionsAreKept` with `Concurrent = TRUE` | | a cycle run by hand beside the daemon: one checks out its branch under the other, and both count the same rows |

Of **research**, with `research.cfg`:

| definition | the text | what happens |
|---|---|---|
| `ClaimsAreNotVerification` | `discovery.py:227` "An author's own claim is not a verified result" | the kinds of a source without `author_claim` clamp it to the next one up, independent verification (`models.py:167`) |
| `IntegratedLedToAChange` | `verdict.py:356` "Research that led to a change is INTEGRATED" | it is written with the verdict, and the pipeline may be rejected or fail |
| `ClustersHavePipelines` | `orchestrator.py:78` | a crash between the cluster rows and the pipelines: the items are in a cluster, so they are not loaded again |
| `DigestsAreOneSource` | `models.py:273` "Distinct sources, so ten arXiv papers do not count as ten channels." | each piece of a digest has the source of its thread (`discovery.py:404-424`): one digest is two of the three sources a structural change needs |
| `OnePaperAtATime` | `orchestrator.py:78-79` "would duplicate the work and the email" | a duplicate folded away is in no cluster and forms its own in the next cycle (`synthesis.py:137`); a grown cluster is a new one (`synthesis.py:282`) |

Of **citations**, with `citation.cfg`:

| definition | the text | what happens |
|---|---|---|
| `NothingLaunderedEnters` | `audit.py:72-73` `supports_claim` has the value "laundered" | no gate (`audit.py:410-424`) looks for it: with `laundering_detected` false and `verdict` accept it passes |
| `KeysAreUnique` | `bib.py`, `suggest_key` | with overlap both pipelines read the file before either appends |
| `ClaimsAreSourced` | `pipeline.py:304` "An unsupported claim is a defect" | an accepted source whose entry is refused passes, since only rejections are looked at (`pipeline.py:306`) |
| `OneEntryPerWork` | `bibtex.py:184` `_find_existing` "Reuse rather than duplicate" | a preprint and its article share neither DOI, arXiv id nor title |
| `StrictClaimsAreQuoted` | the quotation gate of `audit.py` | a gap only the writer declared has the default type |
| `ReasonsAreTheirOwn` | `pipeline.py:308-312` | the first verification's note is the reason for every claim |

Of **book and figures**, with `book.cfg`:

| definition | the text | what happens |
|---|---|---|
| `ForeignWordsNeverShip` | `language.py:9` "a check that cannot miss" | findings are cut at 30, and QA looks at `patches[0]` (`pipeline.py:386`) |
| `PlaceholdersNeverShip` | `tests/test_manuscript_integrity.py:92` "it must never ship" | a check that raises is `{"ok": True, "skipped": True}` (`verifiers.py:231`) |
| `AddedOnce`, `OnlyJudgedDraftsStay` | `pipeline.py:381-382` | a crash in QA, or its agent's failure, leaves the draft; the retry adds it again |
| `LedgersAreComplete` | `book.py:342` the licence ledger | a failure between the file, the table and `SOURCES.md` |
| `SourcesNameTheImage` | the same | a key that is recorded is not recorded again when its image is replaced (`agents/visual/agents.py:288`) |

What the properties of `book` leave out: drafts that overlap are of distinct chapters and
keys. With one key for both `FiguresAreCleared` fails, since candidate files are named by
key and place; with one chapter `PassedDraftsHold` and `RejectedDraftsLeaveNoTrace` fail,
since `_revert` writes back whole files; and two patches of one chapter in one draft leave
the first in the tree, since `_revert` goes in the order of application
(`pipeline.py:532`). A verdict with such targets is not in `MCCases`.

Of the **knowledge base**, with `knowledge.cfg`:

| definition | the text | what happens |
|---|---|---|
| `UnchangedMeansIndexed` | `orchestrator.py:177` "Re-index if the manuscript changed." | `livingbook index` stores no fingerprint; an indexer that reads a draft in QA and fails leaves the rows of that draft, and when QA takes it out the fingerprint is the stored one again; and with the job alone and no failure (`Indexer = {"job"}`, `MaxFailures = 0`), a draft that comes after its fingerprint and goes again is what it has parsed |
| `EverySectionIsSummarised` | `indexer.py:275` "Summarise nodes, extract concepts and claims, and embed everything." | the fingerprint is stored although summaries failed, or two sections have one id and so one row |
| `SummariesAreOfThePresentText` | the same | a section cut below `MIN_WORDS_FOR_SUMMARY` keeps its old one |
| `EmbeddingsFollowSummaries` | the same | a node that has an embedding never gets another (`indexer.py:474`) |
| `ImpactIsComplete` | `graph.py:78-109` | after a failed embedding the next run has no targets and returns before the graph is built |
| `ContextHoldsWhatWasAsked` | `retrieval.py:237` "Ancestors are included as a heading line only" | true of parts and chapters; an ancestor that is a section comes in full, and before the target |
| `SectionsAreShownAsTheyAre` | `retrieval.py:300` | line numbers of the last index are read from the present file |

Smaller observations. `InvalidKey` falls to the last except clause of
`_call_with_chain` (`gemini.py:251`) and earns another sweep, against `gemini.py:216-218`.
The mail's version is always "unversioned", since the data that would carry it is dropped
with APPROVED's result; so one dedupe key serves all of a pipeline's mails, which the ASSUME
of Delivery (`Key = Pipeline`) records. The licence
`cc0` is normalised to `cc-0` and so never matches the exemption from attribution
(`engine.py:211`). One unresolved figure anywhere in the book fails every draft's QA, since
`check_figures` is of the whole book (`tools/book.py:352`) and the visual flow leaves
placeholders (`visual_flow.py:55`).

## 5. Proofs

`tlapm` proves, for every value of the constants (revision limits, numbers of crashes,
pipelines, files, branches, jobs and processes; sources, findings, similarities and
reports; claims, bibliographies and answers; drafts, chapters, keys and images; calls, API
keys and loop bounds; texts and indexers):

| theorem | says | assumes |
|---|---|---|
| `PipelineDriverProofs!TypeCorrect` | `[]TypeOK` | |
| `VerifiedShipping` | `[]OnlyVerifiedShips` | KeepsGates |
| `SanctionedShipping` | `[]OnlySanctionedShips` | KeepsDecision |
| `RefusalsRewritten` | `CitationRefusalsAreRewritten` | KeepsDecision |
| `DriverImplementsPublication` | the refinement | KeepsDecision |
| `OrchestratorProofs!TypeCorrect` | `[]TypeOK` | |
| `BudgetKept` | `[]WorkIsWithinBudget` | Operators = "never" |
| `OneInFlight` | `[]OnePipelinePerCluster` | Alone |
| `TableKept` | `RowsFollowTable` | Alone |
| `SchedulerProofs!TypeCorrect` | `[]TypeOK` | |
| `ExclusiveAcrossHosts` | `[]MutualExclusion`, any number of hosts | OnePerHost |
| `ExclusiveForTwo` | `[]MutualExclusion`, two identities, also with locks older than the window | TwoOfThem |
| `LiveLocksAcrossHosts` | `LiveLocksHold`, any number of hosts | OnePerHost |
| `LiveLocksForTwo` | `LiveLocksHold`, two identities | TwoOfThem |
| `DeliveryProofs!TypeCorrect` | `[]TypeOK` | |
| `NumbersAreFresh` | `VersionsAreKept` | OneHandler |
| `RowsTellTheTruth` | `[]RowsNameCommits` | OneHandler |
| `RepeatsAreExplained` | `[]RepeatsNeedABreak` | |
| `OnlySharedLeak` | `[]OnlySharedFilesLeak`, any number of handlers | |
| `ResearchProofs!TypeCorrect` | `[]TypeOK` | |
| `EvidenceIsSafe` | `[]EvidenceStaysInKind` | |
| `StructuralIsSafe` | `[]StructuralChangesAreEarned` | |
| `DecisionsAreKept` | `DecidedStaysDecided` | |
| `DuplicatesFolded` | `[]DuplicatesAreFolded`, in every order of the rows | |
| `GroupsHold` | `[]GroupsHoldTogether`, in every order of the rows | |
| `CitationProofs!TypeCorrect` | `[]TypeOK` | |
| `EntriesAreVetted` | `[]VettedEntries` | |
| `KeysDiffer` | `[]KeysStayApart`, with and without overlap | AuthorKeepsKeysApart |
| `EnteredOnce` | `[]SourcesAreEnteredOnce` | SourcesAreTruthful, IdentifiersResolve, AuthorKeepsKeysApart |
| `CitationsHold` | `[]CitationsNameTheirSources` | SourcesAreTruthful, AuthorKeepsKeysApart |
| `BookProofs!TypeCorrect` | `[]TypeOK` | |
| `PlacedFiguresAreCleared` | `[]FiguresAreCleared` | KeysAreApart |
| `NoTraceOfTheRejected` | `[]RejectedDraftsLeaveNoTrace` | ChaptersAreApart |
| `PassedDraftsAreKept` | `[]PassedDraftsHold` | ChaptersAreApart |
| `ServiceProofs!ProviderTypeCorrect` | `[]TypeOK` of GeminiProvider | |
| `GoodKeysAreTried` | `[]GoodKeysHaveTheirTurn` | RejectedAreFew |
| `IndexIsSound` | `[]KnowledgeIsCurrent` | |

The assumptions are hypotheses of the theorems, not of the modules:

* *KeepsGates*, operators name no state past technical verification; *KeepsDecision*, they
  name only states before the verdict's answer or past APPROVED.
* *Alone* (of the Orchestrator), one job at a time, operators between its passes, nothing
  failed revived.
* *OnePerHost*, one daemon per machine; *TwoOfThem*, two process identities, and a PID that
  does not come back within a reclaim or no lock that outlives the window. Both: jobs
  shorter than the window, no reset. How long dead daemons stay dead is not assumed by the
  first, nor by the second if PIDs do not return that soon.
* *OneHandler*, one handler at a time.
* *AuthorKeepsKeysApart*, the bibliography starts with keys that differ;
  *SourcesAreTruthful(meaning)*, a DOI, an arXiv id or a title that is not generic names one
  work, and what searches, registries and the author say of a source is of its work;
  *IdentifiersResolve(meaning)*, what a registry returns for a DOI or an arXiv id has it.
* *ChaptersAreApart*, a draft edits a chapter once, and drafts that may be in QA at once
  share none; *KeysAreApart*, drafts that may be illustrated at once share no figure.
* *RejectedAreFew*, the keys the API rejects are fewer than the requests of one call
  (`Attempts`, the product of its loops), unless they are all there are.

Each is needed: without it TLC has the counterexample (section 4, an operator who names a
gated state, for *IdentifiersResolve* a registry that answers with another DOI, or for
*RejectedAreFew* loops of length one and one dead key of two). The run of Citation, of Book
and of the provider assumes (`ASSUME` in its MC module) that its values satisfy them, so TLC
evaluates them. *RejectedAreFew* is a limit of the code to know of: with the loops as
configured a call makes 72 requests or more (3 sweeps, 2 or 3 models, 4 attempts, 3 keys),
and `README.md:260` speaks of 254 keys. Should 72 or more be revoked at once, a call may fail
on them alone while good ones were not tried; it retires one with each of its requests, so a
few calls later the dead ones are gone.

What the modules themselves assume of constants (`ResearchAssumption`, `BookAssumption`,
`ProviderAssumption`, ...) is shape: thresholds and similarities are integers, the concepts
of a report are finite, keys are finitely many, texts are sequences.

**Driver.** `OnlyVerifiedShips` speaks of commits only, and nothing in it says why the draft
about to be committed is certified. The invariant adds that: `Gated`, the certificates each
state requires, for `state` *and* for `previous`, because retry and resume go there;
`StepPlace`, which handler may be half-way in which state and that the applied tree holds
the draft; `Authorised`, the states in which the book is being written under a verdict that
allows it; `Remembered`, that a refusal of the citation gate is stored until its draft is
replaced. Each has one step lemma, by cases on the actions. The refinement uses the
conjunction: every step is a step of Publication or leaves its variables alone.

**Orchestrator.** `Base` adds to the types that `updated_at` orders every pipeline once and
that what a job has listed was active when it was read. `Budget`: the copies in every list,
however old, are within the limit as the rows are, because a list is read from active rows
and a written copy over the limit is parked; so the interleaving does not matter. `Fresh`
(alone): the copies a job still holds are the rows of the table, each once; from it every
write starts from the stored state, which gives `RowsFollowTable`, and never from a state
that is over, which keeps `OlderAreOver`: of a cluster's pipelines all but the last are
over. The queries filter a sequence (`Among`, a recursive function): what it returns is
proved by taking the least length at which it would be wrong (`SmallestOf`, `AmongIs`).

**Scheduler.** `Owned`: whoever runs a job lives and holds a lock that is not stale. It
gives exclusion and `LiveLocksHold` at once (who lives and runs has the lock, and no step
of another takes it: `LockStep`), and is inductive if nobody reclaims (`Unreclaimed`: on one
daemon per host no owner looks dead) or if at most one process can (`Reclaimed`: with two
identities the owner found dead is the other one, and nobody runs the job: it cannot have
come back and taken the lock, either since `CanStart` keeps its PID from returning so soon,
or since the lock would have to be stale).

**Delivery.** `Numbered`: the numbers given are 1 to n, and a handler that chose one has
n + 1 until it ends; that is why counting rows before the commit, and storing after it, is
right with one handler. `OnBranch`: from checkout to commit HEAD is the pipeline's branch,
from commit to row the commit named is there. `Alone`: one handler. The rest holds with any
number of handlers. `Typed`: a stuck row remembers where it was, and HEAD has left main
before anything is staged. `Counted`: what a recipient has got is at most the sessions that broke
off, plus one if rows are noted or a session has just served him. `Judicious`: a text of a
file holds work of pipelines that carry it (`For`), and one that git has seen, in the index
or on a branch, holds none before one of these has been judged (`MayShip`). `JudgedFirst`:
who publishes, or may go back to it by a retry, is judged; so what is staged is a file that
a judged pipeline carries. The bibliography is in there with everybody's entries, which is
why the property speaks of files that are shared, and needs no assumption that none is.

**Research.** A piece of evidence passes from an agent's answer to a row, a loaded row, a
folded row, a cluster and a verdict, and nothing at the verdict says where it came from. The
invariant follows it: rows (`RowsAreGood`), what the synthesizer has loaded
(`LoadedIsGood`) and clusters (`ClustersAreGood`) hold only good pieces, of an item, of a
kind its source supports, from known sources; and a cluster whose maturity opens structural
changes has earned it. The lemmas say that clamping yields a supported kind whatever is
stated, that the weakest of some kinds is one of them, that folding neither invents nor
alters evidence, and that maturity is capped by what the evidence computes to.

`DuplicatesFolded` and `GroupsHold` are about the greedy passes over the rows
(`_deduplicate`, `_cluster`), which are folds. No prover takes the fold's operator as an
argument, so each fold is first shown to be a sequence of steps (`ThoseSteps` to
`GroupSteps`, by the least length at which it would not be one), and the property is carried
along the steps. Folding: of one paper one row is kept, and the ones folded into it leave all
their evidence there; the order of the rows decides which is kept, not that. Grouping: an
item joins a group only if its similarities to the members reach the threshold on average,
so the sum over pairs of a group grows by at least the threshold for each new pair
(`GroupsHoldTogether` is about that sum).

**Citation.** What an entry was accepted on is decided long before it is appended, by a
handler that may break off and be repeated. `TasksOK` carries the gates along: all that a
handler still has to enter is vetted. `Keyed` is the part
that needs handlers apart: one task at most, whose view of the file is the file, so the key
it picks is new. `Worked` follows the work: every candidate, accepted source, settled answer
and entry is of the work its identifiers name, so what `_find_existing` finds is an entry of
the very work (`FoundIsOfItsWork`); it is inductive with overlap too, and only the last step,
from a key to the one entry that has it, needs `Keyed`.

With overlap keys are not unique, and `KeysDiffer` counts (`Crowds`): the entries that have a
key are at most as many as pipelines, less those whose handler waits for the registries with
a view of the file that lacks it (`Holding`, `Lacking`). A key is appended only by one of
these, who then waits no longer, and whoever reads the file sees it there, so the sum never
grows beyond the pipelines. `EnteredOnce` rests on `Once`: an entry has the DOI or the arXiv
id of the candidate it was made of, whatever the registry left out (`EntriesAreNamed`), and
of a candidate that a handler asks about the file has no entry (`AskedIsNew`), since
`_find_existing` would have found it by that identifier.

**Book.** Three invariants. `Typed` is that of rows, tasks and jobs; it needs that a job's
list of requirements is not empty while it is at one, and `RowTyped`, that revisions stay
within the limit except for a row that has been parked.

`Inv`, for figures. The licence is checked on what the search said of an image, the verifier
and QA each open a file, the asset manager copies it, all by its path. `JobStands` says, at
each step, what that file still holds. It is inductive because candidates of one search have
files of their own, because a job writes only to files of keys its draft asks for
(`NeededAreAsked`, from the edits of the verdict through the patches to the job), and because
jobs that are under way at once have no key in common (`JobsShareTime`). `FirstCandidate`
gives the first of several candidates, for any `MaxCandidates`.

`TreeInv`, for text. `Shaped`: what a patch adds is a line of its own draft, what `_revert`
would write back is a text. `Traced`: a line of the tree is settled (the author's, or of a
draft that passed or was left behind) or of a draft in QA; what a QA in progress would write
back holds settled lines only, and all that passed drafts added to it or a later draft
replaced; and the draft in QA is there. The second is what makes it inductive: a revert
writes whole files, as they were when the draft went in, so nobody else may have been
settled in those files since, which is where *ChaptersAreApart* comes in. `Trees` and
`Applied` are recursive; patches of distinct chapters give them a closed form (`After`), and
that is proved to be what they compute (`TreesOf`).

**Knowledge.** `AtWork`: while the job is at work, has been alone and has read one text twice,
the rows are those of that text, and every section is summarised (by the summary of one of
those with its id), given up or still to do. `AtRest`: once it has ended, the same of the
text whose fingerprint is stored. `Torn`: whoever came between, and an edit between the two
reads, is noted, which is what keeps both inductive; without that history the statement is
`UnchangedMeansIndexed`, and false, of the job alone as well. So the theorem does not say
that a fingerprint that matches can be relied on; it says what has to happen that it cannot.

**Provider.** `PoolInv`: the two lines of cooling keys have no repetition and share no key,
which every operation of the pool keeps (`WithoutIs` and its like, one line at a time).
`GoodKeysHaveTheirTurn` says that a call that fails has had an answer from some key that
works, or there is no such key. Nothing in a call remembers that; the argument is a
count. A call that has not been answered has had one rejection for every request behind it,
and every rejection retires a key for good, so its requests are at most the retired keys
other than the one in hand (`Accounted`). Requests are counted by where in its four nested
loops the call is, read as a numeral with a digit for each (`Spent`, `Row`): each of
`Repeats`, `Advances` and `TriesNextKey` carries to the next. At the end of the last loop
that is `Attempts`, which *RejectedAreFew* excludes; and a call that gives up since acquire
finds no key finds them all retired, hence rejected (`RetiredAreRejected`).

**Only model-checked**: liveness (`ReworkEnds`, `TicksMove`, `ActiveAreStepped`,
`JobsKeepRunning`, `CallsEnd`) and anything about ENABLED, which the prover does not reach,
and the refuted definitions of section 4. Every safety invariant and action property of a
run is stated by a theorem.

## 6. Abstractions

* What models and verifiers answer is a free choice, of every outcome the handler
  distinguishes.
* In PipelineDriver several patches or figures of one draft are one text; Book and Figures
  have them apart. The Writer's branch "no patches, NEEDS_HUMAN" (`pipeline.py:225-229`) is
  not modelled: a stored draft is never empty.
* A job that dies between steps is a job that is not run: rows are as the last step left
  them.
* `LosesPatience` may happen whenever a call would wait, not only after `max_wait`.
* The changelog entry is new each time, so a commit always has something staged.
* A day's versions are numbered apart; Delivery is one day.
* Commands in Orchestrator may take any edge out of a row's state; which command goes where
  is in PipelineDriver.
* Research: ages of rows are not kept, what is due or expired is a free choice; relevance
  ranking and embeddings are given similarities; after WRITING a pipeline ends either way.
* Citation: titles match or do not; a key is a stem and a number, as `suggest_key` counts
  them up; placement of `\cite` in the text is the row's `cited`.
* Book: a line carries what the checks read off it (figure, words, placeholder); relocating
  a heading and the end-of-chapter fallback are whether a hunk fits; LaTeX that does not
  compile is an outcome of the build.
* Figures: pixels, scores and the layout of diagrams are answers of the checks.
* Knowledge: a word is a concept; headings have a level and a label; `--force`, `--limit`
  and `--structure-only` of the command line, equations, numbering, cross-references of an
  ancestor's neighbours and the limit of twelve of the impact query are left out, and
  `index_structure` is one transaction.

**Not modelled**, and why. *HTTP tools* (`tools/http.py`, `web.py`, `scholarly.py`,
`code_hosting.py`, `community.py`): each request has its own bounded loop and a limiter per
host under a lock; what they return, and that they fail, are inputs of Research and
Citation. *Tool registry and MCP server*: permissions are a look-up per call with no state;
the one default that matters, `try_call`'s, is in Book. *Model tools* hand one call to the
provider. *Response cache*: a hit is an answer another call had, and answers are free; but
note that a retry with the same prompt gets the same answer. *Skills that only ask*
(relevance, claims, prose, narrative, mail layout), *parsing* of feeds, BibTeX and JSON,
*artifacts* and *events*, which are written and not read, the *dashboard*, the read-only
commands and one-shot scripts, push and pull request beyond success or failure.

## 7. What is left

* **KeyStats**: `save_stats` of several processes over one file (`keypool.py:114-129`).
* In Delivery, what the build saw against what is committed (`publish.py:71`).
* Composition of Citation and Book with PipelineDriver as a refinement: both use the states
  of StateMachine, and the driver's step for a draft is their sequence of steps.
* Abstract specifications: a mutex for Scheduler, at-least-once mail for Mail, a history of
  versions for Delivery.
