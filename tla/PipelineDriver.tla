--------------------------- MODULE PipelineDriver ---------------------------
(***************************************************************************)
(* One pipeline, moved by PipelineDriver.step and by its operator.         *)
(*                                                                         *)
(* A step dispatches on the row's state, stamps the row (record_attempt),  *)
(* runs the handler and hands its result to StateMachine.transition, which *)
(* raises when the edge is not in the table: the exception leaves the row  *)
(* as it was and drops the result.  Handlers that touch the book, git or   *)
(* mail before their transition take several actions, and a crash (or a    *)
(* cancelled task) may fall between them.                                  *)
(*                                                                         *)
(* What agents answer is a choice.  One process holds the pipeline here;   *)
(* Orchestrator lets several hold stale copies of it.                      *)
(***************************************************************************)
EXTENDS StateMachine, FiniteSets

CONSTANTS
    FromStates,         \* the states operators name in `stuck --retry --from`
    ResetsRevisions,    \* whether operators pass --reset-revisions
    EmailEnabled,       \* email.enabled
    RevisionCap,        \* bound: operators stop retrying at this many revisions
    MaxCrashes          \* bound: crashes and cancelled tasks

ASSUME DriverAssumption ==
    /\ FromStates \subseteq State
    /\ ResetsRevisions \in BOOLEAN
    /\ EmailEnabled \in BOOLEAN
    /\ RevisionCap \in Nat
    /\ MaxCrashes \in Nat

VARIABLES
    \* columns of the pipelines row
    state, previous, revisions,
    touched,    \* flips when record_attempt stamps attempts and updated_at
    \* state_data_json, as far as a handler reads it back
    verdict,    \* decision of the verdict: none, ignore, monitor, plain, gated
    patches,    \* a draft is stored
    feedback,   \* gates whose findings are stored: technical_findings,
                \* unsupported_claims, editorial_findings, qa_failures
    gaps,       \* citation_gaps is not empty
    \* the step in progress, in memory
    step,       \* idle, or how far a handler with side effects has come
    original,   \* the layers of the text _apply_patches keeps for _revert
    crashes,
    \* the world outside the database
    tree,       \* what the target files hold beyond the book: see Layers
    commits,    \* certificates of the commits made, see GitCommit
    mailed,
    \* history, for the properties only
    passed,     \* gates that passed the draft in hand
    rejected,   \* gates whose rejection of the draft in hand was stored
    approved    \* a human approved the latest verdict

row     == <<state, previous, revisions>>
data    == <<verdict, patches, feedback, gaps>>
memory  == <<step, original, crashes>>
world   == <<tree, commits, mailed>>
history == <<passed, rejected, approved>>
vars    == <<row, touched, data, memory, world, history>>

Gates     == {"technical", "citation", "editorial", "qa"}
Decisions == {"none", "ignore", "monitor", "plain", "gated"}
\* The draft in hand, and text left by an application that was not taken back: an
\* earlier draft, or the one in hand a second time.
Layers    == {"draft", "leftover"}

\* Verdict.changes_manuscript
ChangesManuscript == verdict \in {"plain", "gated"}

Sanctioned == verdict = "plain" \/ (verdict = "gated" /\ approved)

TypeOK ==
    /\ state \in State
    /\ previous \in State \cup {"none"}
    /\ revisions \in Nat
    /\ touched \in BOOLEAN
    /\ verdict \in Decisions
    /\ patches \in BOOLEAN
    /\ feedback \subseteq Gates
    /\ gaps \in BOOLEAN
    /\ step \in {"idle", "applied", "committed", "mailed"}
    /\ original \subseteq Layers
    /\ crashes \in 0 .. MaxCrashes
    /\ tree \subseteq Layers
    /\ commits \subseteq [gates : SUBSET Gates, text : SUBSET Layers, sanctioned : BOOLEAN]
    /\ mailed \in BOOLEAN
    /\ passed \subseteq Gates
    /\ rejected \subseteq Gates
    /\ approved \in BOOLEAN

\* StateMachine.create, as job_synthesis calls it.
Init ==
    /\ state = "SYNTHESIZED" /\ previous = "none" /\ revisions = 0
    /\ touched = FALSE
    /\ verdict = "none" /\ patches = FALSE /\ feedback = {} /\ gaps = FALSE
    /\ step = "idle" /\ original = {} /\ crashes = 0
    /\ tree = {} /\ commits = {} /\ mailed = FALSE
    /\ passed = {} /\ rejected = {} /\ approved = FALSE

-----------------------------------------------------------------------------
(* StateMachine.transition on the row in hand *)

\* The three columns a legal transition writes.
Moves(to) ==
    /\ CanTransition(state, to)
    /\ state' = Landing(state, to, revisions)
    /\ previous' = state
    /\ revisions' = RevisionsAfter(state, to, revisions)

\* transition() outside any try: IllegalTransition propagates and nothing is
\* written, neither the state nor the handler's data.
Submits(to) == IF CanTransition(state, to) THEN Moves(to) ELSE UNCHANGED row

Stored(to, new, old) == IF CanTransition(state, to) THEN new ELSE old

-----------------------------------------------------------------------------
(* PipelineDriver.step: one action per handler outcome *)

Handles(s) == step = "idle" /\ state = s /\ touched' = ~touched

\* States on the path that no handler is registered for are parked, before
\* record_attempt.
NoHandler ==
    /\ step = "idle"
    /\ state \in {"DISCOVERED", "COLLECTED", "DEDUPLICATED"}
    /\ Moves("NEEDS_HUMAN")
    /\ UNCHANGED <<touched, data, memory, world, history>>

\* An agent gives up (AgentFailure) or anything else raises inside the handler:
\* fail().  The handlers listed have done nothing to undo by then.
AgentFails ==
    /\ \E s \in { "VERDICT_PENDING", "VERDICT_APPROVED", "DRAFTED",
                  "TECHNICAL_VERIFY", "CITATION_AUDIT", "CITATION_FIND",
                  "CITATION_VERIFY", "EDITORIAL_VERIFY", "VISUAL",
                  "GIT_PUBLISH" } : Handles(s)
    /\ Moves("FAILED")
    /\ UNCHANGED <<data, memory, world, history>>

VerdictPending ==
    /\ Handles("SYNTHESIZED")
    /\ Submits("VERDICT_PENDING")
    /\ UNCHANGED <<data, memory, world, history>>

\* The cluster's payload cannot be loaded.
ClusterMissing ==
    /\ Handles("VERDICT_PENDING")
    /\ Submits("REJECTED")
    /\ UNCHANGED <<data, memory, world, history>>

\* Mutant: approval.require_human_approval_for is not consulted.
VerdictUngated(d, to) ==
    /\ Handles("VERDICT_PENDING")
    /\ Submits(IF d = "gated" THEN "VERDICT_APPROVED" ELSE to)
    /\ verdict' = d
    /\ approved' = FALSE
    /\ UNCHANGED <<patches, feedback, gaps, memory, world, passed, rejected>>

Verdict(d, to) ==
    /\ Handles("VERDICT_PENDING")
    /\ Submits(to)
    /\ verdict' = Stored(to, d, verdict)
    /\ approved' = FALSE
    /\ UNCHANGED <<patches, feedback, gaps, memory, world, passed, rejected>>

\* The Writer reads the working tree: what another draft is written against.  A
\* draft QA has passed is part of the book by then.
Superseded ==
    IF "draft" \in tree /\ "qa" \notin passed THEN {"leftover"} ELSE tree \ {"draft"}

Draft ==
    /\ Handles("VERDICT_APPROVED")
    /\ ChangesManuscript
    /\ Submits("DRAFTED")
    /\ patches' = Stored("DRAFTED", TRUE, patches)
    /\ tree' = Stored("DRAFTED", Superseded, tree)
    /\ passed' = Stored("DRAFTED", {}, passed)
    /\ rejected' = Stored("DRAFTED", {}, rejected)
    /\ UNCHANGED <<verdict, feedback, gaps, memory, commits, mailed, approved>>

DraftWithoutVerdict ==
    /\ Handles("VERDICT_APPROVED")
    /\ verdict = "none"
    /\ Submits("FAILED")
    /\ UNCHANGED <<data, memory, world, history>>

NothingToVerify ==
    /\ Handles("DRAFTED")
    /\ ~patches
    /\ Submits("FAILED")
    /\ UNCHANGED <<data, memory, world, history>>

\* Mutant: unsupported_claims are not among the findings a re-draft looks for.
PendingTechnicalOnly == feedback \cap {"technical"}

\* The only findings a re-draft is told about, and clears.
Pending == feedback \cap {"technical", "citation"}

\* Pending findings mean the stored draft is the one just rejected: the Writer
\* replaces it before it is verified, given a verdict and a cluster.  Here and in
\* _draft the verdict stands for both: only a handler that has loaded the cluster
\* stores one (pipeline.py:132-139), and a row of clusters is never deleted, only
\* written again from another model_dump (kb.py:195-204).
Rewrites == Pending # {} /\ verdict # "none"

\* The outcome of DRAFTED's handler: the (possibly rewritten) draft is stored
\* with the result, if the result's edge is legal.
Reviewed(to, found) ==
    /\ Submits(to)
    /\ feedback' = Stored(to, (IF Rewrites THEN feedback \ Pending ELSE feedback)
                                  \cup found, feedback)
    /\ tree' = Stored(to, IF Rewrites THEN Superseded ELSE tree, tree)
    /\ UNCHANGED <<verdict, patches, gaps, memory, commits, mailed, approved>>

TechnicalPass ==
    /\ Handles("DRAFTED")
    /\ patches
    /\ Rewrites => ChangesManuscript
    /\ Reviewed("TECHNICAL_VERIFY", {})
    /\ passed' = Stored("TECHNICAL_VERIFY",
                    (IF Rewrites THEN {} ELSE passed) \cup {"technical"}, passed)
    /\ rejected' = Stored("TECHNICAL_VERIFY",
                    (IF Rewrites THEN {} ELSE rejected) \ {"technical"}, rejected)

TechnicalBlockers ==
    /\ Handles("DRAFTED")
    /\ patches
    /\ Rewrites => ChangesManuscript
    /\ Reviewed("DRAFTED", {"technical"})
    /\ passed' = Stored("DRAFTED",
                    (IF Rewrites THEN {} ELSE passed) \ {"technical"}, passed)
    /\ rejected' = Stored("DRAFTED",
                    (IF Rewrites THEN {} ELSE rejected) \cup {"technical"}, rejected)

\* No gap: the audit asks to skip the finding and verifying states.
CitationAudit(found) ==
    LET to == IF found THEN "CITATION_AUDIT" ELSE "EDITORIAL_VERIFY"
    IN  /\ Handles("TECHNICAL_VERIFY")
        /\ found => patches
        /\ Submits(to)
        /\ gaps' = Stored(to, found, gaps)
        /\ UNCHANGED <<verdict, patches, feedback, memory, world, history>>

CitationFind ==
    /\ Handles("CITATION_AUDIT")
    /\ Submits(IF gaps THEN "CITATION_FIND" ELSE "CITATION_VERIFY")
    /\ UNCHANGED <<data, memory, world, history>>

\* A verification gate sends the draft back to DRAFTED with its findings.
SendsBack(gate) ==
    /\ Submits("DRAFTED")
    /\ feedback' = Stored("DRAFTED", feedback \cup {gate}, feedback)
    /\ passed' = Stored("DRAFTED", passed \ {gate}, passed)
    /\ rejected' = Stored("DRAFTED", rejected \cup {gate}, rejected)
    /\ UNCHANGED <<verdict, patches, gaps, approved>>

\* It lets the draft through.
Passes(gate, to) ==
    /\ Submits(to)
    /\ passed' = Stored(to, passed \cup {gate}, passed)
    /\ rejected' = Stored(to, rejected \ {gate}, rejected)
    /\ UNCHANGED <<data, approved>>

\* Every gap is answered by an accepted citation, or none was refused.
CitationsVerified ==
    /\ Handles("CITATION_FIND")
    /\ Passes("citation", "CITATION_VERIFY")
    /\ UNCHANGED <<memory, world>>

\* Mutant: the refused claims are passed on to the editor, an illegal edge.
ClaimsUnsupportedPassedOn ==
    /\ Handles("CITATION_FIND")
    /\ gaps
    /\ Submits("EDITORIAL_VERIFY")
    /\ UNCHANGED <<data, memory, world, history>>

ClaimsUnsupported ==
    /\ Handles("CITATION_FIND")
    /\ gaps
    /\ SendsBack("citation")
    /\ UNCHANGED <<memory, world>>

EditorialPass ==
    /\ Handles("CITATION_VERIFY")
    /\ Passes("editorial", "EDITORIAL_VERIFY")
    /\ UNCHANGED <<memory, world>>

\* Mutant: blockers are recorded, but the draft goes on.
EditorialBlockersIgnored ==
    /\ Handles("CITATION_VERIFY")
    /\ Submits("EDITORIAL_VERIFY")
    /\ feedback' = feedback \cup {"editorial"}
    /\ rejected' = rejected \cup {"editorial"}
    /\ UNCHANGED <<verdict, patches, gaps, memory, world, passed, approved>>

EditorialBlockers ==
    /\ Handles("CITATION_VERIFY")
    /\ SendsBack("editorial")
    /\ UNCHANGED <<memory, world>>

Visual ==
    /\ Handles("EDITORIAL_VERIFY")
    /\ Submits("VISUAL")
    /\ UNCHANGED <<data, memory, world, history>>

\* Mutant: a text that was patched before is taken for patched.
ApplyPatchesOnce ==
    /\ Handles("VISUAL")
    /\ step' = "applied"
    /\ original' = tree
    /\ tree' = IF patches /\ tree = {} THEN {"draft"} ELSE tree
    /\ passed' = passed \ {"qa"}
    /\ UNCHANGED <<row, data, crashes, commits, mailed, rejected, approved>>

\* The draft's diff, applied to what the tree holds.  On a text that has the draft
\* already, a diff whose context still matches (an addition at the end of a file)
\* is applied twice.
Patched ==
    tree \cup {"draft"} \cup (IF "draft" \in tree THEN {"leftover"} ELSE {})

\* _apply_patches: the draft is written into the working tree before QA.  (A diff
\* that does not match raises, and the files are restored: AgentFails.)
ApplyPatches ==
    /\ Handles("VISUAL")
    /\ step' = "applied"
    /\ original' = tree
    /\ tree' = IF patches THEN Patched ELSE tree
    /\ passed' = passed \ {"qa"}
    /\ UNCHANGED <<row, data, crashes, commits, mailed, rejected, approved>>

QaPass ==
    /\ step = "applied"
    /\ step' = "idle"
    /\ Passes("qa", "BOOK_QA")
    /\ UNCHANGED <<touched, original, crashes, world>>

QaFail ==
    /\ step = "applied"
    /\ step' = "idle"
    /\ tree' = original
    /\ SendsBack("qa")
    /\ UNCHANGED <<touched, original, crashes, commits, mailed>>

\* The QA agent itself fails: no revert on this path.
QaAgentFails ==
    /\ step = "applied"
    /\ step' = "idle"
    /\ Moves("FAILED")
    /\ UNCHANGED <<touched, data, original, crashes, world, history>>

Approve ==
    /\ Handles("BOOK_QA")
    /\ Submits("APPROVED")
    /\ UNCHANGED <<data, memory, world, history>>

\* Not a repository, the build fails, nothing staged, or a git tool raises
\* (EscalateToHuman): nothing was committed.
PublishRefused ==
    /\ Handles("APPROVED")
    /\ Submits("NEEDS_HUMAN")
    /\ UNCHANGED <<data, memory, world, history>>

\* git_commit; push and pull request only degrade the result.
GitCommit ==
    /\ Handles("APPROVED")
    /\ step' = "committed"
    /\ commits' = commits \cup
          {[gates |-> passed, text |-> tree, sanctioned |-> Sanctioned]}
    /\ UNCHANGED <<row, data, original, crashes, tree, mailed, history>>

\* The versions row or the artifact cannot be written: escalate_to_human.
PublishInterrupted ==
    /\ step = "committed"
    /\ step' = "idle"
    /\ Submits("NEEDS_HUMAN")
    /\ UNCHANGED <<touched, data, original, crashes, world, history>>

PublishDone ==
    /\ step = "committed"
    /\ step' = "idle"
    /\ Submits(IF EmailEnabled THEN "EMAIL" ELSE "COMPLETED")
    /\ UNCHANGED <<touched, data, original, crashes, world, history>>

SendMail ==
    /\ Handles("GIT_PUBLISH")
    /\ step' = "mailed"
    /\ mailed' = TRUE
    /\ UNCHANGED <<row, data, original, crashes, tree, commits, history>>

\* The mail is out (or, MailSkipped, was suppressed): the pipeline is done.
MailDone ==
    /\ step = "mailed"
    /\ step' = "idle"
    /\ Submits("COMPLETED")
    /\ UNCHANGED <<touched, data, original, crashes, world, history>>

MailSkipped ==
    /\ Handles("GIT_PUBLISH")
    /\ Submits("COMPLETED")
    /\ UNCHANGED <<data, memory, world, history>>

Complete ==
    /\ Handles("EMAIL")
    /\ Submits("COMPLETED")
    /\ UNCHANGED <<data, memory, world, history>>

\* The process dies, or the daemon cancels the task, inside a handler.
Crash ==
    /\ step # "idle"
    /\ crashes < MaxCrashes
    /\ step' = "idle"
    /\ original' = {}
    /\ crashes' = crashes + 1
    /\ UNCHANGED <<row, touched, data, world, history>>

-----------------------------------------------------------------------------
(* Orchestrator: the operator's commands and the sweep, between two steps *)

Unattended == step = "idle"

\* Bound on what an operator does to one pipeline.
OperatorActs == Unattended /\ revisions < RevisionCap

HumanApproves ==
    /\ OperatorActs
    /\ state = "NEEDS_HUMAN"
    /\ Moves("VERDICT_APPROVED")
    /\ approved' = TRUE
    /\ UNCHANGED <<touched, data, memory, world, passed, rejected>>

HumanRejects ==
    /\ OperatorActs
    /\ Moves("REJECTED")
    /\ UNCHANGED <<touched, data, memory, world, history>>

\* The row is put back to `target`, from its current state and `n` revisions.
Retries(target, n) ==
    /\ CanTransition(state, target)
    /\ state' = Landing(state, target, n)
    /\ previous' = state
    /\ revisions' = RevisionsAfter(state, target, n)
    /\ UNCHANGED <<touched, data, memory, world, history>>

\* Orchestrator.retry's target: the state named, or where the pipeline was
\* before; never an off-ramp or the end.
RetryTarget(from) ==
    IF from \in {"none", "FAILED", "NEEDS_HUMAN", "COMPLETED"}
    THEN "DRAFTED"
    ELSE from

\* `stuck --retry`.  --reset-revisions is stored first, even when the
\* transition that follows is illegal.
Retry(from, reset) ==
    /\ OperatorActs
    /\ \/ Retries(RetryTarget(from), IF reset THEN 0 ELSE revisions)
       \/ /\ reset
          /\ ~CanTransition(state, RetryTarget(from))
          /\ revisions' = 0
          /\ UNCHANGED <<state, previous, touched, data, memory, world, history>>

\* `stuck --resume-all`
ResumeTarget ==
    IF previous \in {"none", "FAILED", "COMPLETED"} THEN "DRAFTED" ELSE previous

ResumeFailed ==
    /\ OperatorActs
    /\ state = "FAILED"
    /\ Retries(ResumeTarget, revisions)

\* job_monitor_sweep, once monitor_reevaluation_days have passed.
MonitorSweep ==
    /\ Unattended
    /\ state = "MONITORING"
    /\ Moves("VERDICT_PENDING")
    /\ UNCHANGED <<touched, data, memory, world, history>>

-----------------------------------------------------------------------------

Driver ==
    \/ NoHandler \/ AgentFails
    \/ VerdictPending \/ ClusterMissing
    \/ Verdict("ignore", "REJECTED") \/ Verdict("monitor", "MONITORING")
    \/ Verdict("gated", "NEEDS_HUMAN") \/ Verdict("plain", "VERDICT_APPROVED")
    \/ Draft \/ DraftWithoutVerdict \/ NothingToVerify
    \/ TechnicalPass \/ TechnicalBlockers
    \/ \E found \in BOOLEAN : CitationAudit(found)
    \/ CitationFind \/ CitationsVerified \/ ClaimsUnsupported
    \/ EditorialPass \/ EditorialBlockers
    \/ Visual \/ ApplyPatches \/ QaPass \/ QaFail \/ QaAgentFails
    \/ Approve
    \/ PublishRefused \/ GitCommit \/ PublishInterrupted \/ PublishDone
    \/ SendMail \/ MailDone \/ MailSkipped \/ Complete

Operator ==
    \/ HumanApproves \/ HumanRejects
    \/ \E from \in FromStates \cup {previous},
          reset \in {FALSE, ResetsRevisions} : Retry(from, reset)
    \/ ResumeFailed

Next == Driver \/ Operator \/ MonitorSweep \/ Crash

Spec == Init /\ [][Next]_vars

\* The tick fires every fifteen minutes for as long as the daemon runs, and the
\* monitor sweep every week; operators and crashes are under no obligation.
Fairness == WF_vars(Driver) /\ WF_vars(MonitorSweep)

FairSpec == Spec /\ Fairness

-----------------------------------------------------------------------------
(* Safety *)

\* States in which the manuscript is being changed for the pipeline.
Writing == { "VERDICT_APPROVED", "DRAFTED", "TECHNICAL_VERIFY", "CITATION_AUDIT",
             "CITATION_FIND", "CITATION_VERIFY", "EDITORIAL_VERIFY", "VISUAL",
             "BOOK_QA", "APPROVED" }

\* Whatever was committed is a text QA has judged, with the draft in hand in it, and
\* that draft had passed the other gates: no retry, re-draft, late answer or crash
\* lets a refused draft, or a tree patched after QA, reach git_commit.
OnlyVerifiedShips ==
    \A c \in commits : c.gates = Gates /\ "draft" \in c.text

\* A commit rests on a verdict that needed no approval, or on a human's approval
\* of that very verdict (approval.require_human_approval_for).
OnlySanctionedShips == \A c \in commits : c.sanctioned

\* Work refused by the citation gate comes back as another draft: what leaves
\* DRAFTED is never the draft whose claims could not be sourced.
CitationRefusalsAreRewritten ==
    [][state = "DRAFTED" /\ state' = "TECHNICAL_VERIFY"
          => "citation" \notin rejected']_vars

\* The abstract promise, see Publication.
Contract == INSTANCE Publication WITH
                sanctioned <- Sanctioned,
                certified  <- passed,
                shipped    <- commits # {}

ImplementsPublication == Contract!PubSpec

-----------------------------------------------------------------------------
(* Why the safety properties hold: the inductive invariant of the proofs *)

\* A handler with side effects is under way only in its own state.
StepPlace ==
    /\ step = "applied" => state = "VISUAL" /\ (patches => "draft" \in tree)
    /\ step = "committed" => state = "APPROVED"
    /\ step = "mailed" => state = "GIT_PUBLISH"

\* The states beyond each gate, and where QA's answer is trusted.
PastTechnical == { "TECHNICAL_VERIFY", "CITATION_AUDIT", "CITATION_FIND",
                   "CITATION_VERIFY", "EDITORIAL_VERIFY", "VISUAL", "BOOK_QA",
                   "APPROVED" }
PastCitation  == {"CITATION_VERIFY", "EDITORIAL_VERIFY", "VISUAL", "BOOK_QA", "APPROVED"}
PastEditorial == {"EDITORIAL_VERIFY", "VISUAL", "BOOK_QA", "APPROVED"}
PastQa        == {"BOOK_QA", "APPROVED"}

\* The draft in hand has passed every gate before s, and once QA has passed it
\* the working tree holds it.
Certified(s) ==
    /\ s \in PastTechnical => "technical" \in passed
    /\ s \in PastCitation  => "citation" \in passed
    /\ s \in PastEditorial => "editorial" \in passed
    /\ s \in PastQa => "qa" \in passed /\ "draft" \in tree

\* previous counts as well: it is where retry and resume_failed put a pipeline.
Gated ==
    /\ Certified(state)
    /\ Certified(previous)
    /\ state = "VISUAL" => previous \notin PastQa
    /\ passed # {} => patches

\* Where the manuscript is being changed, or was before the pipeline stopped, the
\* verdict allows it; a pipeline parks for a person only with such a verdict, and
\* stops only from a state on the path.
Authorised ==
    /\ state \in Writing => Sanctioned
    /\ previous \in Writing => Sanctioned
    /\ state = "NEEDS_HUMAN" => ChangesManuscript
    /\ state \in {"NEEDS_HUMAN", "FAILED"}
          => previous \notin {"none", "FAILED", "NEEDS_HUMAN", "COMPLETED"}
    /\ state \notin {"DISCOVERED", "COLLECTED", "DEDUPLICATED"}
    /\ previous \notin {"DISCOVERED", "COLLECTED", "DEDUPLICATED"}

\* A refusal of the citation gate is remembered until the draft is replaced, and
\* a draft it refused is not in the states before that gate.
Remembered ==
    /\ "citation" \in rejected => "citation" \in feedback
    /\ {state, previous} \cap {"TECHNICAL_VERIFY", "CITATION_AUDIT"} # {}
          => "citation" \notin rejected

-----------------------------------------------------------------------------
(* Liveness *)

\* A retry that gives a pipeline revisions back.
Resets ==
    revisions # 0 /\ \E from \in FromStates \cup {previous} : Retry(from, TRUE)

\* Work is not sent back to the Writer for ever: once operators stop resetting the
\* counter, the edges the table counts are taken finitely often, whatever agents
\* answer and however often an operator retries.
ReworkEnds ==
    <>[][~Resets]_vars => <>[][~(<<state, state'>> \in BackwardEdges)]_vars

\* States whose every handler result is an edge of the table.
Moving == { "SYNTHESIZED", "VERDICT_PENDING", "VERDICT_APPROVED", "CITATION_FIND",
            "CITATION_VERIFY", "EDITORIAL_VERIFY", "BOOK_QA", "GIT_PUBLISH",
            "EMAIL" }

\* Ticks move a pipeline out of each of them, whatever the agents answer: it never
\* comes to rest in one.
TicksMove == []<>(state \notin Moving) \/ []<><<state' # state>>_vars

\* An approved change is published and the pipeline goes on.
ApprovedGoesOn == (state = "APPROVED") ~> (state # "APPROVED")

-----------------------------------------------------------------------------
(* What the code does not keep, although its texts say so: TLC refutes each *)

\* An editorial refusal brings another draft, too: no, editorial_findings are
\* stored and never read, and the same text is verified again.
EditorialRefusalsAreRewritten ==
    [][state = "DRAFTED" /\ state' = "TECHNICAL_VERIFY"
          => "editorial" \notin rejected']_vars

\* When QA does not end well the working tree is what it was before the patches:
\* no, nothing reverts them when the QA agent itself fails.
QaFailureReverts ==
    [][step = "applied" /\ step' = "idle" /\ state' = "FAILED"
          => tree' = original]_vars

\* A commit adds the draft and nothing else: no, what such a failure or a crash has
\* left in the tree goes with the next commit of the file, or is there twice.
OnlyTheDraftShips == \A c \in commits : c.text = {"draft"}

\* A mail is sent only about a committed change: no, GIT_PUBLISH's handler mails,
\* and an operator may name that state.
MailFollowsCommit == mailed => commits # {}

\* A draft with technical defects is escalated once its revisions are used up: no,
\* DRAFTED to DRAFTED is no edge, so neither the findings nor a revision are stored.
DefectsEscalate == (state = "DRAFTED") ~> (state # "DRAFTED")

\* A draft without a citation gap goes on to the editorial gate: no, the edge the
\* audit asks for is missing.
AuditGoesOn == (state = "TECHNICAL_VERIFY") ~> (state # "TECHNICAL_VERIFY")

\* A draft that fails book QA goes back to the Writer, or to a person: no, VISUAL to
\* DRAFTED is no edge either.
QaGoesOn == (state = "VISUAL") ~> (state # "VISUAL")

=============================================================================
