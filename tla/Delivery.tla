------------------------------ MODULE Delivery ------------------------------
(***************************************************************************)
(* Several pipelines on their way from a verified draft to a commit and a  *)
(* mail: the handlers of VISUAL, APPROVED and GIT_PUBLISH with the agents, *)
(* skills and tools under them (agents/delivery/agents.py,                 *)
(* skills/publishing/publish.py), over one repository, one versions table  *)
(* and one mail account.  Of the handlers before them, what they write to  *)
(* the working tree: entries of the bibliography, and figures.             *)
(*                                                                         *)
(* Drafts are strict diffs, made when no other was in the tree: one whose  *)
(* file has changed since may fail to apply, or apply where its context    *)
(* still matches.                                                          *)
(***************************************************************************)
EXTENDS Repository, Mail, FiniteSets

CONSTANTS
    Target,         \* Target[p]: the file p's draft is for
    Earlier,        \* Earlier[p]: files in figure_changes and citation_changes of p: its
                    \* figures, and references.bib if it has entries there, added or reused
    Written,        \* Written[p]: those p has written to, not just found in order
    BranchOf,       \* BranchOf[p]: date and topic
    Concurrent,     \* whether two handlers may run at once (a cycle run by hand)
    MaxRetries,     \* max_retries of the email agent, 3
    MaxVersions,    \* bound: rows of the versions table
    MaxCrashes      \* bound: handlers that are killed

\* The key of a mail is made of the pipeline and of the version in its data, which
\* no illegal transition has ever stored: one key per pipeline.
ASSUME DeliveryAssumption ==
    /\ Key = Pipeline
    /\ Target \in [Pipeline -> File]
    /\ Earlier \in [Pipeline -> SUBSET File]
    /\ Written \in [Pipeline -> SUBSET File]
    /\ \A p \in Pipeline : Written[p] \subseteq Earlier[p]
    /\ BranchOf \in [Pipeline -> Branch]
    /\ Concurrent \in BOOLEAN
    /\ MaxRetries \in Nat \ {0}
    /\ MaxVersions \in Nat
    /\ MaxCrashes \in Nat

VARIABLES
    state,          \* the rows of the pipelines, from CITATION_FIND on
    previous,
    step,           \* step[p]: how far p's handler has come, or idle
    original,       \* original[p]: what _apply_patches keeps for _revert
    version,        \* version[p]: the number GitAgent.execute has chosen
    attempt,        \* attempt[p]: of the email agent
    versions,       \* the versions table of the day, by number
    commits,        \* history: the commits made
    judged,         \* history: the pipelines whose draft passed QA
    crashes

rows     == <<state, previous>>
memory   == <<step, original, version, attempt>>
vars     == <<repo, mail, rows, memory, versions, commits, judged, crashes>>

TypeOK ==
    /\ RepositoryTypeOK
    /\ MailTypeOK
    /\ state \in [Pipeline -> {"CITATION_FIND", "VISUAL", "APPROVED", "GIT_PUBLISH",
                               "NEEDS_HUMAN", "FAILED", "COMPLETED"}]
    /\ previous \in [Pipeline -> {"none", "CITATION_FIND", "VISUAL", "APPROVED",
                                  "GIT_PUBLISH", "NEEDS_HUMAN", "FAILED"}]
    /\ step \in [Pipeline -> {"idle", "applied", "numbered", "branched", "staged",
                              "committed", "mailing", "noted"}]
    /\ original \in [Pipeline -> SUBSET Pipeline]
    /\ version \in [Pipeline -> Nat]
    /\ attempt \in [Pipeline -> 1 .. MaxRetries]
    /\ DOMAIN versions \subseteq 1 .. MaxVersions
    /\ \A v \in DOMAIN versions :
          versions[v] \in [pipe : Pipeline, branch : Branch]
    /\ commits \subseteq [pipe : Pipeline, branch : Branch, version : Nat]
    /\ judged \subseteq Pipeline
    /\ crashes \in 0 .. MaxCrashes

Init ==
    /\ RepositoryInit
    /\ MailInit
    /\ state = [p \in Pipeline |-> "CITATION_FIND"]
    /\ previous = [p \in Pipeline |-> "none"]
    /\ step = [p \in Pipeline |-> "idle"]
    /\ original = [p \in Pipeline |-> {}]
    /\ version = [p \in Pipeline |-> 0]
    /\ attempt = [p \in Pipeline |-> 1]
    /\ versions = <<>>
    /\ commits = {}
    /\ judged = {}
    /\ crashes = 0

-----------------------------------------------------------------------------
(* Handlers *)

\* One handler at a time, as the scheduler's lock on the tick has it.
Handles(p, s) ==
    /\ state[p] = s
    /\ step[p] = "idle"
    /\ Concurrent \/ \A q \in Pipeline : step[q] = "idle"

Goes(p, to) == step' = [step EXCEPT ![p] = to]

\* The handler is over, with what it had in memory.
Ends(p) ==
    /\ step' = [step EXCEPT ![p] = "idle"]
    /\ original' = [original EXCEPT ![p] = {}]
    /\ version' = [version EXCEPT ![p] = 0]
    /\ attempt' = [attempt EXCEPT ![p] = 1]

\* It ends with a transition.
Leaves(p, to) ==
    /\ state' = [state EXCEPT ![p] = to]
    /\ previous' = [previous EXCEPT ![p] = state[p]]
    /\ Ends(p)

-----------------------------------------------------------------------------
(* _citation_verify and _visual *)

\* An entry is appended to the bibliography, or a figure placed, for p.
Prepares(p, f) ==
    /\ Handles(p, "CITATION_FIND")
    /\ f \in Written[p] /\ p \notin tree[f]
    /\ WritesText(f, tree[f] \cup {p})
    /\ UNCHANGED <<mail, rows, memory, versions, commits, judged, crashes>>

\* On to VISUAL, through CITATION_VERIFY and EDITORIAL_VERIFY.
Prepared(p) ==
    /\ Handles(p, "CITATION_FIND")
    /\ Leaves(p, "VISUAL")
    /\ UNCHANGED <<repo, mail, versions, commits, judged, crashes>>

-----------------------------------------------------------------------------
(* _book_qa *)

ApplyPatches(p) ==
    /\ Handles(p, "VISUAL")
    /\ Goes(p, "applied")
    /\ original' = [original EXCEPT ![p] = tree[Target[p]]]
    /\ WritesText(Target[p], tree[Target[p]] \cup {p})
    /\ UNCHANGED <<mail, rows, version, attempt, versions, commits, judged, crashes>>

\* The file is not the one the diff was made for.
PatchMismatch(p) ==
    /\ Handles(p, "VISUAL")
    /\ tree[Target[p]] # {}
    /\ Leaves(p, "FAILED")
    /\ UNCHANGED <<repo, mail, versions, commits, judged, crashes>>

\* On to APPROVED, through BOOK_QA, whose handler does nothing.
QaPass(p) ==
    /\ step[p] = "applied"
    /\ Leaves(p, "APPROVED")
    /\ judged' = judged \cup {p}
    /\ UNCHANGED <<repo, mail, versions, commits, crashes>>

\* The files are put back; DRAFTED is no edge, so the row stays.
QaFail(p) ==
    /\ step[p] = "applied"
    /\ Ends(p)
    /\ WritesText(Target[p], original[p])
    /\ UNCHANGED <<mail, rows, versions, commits, judged, crashes>>

\* The QA agent itself fails: the files stay as they are.
QaAgentFails(p) ==
    /\ step[p] = "applied"
    /\ Leaves(p, "FAILED")
    /\ UNCHANGED <<repo, mail, versions, commits, judged, crashes>>

-----------------------------------------------------------------------------
(* _git_publish: GitAgent and GitPublishingSkill *)

\* Mutant: the day's rows of this pipeline are counted.
NextVersionOf(p) == Cardinality({v \in DOMAIN versions : versions[v].pipe = p}) + 1

\* Mutant: the first one is number 0.
NextVersionFromZero(p) == Cardinality(DOMAIN versions)

\* _next_version
NextVersion(p) == Cardinality(DOMAIN versions) + 1

Numbers(p) ==
    /\ Handles(p, "APPROVED")
    /\ Cardinality(DOMAIN versions) < MaxVersions
    /\ Goes(p, "numbered")
    /\ version' = [version EXCEPT ![p] = NextVersion(p)]
    /\ UNCHANGED <<repo, mail, rows, original, attempt, versions, commits, judged, crashes>>

\* create_branch; the narrative, the changelog and the build follow.
Branches(p) ==
    /\ step[p] = "numbered"
    /\ Goes(p, "branched")
    /\ CreateBranch(BranchOf[p])
    /\ UNCHANGED <<mail, rows, original, version, attempt, versions, commits, judged, crashes>>

\* changed_paths of _git_publish: the draft's file, the figures, and the bibliography,
\* which is one for all.
Carries(p) == {Target[p]} \cup Earlier[p]

\* git_commit, which refuses to commit to main.
Stages(p) ==
    /\ step[p] = "branched"
    /\ head # "main"
    /\ Goes(p, "staged")
    /\ Add(Carries(p))
    /\ UNCHANGED <<mail, rows, original, version, attempt, versions, commits, judged, crashes>>

Commits(p) ==
    /\ step[p] = "staged"
    /\ Goes(p, "committed")
    /\ CommitIndex
    /\ commits' = commits \cup {[pipe |-> p, branch |-> head, version |-> version[p]]}
    /\ UNCHANGED <<mail, rows, original, version, attempt, versions, judged, crashes>>

\* No repository, checkout refused, the build or a git command fails: up to the
\* commit, and after it, the agent escalates, and leaves the rest as it is.
Escalates(p) ==
    /\ step[p] \in {"numbered", "branched", "staged", "committed"}
    /\ Leaves(p, "NEEDS_HUMAN")
    /\ UNCHANGED <<repo, mail, versions, commits, judged, crashes>>

\* Pushed or not: INSERT OR REPLACE.  EMAIL is no edge of APPROVED, so the row of
\* the pipeline stays, and the next tick publishes again.
Records(p) ==
    /\ step[p] = "committed"
    /\ Ends(p)
    /\ versions' = [v \in DOMAIN versions \cup {version[p]} |->
                       IF v = version[p] THEN [pipe |-> p, branch |-> BranchOf[p]]
                                         ELSE versions[v]]
    /\ UNCHANGED <<repo, mail, rows, commits, judged, crashes>>

-----------------------------------------------------------------------------
(* _email: EmailAgent and send_email *)

StartsMail(p) ==
    /\ Handles(p, "GIT_PUBLISH")
    /\ Goes(p, "mailing")
    /\ UNCHANGED <<repo, mail, rows, original, version, attempt, versions, commits, judged, crashes>>

\* The attempt failed: once more, or the agent gives up.
MailAttemptFails(p) ==
    \/ /\ attempt[p] < MaxRetries
       /\ attempt' = [attempt EXCEPT ![p] = @ + 1]
       /\ UNCHANGED <<rows, step, original, version>>
    \/ /\ attempt[p] = MaxRetries
       /\ Leaves(p, "FAILED")

\* The session is over and its results are known.
SendsMail(p, some) ==
    /\ step[p] = "mailing" /\ served[p] = {}
    /\ Serves(p, some)
    /\ IF some = {} THEN MailAttemptFails(p) ELSE UNCHANGED <<rows, memory>>
    /\ UNCHANGED <<repo, versions, commits, judged, crashes>>

MailBreaksOff(p, some) ==
    /\ step[p] = "mailing" /\ served[p] = {}
    /\ BreaksOff(p, some)
    /\ MailAttemptFails(p)
    /\ UNCHANGED <<repo, versions, commits, judged, crashes>>

NotesMail(p) ==
    /\ step[p] = "mailing"
    /\ Notes(p)
    /\ Goes(p, "noted")
    /\ UNCHANGED <<repo, rows, original, version, attempt, versions, commits, judged, crashes>>

\* Sent just now, or found in emails_sent.
MailDone(p) ==
    /\ \/ step[p] = "noted"
       \/ step[p] = "mailing" /\ p \in noted
    /\ Leaves(p, "COMPLETED")
    /\ UNCHANGED <<repo, mail, versions, commits, judged, crashes>>

-----------------------------------------------------------------------------
(* Crashes and the operator *)

Crash(p) ==
    /\ step[p] # "idle"
    /\ crashes < MaxCrashes
    /\ crashes' = crashes + 1
    /\ Ends(p)
    /\ IF served[p] # {} THEN Forgets(p) ELSE UNCHANGED mail
    /\ UNCHANGED <<repo, rows, versions, commits, judged>>

\* `stuck --retry`, or --resume-all: back to where it was.
Retry(p) ==
    /\ state[p] \in {"NEEDS_HUMAN", "FAILED"}
    /\ state' = [state EXCEPT ![p] = previous[p]]
    /\ previous' = [previous EXCEPT ![p] = state[p]]
    /\ UNCHANGED <<repo, mail, memory, versions, commits, judged, crashes>>

\* `stuck --retry --from GIT_PUBLISH`, once the change is committed.
RetryAsPublished(p) ==
    /\ state[p] \in {"NEEDS_HUMAN", "FAILED"}
    /\ \E c \in commits : c.pipe = p
    /\ state' = [state EXCEPT ![p] = "GIT_PUBLISH"]
    /\ previous' = [previous EXCEPT ![p] = state[p]]
    /\ UNCHANGED <<repo, mail, memory, versions, commits, judged, crashes>>

-----------------------------------------------------------------------------

Publishes(p) == \/ Numbers(p) \/ Branches(p) \/ Stages(p) \/ Commits(p)
                \/ Escalates(p) \/ Records(p)

Next ==
    \E p \in Pipeline :
        \/ Prepared(p) \/ \E f \in File : Prepares(p, f)
        \/ ApplyPatches(p) \/ PatchMismatch(p)
        \/ QaPass(p) \/ QaFail(p) \/ QaAgentFails(p)
        \/ Publishes(p)
        \/ StartsMail(p) \/ NotesMail(p) \/ MailDone(p)
        \/ \E some \in SUBSET Recipient : SendsMail(p, some) \/ MailBreaksOff(p, some)
        \/ Crash(p) \/ Retry(p) \/ RetryAsPublished(p)

Spec == Init /\ [][Next]_vars

-----------------------------------------------------------------------------
(* Properties *)

\* What a pipeline wrote, and QA has not passed, is on no branch, unless in a file that
\* it shares with a pipeline QA has passed: every pipeline's work, judged or not, lies in
\* one working tree, the tree is not cleaned after a failure, and an index outlives
\* whoever staged it.
OnlySharedFilesLeak ==
    \A b \in DOMAIN branches, f \in File :
        \A q \in branches[b][f] \ judged :
            \E p \in judged : f \in Carries(p) \cap Carries(q)

\* A row of versions is not replaced: numbers are not given twice, though they are
\* counted before the commit and stored after it, or never, and although the INSERT
\* would not complain.
VersionsAreKept ==
    [][\A v \in DOMAIN versions :
          v \in DOMAIN versions' /\ versions'[v] = versions[v]]_vars

\* A row of versions names a commit that was made: by this pipeline, for this
\* version, and on this branch, whatever was checked out before.
RowsNameCommits ==
    \A v \in DOMAIN versions :
        [pipe |-> versions[v].pipe, branch |-> versions[v].branch, version |-> v]
            \in commits

\* Nobody gets a mail a second time, unless an earlier session did not come to its
\* end: retries of the agent, of the step and by the operator included.
RepeatsNeedABreak ==
    \A p \in Pipeline, r \in Recipient : received[p][r] <= 1 + broken[p]

-----------------------------------------------------------------------------
(* What the code does not keep, although its texts say so: TLC refutes each *)

\* "A retried delivery step cannot produce a duplicate email": no, nothing is noted
\* of a session that breaks off, or of one whose process dies before the rows.
MailsOnce == \A p \in Pipeline, r \in Recipient : received[p][r] <= 1

\* Nothing that QA has not passed is on a branch: no, the bibliography is one file,
\* and a commit takes the entries of every pipeline along, those as well that are not
\* yet in QA, or are refused there later.
NothingUnjudgedShips ==
    \A b \in DOMAIN branches, f \in File : branches[b][f] \subseteq judged

\* A branch holds the work of its own pipelines: no, what another one has staged
\* and could not commit goes with the next commit.
BranchesAreOwn ==
    \A b \in DOMAIN branches, f \in File :
        branches[b][f] \subseteq {p \in Pipeline : BranchOf[p] = b}

\* A pipeline's branch holds its draft once it has published: no, after such a
\* commit the checkout of its own branch takes the draft out of the tree.
DraftsArePublished ==
    \A v \in DOMAIN versions :
        LET p == versions[v].pipe IN p \in branches[BranchOf[p]][Target[p]]

\* A change can be published: no, an entry of the bibliography that is not committed
\* stands in the way of every branch on which the file is another one.
BranchesCanBeTaken ==
    \A p \in Pipeline : step[p] = "numbered" => CanCheckOut(BranchOf[p])

\* Every commit has its row: no, not when the process dies, or escalates, between
\* the two.
CommitsHaveRows ==
    \A c \in commits :
        \/ c.version \in DOMAIN versions /\ versions[c.version].pipe = c.pipe
        \/ step[c.pipe] = "committed"

=============================================================================
