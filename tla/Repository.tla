----------------------------- MODULE Repository -----------------------------
(***************************************************************************)
(* The one git repository of the book, as livingbook/tools/git_tools.py    *)
(* uses it: a working tree, an index and a checked-out branch that every   *)
(* pipeline shares.  Each git command is one step.                         *)
(*                                                                         *)
(* The text of a file is the set of pipelines whose work is in it.         *)
(***************************************************************************)
CONSTANTS
    Pipeline,
    File,           \* files of the book: chapters, figures, the bibliography
    Branch          \* the agent's branches; "main" is another

ASSUME RepositoryAssumption == "main" \notin Branch

VARIABLES
    tree,           \* the files as they are on disk
    index,          \* the files as they are staged
    branches,       \* the branches that exist, and the files of their last commit
    head            \* the branch checked out

repo == <<tree, index, branches, head>>

Files == [File -> SUBSET Pipeline]

RepositoryTypeOK ==
    /\ tree \in Files
    /\ index \in Files
    /\ DOMAIN branches \subseteq Branch \cup {"main"}
    /\ \A b \in DOMAIN branches : branches[b] \in Files
    /\ head \in DOMAIN branches

RepositoryInit ==
    /\ tree = [f \in File |-> {}]
    /\ index = [f \in File |-> {}]
    /\ branches = [b \in {"main"} |-> [f \in File |-> {}]]
    /\ head = "main"

-----------------------------------------------------------------------------

\* What a new branch starts from is main, whatever is checked out.
Start(b) == IF b \in DOMAIN branches THEN branches[b] ELSE branches["main"]

\* git checkout leaves alone a file that is the same on both sides, or staged as
\* the other side has it.
Stays(f, b) == Start(b)[f] \in {branches[head][f], index[f]}

\* It refuses to overwrite any other file that is not as it was committed.
CanCheckOut(b) ==
    \A f \in File : Stays(f, b) \/ (index[f] = branches[head][f] /\ tree[f] = index[f])

ChecksOut(b) ==
    /\ head' = b
    /\ branches' = [c \in DOMAIN branches \cup {b} |->
                       IF c = b THEN Start(b) ELSE branches[c]]
    /\ index' = [f \in File |-> IF Stays(f, b) THEN index[f] ELSE Start(b)[f]]
    /\ tree' = [f \in File |-> IF Stays(f, b) THEN tree[f] ELSE Start(b)[f]]

\* Mutant: a branch that exists is not checked out again.
CreateBranchOnce(b) ==
    IF b \in DOMAIN branches
    THEN UNCHANGED repo
    ELSE CanCheckOut(b) /\ ChecksOut(b)

\* create_branch: checkout, or checkout -b from main.
CreateBranch(b) == CanCheckOut(b) /\ ChecksOut(b)

\* Mutant: git add -A.
AddAll(files) == index' = tree /\ UNCHANGED <<tree, branches, head>>

\* git_commit's git add, of the files of one pipeline (and its changelog entry, which
\* is new each time: there is always something staged).
Add(files) ==
    /\ index' = [f \in File |-> IF f \in files THEN tree[f] ELSE index[f]]
    /\ UNCHANGED <<tree, branches, head>>

\* And its git commit: the whole index, onto the branch that is checked out.
CommitIndex ==
    /\ branches' = [branches EXCEPT ![head] = index]
    /\ UNCHANGED <<tree, index, head>>

\* PipelineDriver writes the files without git.
WritesText(f, text) ==
    /\ tree' = [tree EXCEPT ![f] = text]
    /\ UNCHANGED <<index, branches, head>>

=============================================================================
