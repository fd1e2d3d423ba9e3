--------------------------- MODULE DeliveryProofs ---------------------------
(***************************************************************************)
(* Theorems about Delivery, for any number of pipelines, files, branches   *)
(* and recipients.  As long as one handler runs at a time: the numbers of  *)
(* the day's versions, and what the rows of the versions table name.  With *)
(* any number of handlers: who gets a mail twice, whose work is on the     *)
(* branches, and the types.                                                *)
(***************************************************************************)
EXTENDS Delivery, FiniteSetTheorems, TLAPS

\* What the scheduler's lock on the tick provides, while nobody runs a cycle by hand.
OneHandler == ~Concurrent

Publishing == {"numbered", "branched", "staged", "committed"}

Stage == {"idle", "applied", "mailing", "noted"} \cup Publishing

\* At most one handler is under way.
Alone ==
    /\ step \in [Pipeline -> Stage]
    /\ \A p, q \in Pipeline : step[p] # "idle" /\ step[q] # "idle" => p = q

\* The numbers given are 1 to n, and a handler that has chosen one has n + 1: the
\* count is still right when the row is written.
Numbered ==
    /\ version \in [Pipeline -> Nat]
    /\ \E n \in Nat :
          /\ DOMAIN versions = 1 .. n
          /\ \A p \in Pipeline : step[p] \in Publishing => version[p] = n + 1

\* From the checkout to the commit nothing else is checked out, and from the commit
\* to the row the commit is the one the row will name.
OnBranch ==
    /\ \A p \in Pipeline : step[p] \in {"branched", "staged"} => head = BranchOf[p]
    /\ \A p \in Pipeline : step[p] = "committed" =>
          [pipe |-> p, branch |-> BranchOf[p], version |-> version[p]] \in commits

Inv == Alone /\ Numbered /\ OnBranch /\ RowsNameCommits

-----------------------------------------------------------------------------

\* Steps after which p is in no publication, and that touch no table.
LEMMA AsideKeeps ==
    ASSUME Inv, NEW p \in Pipeline, NEW s \in Stage \ Publishing,
           step' = [step EXCEPT ![p] = s],
           s = "idle" \/ step[p] # "idle" \/ (\A q \in Pipeline : step[q] = "idle"),
           version' = version \/ version' = [version EXCEPT ![p] = 0],
           UNCHANGED <<versions, commits, head>>
    PROVE  Inv'
  <1>1. Alone'
    BY DEF Inv, Alone
  <1>2. Numbered'
    <2>1. PICK n \in Nat :
              /\ DOMAIN versions = 1 .. n
              /\ \A q \in Pipeline : step[q] \in Publishing => version[q] = n + 1
      BY DEF Inv, Numbered
    <2>2. version' \in [Pipeline -> Nat]
      BY DEF Inv, Numbered
    <2>3. ASSUME NEW q \in Pipeline, step'[q] \in Publishing
          PROVE  version'[q] = n + 1
      <3>1. q # p /\ step'[q] = step[q]
        BY <2>3 DEF Inv, Alone
      <3>2. version'[q] = version[q]
        BY <3>1 DEF Inv, Numbered
      <3> QED  BY <2>1, <2>3, <3>1, <3>2
    <2> QED  BY <2>1, <2>2, <2>3 DEF Numbered
  <1>3. OnBranch'
    <2>1. ASSUME NEW q \in Pipeline, step'[q] \in Publishing
          PROVE  step'[q] = step[q] /\ version'[q] = version[q]
      <3>1. q # p /\ step'[q] = step[q]
        BY <2>1 DEF Inv, Alone
      <3> QED  BY <3>1 DEF Inv, Numbered
    <2> QED  BY <2>1 DEF Inv, OnBranch, Publishing
  <1>4. RowsNameCommits'
    BY DEF Inv, RowsNameCommits
  <1> QED  BY <1>1, <1>2, <1>3, <1>4 DEF Inv

\* Steps that have nothing to do with a publication.
LEMMA StillKeeps ==
    ASSUME Inv, UNCHANGED <<step, version, versions, commits, head>>
    PROVE  Inv'
  BY DEF Inv, Alone, Numbered, OnBranch, RowsNameCommits

\* The steps of QA, of the mail and of the operator.
LEMMA OtherSteps ==
    ASSUME OneHandler, Inv, NEW p \in Pipeline,
           \/ Prepared(p) \/ (\E f \in File : Prepares(p, f))
           \/ ApplyPatches(p) \/ PatchMismatch(p) \/ QaPass(p) \/ QaFail(p)
           \/ QaAgentFails(p) \/ Escalates(p) \/ StartsMail(p) \/ NotesMail(p)
           \/ MailDone(p) \/ Crash(p) \/ Retry(p) \/ RetryAsPublished(p)
           \/ \E some \in SUBSET Recipient : SendsMail(p, some) \/ MailBreaksOff(p, some)
    PROVE  Inv' /\ UNCHANGED versions
  <1> USE DEF OneHandler, Stage, Publishing, Handles, Goes, Ends, Leaves,
              WritesText, repo, mail, rows, memory
  <1>0. {"idle", "applied", "mailing", "noted"} \subseteq Stage \ Publishing
    OBVIOUS
  <1>1. CASE ApplyPatches(p)
    <2>1. /\ step' = [step EXCEPT ![p] = "applied"]
          /\ \A q \in Pipeline : step[q] = "idle"
          /\ UNCHANGED <<version, versions, commits, head>>
      BY <1>1 DEF ApplyPatches
    <2> QED  BY <1>0, <2>1, AsideKeeps
  <1>2. CASE StartsMail(p)
    <2>1. /\ step' = [step EXCEPT ![p] = "mailing"]
          /\ \A q \in Pipeline : step[q] = "idle"
          /\ UNCHANGED <<version, versions, commits, head>>
      BY <1>2 DEF StartsMail
    <2> QED  BY <1>0, <2>1, AsideKeeps
  <1>3. CASE NotesMail(p)
    <2>1. /\ step' = [step EXCEPT ![p] = "noted"] /\ step[p] # "idle"
          /\ UNCHANGED <<version, versions, commits, head>>
      BY <1>3 DEF NotesMail
    <2> QED  BY <1>0, <2>1, AsideKeeps
  <1>4. CASE \/ Prepared(p)
             \/ PatchMismatch(p) \/ QaPass(p) \/ QaFail(p) \/ QaAgentFails(p)
             \/ Escalates(p) \/ MailDone(p) \/ Crash(p)
    <2>1. /\ step' = [step EXCEPT ![p] = "idle"]
          /\ version' = [version EXCEPT ![p] = 0]
          /\ UNCHANGED <<versions, commits, head>>
      BY <1>4 DEF Prepared, PatchMismatch, QaPass, QaFail, QaAgentFails, Escalates,
                  MailDone, Crash
    <2> QED  BY <1>0, <2>1, AsideKeeps
  <1>5. CASE Retry(p) \/ RetryAsPublished(p) \/ \E f \in File : Prepares(p, f)
    <2>1. UNCHANGED <<step, version, versions, commits, head>>
      BY <1>5 DEF Retry, RetryAsPublished, Prepares
    <2> QED  BY <2>1, StillKeeps
  <1>6. CASE \E some \in SUBSET Recipient : SendsMail(p, some) \/ MailBreaksOff(p, some)
    <2>1. UNCHANGED <<versions, commits, head>>
      BY <1>6 DEF SendsMail, MailBreaksOff
    <2>2. \/ UNCHANGED <<step, version>>
          \/ /\ step' = [step EXCEPT ![p] = "idle"]
             /\ version' = [version EXCEPT ![p] = 0]
      BY <1>6 DEF SendsMail, MailBreaksOff, MailAttemptFails
    <2>3. CASE UNCHANGED <<step, version>>
      BY <2>1, <2>3, StillKeeps
    <2>4. CASE step' = [step EXCEPT ![p] = "idle"] /\ version' = [version EXCEPT ![p] = 0]
      BY <1>0, <2>1, <2>4, AsideKeeps
    <2> QED  BY <2>1, <2>2, <2>3, <2>4
  <1> QED  BY <1>1, <1>2, <1>3, <1>4, <1>5, <1>6

\* The count of the rows is the last number given.
LEMMA NextIsFresh ==
    ASSUME NEW p, NEW n \in Nat, DOMAIN versions = 1 .. n
    PROVE  NextVersion(p) = n + 1
  <1>1. Cardinality(1 .. n) = n
    BY FS_Interval, SMT
  <1> QED  BY <1>1 DEF NextVersion

\* The steps of a publication.
LEMMA PublicationSteps ==
    ASSUME OneHandler, Inv, NEW p \in Pipeline,
           Numbers(p) \/ Branches(p) \/ Stages(p) \/ Commits(p) \/ Records(p)
    PROVE  /\ Inv'
           /\ \A v \in DOMAIN versions :
                 v \in DOMAIN versions' /\ versions'[v] = versions[v]
  <1> USE DEF Inv, Alone, Publishing, Stage, OneHandler
  <1>n. PICK n \in Nat :
            /\ DOMAIN versions = 1 .. n
            /\ \A q \in Pipeline : step[q] \in Publishing => version[q] = n + 1
    BY DEF Numbered
  <1>1. CASE Numbers(p)
    <2>1. /\ step' = [step EXCEPT ![p] = "numbered"]
          /\ version' = [version EXCEPT ![p] = n + 1]
          /\ \A q \in Pipeline : step[q] = "idle"
          /\ UNCHANGED <<versions, commits, head>>
      BY <1>n, <1>1, NextIsFresh DEF Numbers, Goes, Handles, repo
    <2>2. Alone'
      BY <2>1
    <2>3. Numbered'
      BY <1>n, <2>1 DEF Numbered
    <2>4. OnBranch' /\ RowsNameCommits'
      BY <2>1 DEF OnBranch, RowsNameCommits
    <2> QED  BY <2>1, <2>2, <2>3, <2>4
  <1>2. CASE Branches(p)
    <2>1. /\ step' = [step EXCEPT ![p] = "branched"] /\ step[p] = "numbered"
          /\ head' = BranchOf[p]
          /\ UNCHANGED <<version, versions, commits>>
      BY <1>2 DEF Branches, Goes, CreateBranch, ChecksOut
    <2>2. Alone'
      BY <2>1
    <2>3. Numbered'
      BY <1>n, <2>1 DEF Numbered
    <2>4. OnBranch' /\ RowsNameCommits'
      BY <2>1 DEF OnBranch, RowsNameCommits
    <2> QED  BY <2>1, <2>2, <2>3, <2>4
  <1>3. CASE Stages(p)
    <2>1. /\ step' = [step EXCEPT ![p] = "staged"] /\ step[p] = "branched"
          /\ UNCHANGED <<version, versions, commits, head>>
      BY <1>3 DEF Stages, Goes, Add
    <2>2. Alone'
      BY <2>1
    <2>3. Numbered'
      BY <1>n, <2>1 DEF Numbered
    <2>4. OnBranch' /\ RowsNameCommits'
      BY <2>1 DEF OnBranch, RowsNameCommits
    <2> QED  BY <2>1, <2>2, <2>3, <2>4
  <1>4. CASE Commits(p)
    <2>1. /\ step' = [step EXCEPT ![p] = "committed"] /\ step[p] = "staged"
          /\ commits' = commits \cup
                {[pipe |-> p, branch |-> head, version |-> version[p]]}
          /\ UNCHANGED <<version, versions, head>>
      BY <1>4 DEF Commits, Goes, CommitIndex
    <2>2. Alone'
      BY <2>1
    <2>3. Numbered'
      BY <1>n, <2>1 DEF Numbered
    <2>4. OnBranch' /\ RowsNameCommits'
      BY <2>1 DEF OnBranch, RowsNameCommits
    <2> QED  BY <2>1, <2>2, <2>3, <2>4
  <1>5. CASE Records(p)
    <2>1. /\ step' = [step EXCEPT ![p] = "idle"] /\ step[p] = "committed"
          /\ version' = [version EXCEPT ![p] = 0]
          /\ UNCHANGED <<commits, head>>
      BY <1>5 DEF Records, Ends, repo
    <2>2. /\ DOMAIN versions' = 1 .. n + 1
          /\ versions'[n + 1] = [pipe |-> p, branch |-> BranchOf[p]]
          /\ \A v \in 1 .. n : versions'[v] = versions[v]
      <3>1. version[p] = n + 1
        BY <1>n, <2>1
      <3>2. versions' = [v \in (1 .. n) \cup {n + 1} |->
                            IF v = n + 1 THEN [pipe |-> p, branch |-> BranchOf[p]]
                                         ELSE versions[v]]
        BY <1>n, <1>5, <3>1 DEF Records
      <3>3. (1 .. n) \cup {n + 1} = 1 .. n + 1
        OBVIOUS
      <3> QED  BY <3>2, <3>3
    <2>3. Alone'
      BY <2>1
    <2>4. \A q \in Pipeline : step'[q] \notin Publishing
      BY <2>1
    <2>5. Numbered'
      BY <2>1, <2>2, <2>4 DEF Numbered
    <2>6. OnBranch'
      BY <2>1, <2>4 DEF OnBranch
    <2>7. [pipe |-> p, branch |-> BranchOf[p], version |-> n + 1] \in commits
      BY <1>n, <2>1 DEF OnBranch
    <2>8. RowsNameCommits'
      <3> SUFFICES ASSUME NEW v \in 1 .. n + 1
                   PROVE  [pipe |-> versions'[v].pipe, branch |-> versions'[v].branch,
                           version |-> v] \in commits
        BY <2>1, <2>2 DEF RowsNameCommits
      <3>1. CASE v = n + 1
        BY <2>2, <2>7, <3>1
      <3>2. CASE v \in 1 .. n
        BY <1>n, <2>2, <3>2 DEF RowsNameCommits
      <3> QED  BY <3>1, <3>2
    <2> QED  BY <1>n, <2>2, <2>3, <2>5, <2>6, <2>8
  <1> QED  BY <1>1, <1>2, <1>3, <1>4, <1>5

-----------------------------------------------------------------------------

\* The invariant holds from the start.
LEMMA Starts == ASSUME Init PROVE Inv
  <1> USE DEF Init, RepositoryInit, MailInit
  <1>1. DOMAIN versions = 1 .. 0
    OBVIOUS
  <1>2. Numbered
    BY <1>1 DEF Numbered, Publishing
  <1>3. Alone /\ OnBranch /\ RowsNameCommits
    BY DEF Alone, Stage, OnBranch, RowsNameCommits
  <1> QED  BY <1>2, <1>3 DEF Inv

\* And every step keeps it, and keeps the rows of versions.
LEMMA Keeps ==
    ASSUME OneHandler, Inv, [Next]_vars
    PROVE  /\ Inv'
           /\ \A v \in DOMAIN versions :
                 v \in DOMAIN versions' /\ versions'[v] = versions[v]
  <1>1. CASE UNCHANGED vars
    BY <1>1, StillKeeps DEF vars, repo, memory
  <1>2. CASE Next
    BY <1>2, OtherSteps, PublicationSteps DEF Next, Publishes
  <1> QED  BY <1>1, <1>2

\* No row of versions is ever replaced: whatever crashes, escalations and refusals
\* come between counting the rows and adding one, the count stays the last number.
THEOREM NumbersAreFresh == OneHandler => (Spec => VersionsAreKept)
  <1> SUFFICES ASSUME OneHandler PROVE Spec => VersionsAreKept
    OBVIOUS
  <1>1. Init => Inv
    BY Starts
  <1>2. Inv /\ [Next]_vars => Inv'
    BY Keeps
  <1>3. Inv /\ [Next]_vars =>
          [\A v \in DOMAIN versions :
              v \in DOMAIN versions' /\ versions'[v] = versions[v]]_vars
    BY Keeps
  <1> QED  BY <1>1, <1>2, <1>3, PTL DEF Spec, VersionsAreKept

\* Every row names a commit of its pipeline, with its number and on its branch.
THEOREM RowsTellTheTruth == OneHandler => (Spec => []RowsNameCommits)
  <1> SUFFICES ASSUME OneHandler PROVE Spec => []RowsNameCommits
    OBVIOUS
  <1>1. Init => Inv
    BY Starts
  <1>2. Inv /\ [Next]_vars => Inv'
    BY Keeps
  <1>3. Inv => RowsNameCommits
    BY DEF Inv
  <1> QED  BY <1>1, <1>2, <1>3, PTL DEF Spec

-----------------------------------------------------------------------------
(* The mails *)

\* Of what somebody got, all but one mail went with a session that broke off; the one is
\* on its way into emails_sent, or there.
Counted ==
    /\ served \in [Key -> SUBSET Recipient]
    /\ received \in [Key -> [Recipient -> Nat]]
    /\ broken \in [Key -> Nat]
    /\ \A k \in Key, r \in Recipient :
          received[k][r] <= broken[k] + (IF r \in served[k] \/ k \in noted THEN 1 ELSE 0)

\* Each step of a session keeps the count.
LEMMA MailKeeps ==
    ASSUME Counted, NEW k \in Key, NEW some \in SUBSET Recipient,
           \/ Serves(k, some) /\ served[k] = {}
           \/ BreaksOff(k, some) /\ served[k] = {}
           \/ Forgets(k) \/ Notes(k) \/ UNCHANGED mail
    PROVE  Counted'
  <1>1. CASE UNCHANGED mail
    BY <1>1 DEF mail, Counted
  <1>2. ASSUME Reaches(k, some)
        PROVE  /\ received' \in [Key -> [Recipient -> Nat]]
               /\ \A r \in Recipient : received'[k][r] =
                     IF r \in some THEN received[k][r] + 1 ELSE received[k][r]
               /\ \A j \in Key : j # k => received'[j] = received[j]
    <2> DEFINE box == [r \in Recipient |-> IF r \in some THEN received[k][r] + 1
                                           ELSE received[k][r]]
    <2>1. received' = [received EXCEPT ![k] = box]
      BY <1>2 DEF Reaches
    <2>2. box \in [Recipient -> Nat]
      BY DEF Counted
    <2> QED BY <2>1, <2>2 DEF Counted
  <1>3. CASE Serves(k, some) /\ served[k] = {}
    <2>1. /\ k \notin noted /\ Reaches(k, some)
          /\ served' = [served EXCEPT ![k] = some] /\ UNCHANGED <<noted, broken>>
      BY <1>3 DEF Serves
    <2>2. /\ served' \in [Key -> SUBSET Recipient] /\ served'[k] = some
          /\ \A j \in Key : j # k => served'[j] = served[j]
      BY <2>1 DEF Counted
    <2>3. ASSUME NEW j \in Key, NEW r \in Recipient
          PROVE  received'[j][r] <=
                    broken'[j] + (IF r \in served'[j] \/ j \in noted' THEN 1 ELSE 0)
      <3>1. CASE j # k
        BY <1>2, <2>1, <2>2, <3>1 DEF Counted
      <3>2. CASE j = k
        <4>1. received[k][r] \in Nat /\ broken[k] \in Nat /\ received[k][r] <= broken[k]
          BY <1>3, <2>1 DEF Counted
        <4> QED BY <1>2, <2>1, <2>2, <3>2, <4>1
      <3> QED BY <3>1, <3>2
    <2> QED BY <1>2, <2>1, <2>2, <2>3 DEF Counted
  <1>4. CASE BreaksOff(k, some) /\ served[k] = {}
    <2>1. /\ k \notin noted /\ Reaches(k, some)
          /\ broken' = [broken EXCEPT ![k] = @ + 1] /\ UNCHANGED <<noted, served>>
      BY <1>4 DEF BreaksOff
    <2>2. /\ broken' \in [Key -> Nat] /\ broken'[k] = broken[k] + 1
          /\ \A j \in Key : j # k => broken'[j] = broken[j]
      BY <2>1 DEF Counted
    <2>3. ASSUME NEW j \in Key, NEW r \in Recipient
          PROVE  received'[j][r] <=
                    broken'[j] + (IF r \in served'[j] \/ j \in noted' THEN 1 ELSE 0)
      <3>1. CASE j # k
        BY <1>2, <2>1, <2>2, <3>1 DEF Counted
      <3>2. CASE j = k
        <4>1. received[k][r] \in Nat /\ broken[k] \in Nat /\ received[k][r] <= broken[k]
          BY <1>4, <2>1 DEF Counted
        <4> QED BY <1>2, <2>1, <2>2, <3>2, <4>1
      <3> QED BY <3>1, <3>2
    <2> QED BY <1>2, <2>1, <2>2, <2>3 DEF Counted
  <1>5. CASE Forgets(k)
    <2>1. /\ served' = [served EXCEPT ![k] = {}]
          /\ broken' = [broken EXCEPT ![k] = @ + 1]
          /\ UNCHANGED <<noted, received>>
      BY <1>5 DEF Forgets
    <2>2. /\ broken' \in [Key -> Nat] /\ served' \in [Key -> SUBSET Recipient]
          /\ broken'[k] = broken[k] + 1
          /\ \A j \in Key : j # k => broken'[j] = broken[j] /\ served'[j] = served[j]
      BY <2>1 DEF Counted
    <2>3. ASSUME NEW j \in Key, NEW r \in Recipient
          PROVE  received'[j][r] <=
                    broken'[j] + (IF r \in served'[j] \/ j \in noted' THEN 1 ELSE 0)
      <3>1. received[j][r] \in Nat /\ broken[j] \in Nat /\ received[j][r] <= broken[j] + 1
        BY DEF Counted
      <3> QED BY <2>1, <2>2, <3>1 DEF Counted
    <2> QED BY <2>1, <2>2, <2>3 DEF Counted
  <1>6. CASE Notes(k)
    <2>1. /\ noted' = noted \cup {k} /\ served' = [served EXCEPT ![k] = {}]
          /\ UNCHANGED <<received, broken>>
      BY <1>6 DEF Notes
    <2>2. /\ served' \in [Key -> SUBSET Recipient]
          /\ \A j \in Key : j # k => served'[j] = served[j]
      BY <2>1 DEF Counted
    <2>3. ASSUME NEW j \in Key, NEW r \in Recipient
          PROVE  received'[j][r] <=
                    broken'[j] + (IF r \in served'[j] \/ j \in noted' THEN 1 ELSE 0)
      <3>1. received[j][r] \in Nat /\ broken[j] \in Nat /\ received[j][r] <= broken[j] + 1
        BY DEF Counted
      <3> QED BY <2>1, <2>2, <3>1 DEF Counted
    <2> QED BY <2>1, <2>2, <2>3 DEF Counted
  <1> QED BY <1>1, <1>3, <1>4, <1>5, <1>6

\* And no other step touches the mail.
LEMMA CountedStep ==
    ASSUME Counted, [Next]_vars
    PROVE  Counted'
  <1>0. {} \in SUBSET Recipient /\ Key = Pipeline
    BY DeliveryAssumption
  <1>1. CASE UNCHANGED vars
    BY <1>0, <1>1 DEF vars, mail, Counted
  <1>2. ASSUME NEW p \in Pipeline,
               \/ Prepared(p) \/ (\E f \in File : Prepares(p, f))
               \/ ApplyPatches(p) \/ PatchMismatch(p)
               \/ QaPass(p) \/ QaFail(p) \/ QaAgentFails(p)
               \/ Publishes(p) \/ StartsMail(p) \/ MailDone(p)
               \/ Retry(p) \/ RetryAsPublished(p)
        PROVE  Counted'
    <2>1. UNCHANGED mail
      BY <1>2 DEF Prepared, Prepares, ApplyPatches, PatchMismatch, QaPass, QaFail,
                  QaAgentFails, Publishes, Numbers, Branches, Stages, Commits, Escalates, Records, StartsMail,
                  MailDone, Retry, RetryAsPublished
    <2> QED BY <2>1 DEF mail, Counted
  <1>3. ASSUME NEW p \in Pipeline, NotesMail(p) PROVE Counted'
    BY <1>0, <1>3, MailKeeps DEF NotesMail
  <1>4. ASSUME NEW p \in Pipeline, NEW some \in SUBSET Recipient,
               SendsMail(p, some) \/ MailBreaksOff(p, some)
        PROVE  Counted'
    BY <1>0, <1>4, MailKeeps DEF SendsMail, MailBreaksOff
  <1>5. ASSUME NEW p \in Pipeline, Crash(p) PROVE Counted'
    BY <1>0, <1>5, MailKeeps DEF Crash
  <1> QED BY <1>1, <1>2, <1>3, <1>4, <1>5 DEF Next

\* Nobody gets a mail a second time unless a session broke off, however many handlers,
\* retries and crashes there are.
THEOREM RepeatsAreExplained == Spec => []RepeatsNeedABreak
  <1>1. Init => Counted
    BY DEF Init, MailInit, Counted
  <1>2. Counted /\ [Next]_vars => Counted'
    BY CountedStep
  <1>3. Counted => RepeatsNeedABreak
    <2> SUFFICES ASSUME Counted, NEW p \in Pipeline, NEW r \in Recipient
                 PROVE  received[p][r] <= 1 + broken[p]
      BY DEF RepeatsNeedABreak
    <2>1. p \in Key
      BY DeliveryAssumption
    <2>2. received[p][r] \in Nat /\ broken[p] \in Nat /\ received[p][r] <= broken[p] + 1
      BY <2>1 DEF Counted
    <2> QED BY <2>2
  <1> QED  BY <1>1, <1>2, <1>3, PTL DEF Spec

-----------------------------------------------------------------------------
(* What is on the branches *)

\* The pipelines whose work can be in a file.
For(f) == {p \in Pipeline : f \in Carries(p)}

\* And of these, the ones whose work can be in a commit: none, until QA has passed one.
MayShip(f) == {q \in For(f) : For(f) \cap judged # {}}

\* Texts hold the work of pipelines that carry the file; those git has seen hold none
\* before one of these is judged.
Judicious ==
    /\ judged \subseteq Pipeline
    /\ tree \in [File -> SUBSET Pipeline] /\ index \in [File -> SUBSET Pipeline]
    /\ original \in [Pipeline -> SUBSET Pipeline]
    /\ head \in DOMAIN branches /\ "main" \in DOMAIN branches
    /\ \A f \in File : tree[f] \subseteq For(f) /\ index[f] \subseteq MayShip(f)
    /\ \A p \in Pipeline : original[p] \subseteq For(Target[p])
    /\ \A b \in DOMAIN branches : /\ branches[b] \in [File -> SUBSET Pipeline]
                                  /\ \A f \in File : branches[b][f] \subseteq MayShip(f)

Place == {"none", "CITATION_FIND", "VISUAL", "APPROVED", "GIT_PUBLISH", "NEEDS_HUMAN", "FAILED", "COMPLETED"}

\* QA comes first: who publishes, or may go back to publishing, has been judged.
JudgedFirst ==
    /\ state \in [Pipeline -> Place] /\ previous \in [Pipeline -> Place]
    /\ step \in [Pipeline -> Stage]
    /\ \A p \in Pipeline :
          state[p] = "APPROVED" \/ previous[p] = "APPROVED" \/ step[p] \in Publishing
             => p \in judged

\* Steps that leave the repository alone.
LEMMA FilesKept ==
    ASSUME Judicious, UNCHANGED repo, judged \subseteq judged', judged' \subseteq Pipeline,
           \/ UNCHANGED original
           \/ \E p \in Pipeline : original' = [original EXCEPT ![p] = {}]
    PROVE  Judicious'
  <1>1. /\ original' \in [Pipeline -> SUBSET Pipeline]
        /\ \A p \in Pipeline : original'[p] \subseteq For(Target[p])
    BY DEF Judicious
  <1>2. \A f \in File : MayShip(f) \subseteq MayShip(f)'
    BY DEF MayShip, For, Carries
  <1>3. /\ tree' \in [File -> SUBSET Pipeline] /\ index' \in [File -> SUBSET Pipeline]
        /\ \A f \in File : tree'[f] \subseteq For(f) /\ index'[f] \subseteq MayShip(f)'
    BY <1>2 DEF Judicious, repo
  <1>4. ASSUME NEW b \in DOMAIN branches'
        PROVE  /\ branches'[b] \in [File -> SUBSET Pipeline]
               /\ \A f \in File : branches'[b][f] \subseteq MayShip(f)'
    BY <1>2 DEF Judicious, repo
  <1> QED BY <1>1, <1>3, <1>4 DEF Judicious, repo, For, Carries

\* A text of a file is written, by the pipelines that carry it.
LEMMA WritesKeep ==
    ASSUME Judicious, NEW f \in File, NEW text \in SUBSET For(f), WritesText(f, text),
           original' \in [Pipeline -> SUBSET Pipeline],
           \A p \in Pipeline : original'[p] \subseteq For(Target[p]),
           UNCHANGED judged
    PROVE  Judicious'
  <1>1. /\ tree' = [tree EXCEPT ![f] = text] /\ UNCHANGED <<index, branches, head>>
    BY DEF WritesText
  <1>2. text \in SUBSET Pipeline
    BY DEF For
  <1>3. /\ tree' \in [File -> SUBSET Pipeline]
        /\ \A g \in File : tree'[g] \subseteq For(g)
    BY <1>1, <1>2 DEF Judicious
  <1>4. \A g \in File : MayShip(g)' = MayShip(g)
    BY DEF MayShip, For, Carries
  <1> QED BY <1>1, <1>3, <1>4 DEF Judicious, For, Carries

\* A checkout moves what is committed into the tree and the index.
LEMMA CheckoutKeeps ==
    ASSUME Judicious, NEW b, CreateBranch(b), UNCHANGED <<judged, original>>
    PROVE  Judicious'
  <1> DEFINE start == Start(b)
  <1>1. /\ start \in [File -> SUBSET Pipeline]
        /\ \A f \in File : start[f] \subseteq MayShip(f)
    BY DEF Judicious, Start
  <1>2. /\ head' = b
        /\ branches' = [c \in DOMAIN branches \cup {b} |-> IF c = b THEN start ELSE branches[c]]
        /\ index' = [f \in File |-> IF Stays(f, b) THEN index[f] ELSE start[f]]
        /\ tree' = [f \in File |-> IF Stays(f, b) THEN tree[f] ELSE start[f]]
    BY DEF CreateBranch, ChecksOut
  <1> HIDE DEF start
  <1>3. /\ DOMAIN branches' = DOMAIN branches \cup {b} /\ branches'[b] = start
        /\ \A c \in DOMAIN branches : c # b => branches'[c] = branches[c]
    BY <1>2
  <1>4. /\ index' \in [File -> SUBSET Pipeline] /\ tree' \in [File -> SUBSET Pipeline]
        /\ \A f \in File : tree'[f] \subseteq For(f) /\ index'[f] \subseteq MayShip(f)
    BY <1>1, <1>2 DEF Judicious, MayShip
  <1>5. ASSUME NEW c \in DOMAIN branches'
        PROVE  /\ branches'[c] \in [File -> SUBSET Pipeline]
               /\ \A f \in File : branches'[c][f] \subseteq MayShip(f)
    BY <1>1, <1>3 DEF Judicious
  <1>6. head' \in DOMAIN branches' /\ "main" \in DOMAIN branches'
    BY <1>2, <1>3 DEF Judicious
  <1>7. \A f \in File : MayShip(f)' = MayShip(f)
    BY DEF MayShip, For, Carries
  <1> QED BY <1>4, <1>5, <1>6, <1>7 DEF Judicious, For, Carries

\* The state a pipeline is in follows from the one it was in.
LEMMA LeavesJudged ==
    ASSUME JudgedFirst, NEW p \in Pipeline, NEW to \in Place, Leaves(p, to),
           judged \subseteq judged', to = "APPROVED" => p \in judged'
    PROVE  JudgedFirst'
  <1>1. /\ state' = [state EXCEPT ![p] = to] /\ previous' = [previous EXCEPT ![p] = state[p]]
        /\ step' = [step EXCEPT ![p] = "idle"]
    BY DEF Leaves, Ends
  <1>2. "idle" \notin Publishing /\ "idle" \in Stage
    BY DEF Publishing, Stage
  <1>3. /\ state' \in [Pipeline -> Place] /\ previous' \in [Pipeline -> Place]
        /\ step' \in [Pipeline -> Stage]
    BY <1>1, <1>2 DEF JudgedFirst
  <1>4. ASSUME NEW q \in Pipeline,
               state'[q] = "APPROVED" \/ previous'[q] = "APPROVED" \/ step'[q] \in Publishing
        PROVE  q \in judged'
    <2>1. CASE q = p
      BY <1>1, <1>2, <1>4, <2>1 DEF JudgedFirst
    <2>2. CASE q # p
      BY <1>1, <1>4, <2>2 DEF JudgedFirst
    <2> QED BY <2>1, <2>2
  <1> QED BY <1>3, <1>4 DEF JudgedFirst

LEMMA GoesJudged ==
    ASSUME JudgedFirst, NEW p \in Pipeline, NEW to \in Stage,
           step' = [step EXCEPT ![p] = to], UNCHANGED rows,
           judged' = judged, to \in Publishing => p \in judged
    PROVE  JudgedFirst'
  BY DEF JudgedFirst, rows

LEMMA JudiciousStep ==
    ASSUME Judicious, JudgedFirst, [Next]_vars
    PROVE  Judicious' /\ JudgedFirst'
  <1> USE DEF Publishing, Stage, Place
  <1>1. CASE UNCHANGED vars
    <2>1. UNCHANGED <<repo, judged, original, rows, step>>
      BY <1>1 DEF vars, memory
    <2> QED BY <2>1, FilesKept DEF JudgedFirst, rows, Judicious
  <1>2. ASSUME NEW p \in Pipeline, ApplyPatches(p) PROVE Judicious' /\ JudgedFirst'
    <2>1. Target[p] \in File
      BY DeliveryAssumption
    <2>2. /\ step' = [step EXCEPT ![p] = "applied"] /\ UNCHANGED <<rows, judged>>
          /\ original' = [original EXCEPT ![p] = tree[Target[p]]]
          /\ tree' = [tree EXCEPT ![Target[p]] = tree[Target[p]] \cup {p}]
          /\ UNCHANGED <<index, branches, head>>
      BY <1>2 DEF ApplyPatches, Goes, WritesText
    <2>3. JudgedFirst'
      BY <2>2, GoesJudged
    <2>4. p \in For(Target[p])
      BY DEF For, Carries
    <2>5. /\ original' \in [Pipeline -> SUBSET Pipeline]
          /\ \A q \in Pipeline : original'[q] \subseteq For(Target[q])
          /\ tree[Target[p]] \cup {p} \in SUBSET For(Target[p])
      BY <2>1, <2>2, <2>4 DEF Judicious
    <2>6. WritesText(Target[p], tree[Target[p]] \cup {p})
      BY <1>2 DEF ApplyPatches
    <2>7. Judicious'
      BY <2>1, <2>2, <2>5, <2>6, WritesKeep
    <2> QED BY <2>3, <2>7
  <1>3. ASSUME NEW p \in Pipeline,
               \/ Prepared(p) \/ PatchMismatch(p) \/ QaAgentFails(p)
               \/ Escalates(p) \/ MailDone(p)
        PROVE  Judicious' /\ JudgedFirst'
    <2>1. PICK to \in {"VISUAL", "FAILED", "NEEDS_HUMAN", "COMPLETED"} : Leaves(p, to)
      BY <1>3 DEF Prepared, PatchMismatch, QaAgentFails, Escalates, MailDone
    <2>2. UNCHANGED <<repo, judged>>
      BY <1>3 DEF Prepared, PatchMismatch, QaAgentFails, Escalates, MailDone
    <2>3. original' = [original EXCEPT ![p] = {}]
      BY <2>1 DEF Leaves, Ends
    <2>4. Judicious'
      BY <2>2, <2>3, FilesKept DEF Judicious
    <2>5. JudgedFirst'
      BY <2>1, <2>2, LeavesJudged
    <2> QED BY <2>4, <2>5
  <1>4. ASSUME NEW p \in Pipeline, QaPass(p) PROVE Judicious' /\ JudgedFirst'
    <2>1. /\ Leaves(p, "APPROVED") /\ judged' = judged \cup {p} /\ UNCHANGED repo
          /\ original' = [original EXCEPT ![p] = {}]
      BY <1>4 DEF QaPass, Leaves, Ends
    <2>2. Judicious'
      BY <2>1, FilesKept DEF Judicious
    <2>3. JudgedFirst'
      BY <2>1, LeavesJudged
    <2> QED BY <2>2, <2>3
  <1>5. ASSUME NEW p \in Pipeline, QaFail(p) PROVE Judicious' /\ JudgedFirst'
    <2>1. Target[p] \in File
      BY DeliveryAssumption
    <2>2. /\ step' = [step EXCEPT ![p] = "idle"] /\ UNCHANGED <<rows, judged>>
          /\ original' = [original EXCEPT ![p] = {}]
          /\ tree' = [tree EXCEPT ![Target[p]] = original[p]]
          /\ UNCHANGED <<index, branches, head>>
      BY <1>5 DEF QaFail, Ends, WritesText
    <2>3. JudgedFirst'
      BY <2>2, GoesJudged
    <2>4. /\ original' \in [Pipeline -> SUBSET Pipeline]
          /\ \A q \in Pipeline : original'[q] \subseteq For(Target[q])
          /\ original[p] \in SUBSET For(Target[p])
      BY <2>1, <2>2 DEF Judicious
    <2>5. WritesText(Target[p], original[p])
      BY <1>5 DEF QaFail
    <2>6. Judicious'
      BY <2>1, <2>2, <2>4, <2>5, WritesKeep
    <2> QED BY <2>3, <2>6
  <1>6. ASSUME NEW p \in Pipeline, Numbers(p) PROVE Judicious' /\ JudgedFirst'
    <2>1. /\ step' = [step EXCEPT ![p] = "numbered"] /\ state[p] = "APPROVED"
          /\ UNCHANGED <<repo, rows, judged, original>>
      BY <1>6 DEF Numbers, Goes, Handles
    <2>2. p \in judged
      BY <2>1 DEF JudgedFirst
    <2>3. Judicious'
      BY <2>1, FilesKept DEF Judicious
    <2> QED BY <2>1, <2>2, <2>3, GoesJudged
  <1>7. ASSUME NEW p \in Pipeline, Branches(p) PROVE Judicious' /\ JudgedFirst'
    <2>1. /\ step' = [step EXCEPT ![p] = "branched"] /\ step[p] = "numbered"
          /\ CreateBranch(BranchOf[p]) /\ UNCHANGED <<rows, judged, original>>
      BY <1>7 DEF Branches, Goes
    <2>2. p \in judged
      BY <2>1 DEF JudgedFirst
    <2>3. Judicious'
      BY <2>1, CheckoutKeeps
    <2> QED BY <2>1, <2>2, <2>3, GoesJudged
  <1>8. ASSUME NEW p \in Pipeline, Stages(p) PROVE Judicious' /\ JudgedFirst'
    <2>1. /\ step' = [step EXCEPT ![p] = "staged"] /\ step[p] = "branched"
          /\ index' = [f \in File |-> IF f \in Carries(p) THEN tree[f] ELSE index[f]]
          /\ UNCHANGED <<tree, branches, head, rows, judged, original>>
      BY <1>8 DEF Stages, Goes, Add
    <2>2. p \in judged
      BY <2>1 DEF JudgedFirst
    <2>3. ASSUME NEW f \in File, f \in Carries(p) PROVE tree[f] \subseteq MayShip(f)
      BY <2>2, <2>3 DEF Judicious, MayShip, For
    <2>4. /\ index' \in [File -> SUBSET Pipeline]
          /\ \A f \in File : index'[f] \subseteq MayShip(f)
      BY <2>1, <2>3 DEF Judicious
    <2>5. \A f \in File : MayShip(f)' = MayShip(f)
      BY <2>1 DEF MayShip, For, Carries
    <2>6. Judicious'
      BY <2>1, <2>4, <2>5 DEF Judicious, For, Carries
    <2> QED BY <2>1, <2>2, <2>6, GoesJudged
  <1>9. ASSUME NEW p \in Pipeline, Commits(p) PROVE Judicious' /\ JudgedFirst'
    <2>1. /\ step' = [step EXCEPT ![p] = "committed"] /\ step[p] = "staged"
          /\ branches' = [branches EXCEPT ![head] = index]
          /\ UNCHANGED <<tree, index, head, rows, judged, original>>
      BY <1>9 DEF Commits, Goes, CommitIndex
    <2>2. p \in judged
      BY <2>1 DEF JudgedFirst
    <2>3. \A f \in File : MayShip(f)' = MayShip(f)
      BY <2>1 DEF MayShip, For, Carries
    <2>4. Judicious'
      BY <2>1, <2>3 DEF Judicious, For, Carries
    <2> QED BY <2>1, <2>2, <2>4, GoesJudged
  <1>10. ASSUME NEW p \in Pipeline, Records(p) \/ Crash(p) PROVE Judicious' /\ JudgedFirst'
    <2>1. /\ step' = [step EXCEPT ![p] = "idle"]
          /\ original' = [original EXCEPT ![p] = {}]
          /\ UNCHANGED <<repo, rows, judged>>
      BY <1>10 DEF Records, Crash, Ends
    <2>2. Judicious'
      BY <2>1, FilesKept DEF Judicious
    <2> QED BY <2>1, <2>2, GoesJudged
  <1>11. ASSUME NEW p \in Pipeline, StartsMail(p) \/ NotesMail(p)
         PROVE  Judicious' /\ JudgedFirst'
    <2>1. PICK to \in {"mailing", "noted"} : step' = [step EXCEPT ![p] = to]
      BY <1>11 DEF StartsMail, NotesMail, Goes
    <2>2. UNCHANGED <<repo, rows, judged, original>>
      BY <1>11 DEF StartsMail, NotesMail
    <2>3. Judicious'
      BY <2>2, FilesKept DEF Judicious
    <2> QED BY <2>1, <2>2, <2>3, GoesJudged
  <1>12. ASSUME NEW p \in Pipeline, NEW some \in SUBSET Recipient,
                SendsMail(p, some) \/ MailBreaksOff(p, some)
         PROVE  Judicious' /\ JudgedFirst'
    <2>1. UNCHANGED <<repo, judged>>
      BY <1>12 DEF SendsMail, MailBreaksOff
    <2>2. UNCHANGED <<rows, step, original>> \/ Leaves(p, "FAILED")
      BY <1>12 DEF SendsMail, MailBreaksOff, MailAttemptFails, memory
    <2>3. CASE UNCHANGED <<rows, step, original>>
      BY <2>1, <2>3, FilesKept DEF JudgedFirst, rows, Judicious
    <2>4. CASE Leaves(p, "FAILED")
      <3>1. original' = [original EXCEPT ![p] = {}]
        BY <2>4 DEF Leaves, Ends
      <3>2. Judicious'
        BY <2>1, <3>1, FilesKept DEF Judicious
      <3> QED BY <2>1, <2>4, <3>2, LeavesJudged
    <2> QED BY <2>2, <2>3, <2>4
  <1>13. ASSUME NEW p \in Pipeline, Retry(p) \/ RetryAsPublished(p)
         PROVE  Judicious' /\ JudgedFirst'
    <2>1. /\ state' = [state EXCEPT ![p] = previous[p]]
             \/ state' = [state EXCEPT ![p] = "GIT_PUBLISH"]
          /\ previous' = [previous EXCEPT ![p] = state[p]]
          /\ UNCHANGED <<repo, judged, original, step>>
      BY <1>13 DEF Retry, RetryAsPublished, memory
    <2>2. Judicious'
      BY <2>1, FilesKept DEF Judicious
    <2>3. JudgedFirst'
      BY <2>1 DEF JudgedFirst
    <2> QED BY <2>2, <2>3
  <1>14. ASSUME NEW p \in Pipeline, NEW f \in File, Prepares(p, f)
         PROVE  Judicious' /\ JudgedFirst'
    <2>1. /\ f \in Written[p] /\ WritesText(f, tree[f] \cup {p})
          /\ UNCHANGED <<rows, judged, original, step>>
      BY <1>14 DEF Prepares, memory
    <2>2. p \in For(f)
      BY <2>1, DeliveryAssumption DEF For, Carries
    <2>3. tree[f] \cup {p} \in SUBSET For(f)
      BY <2>2 DEF Judicious
    <2>4. /\ original' \in [Pipeline -> SUBSET Pipeline]
          /\ \A q \in Pipeline : original'[q] \subseteq For(Target[q])
      BY <2>1 DEF Judicious
    <2>5. Judicious'
      BY <2>1, <2>3, <2>4, WritesKeep
    <2>6. JudgedFirst'
      BY <2>1 DEF JudgedFirst, rows
    <2> QED BY <2>5, <2>6
  <1> QED BY <1>1, <1>2, <1>3, <1>4, <1>5, <1>6, <1>7, <1>8, <1>9, <1>10, <1>11, <1>12,
             <1>13, <1>14 DEF Next, Publishes

LEMMA JudiciousInit == Init => Judicious /\ JudgedFirst
  <1> SUFFICES ASSUME Init PROVE Judicious /\ JudgedFirst
    OBVIOUS
  <1>1. /\ DOMAIN branches = {"main"} /\ branches["main"] = [f \in File |-> {}]
    BY DEF Init, RepositoryInit
  <1>2. Judicious
    BY <1>1 DEF Init, RepositoryInit, Judicious
  <1>3. JudgedFirst
    BY DEF Init, JudgedFirst, Publishing, Stage, Place
  <1> QED BY <1>2, <1>3

\* Whatever handlers, crashes and retries interleave: whose work is on a branch has been
\* passed by QA, or shares the file it is in with a pipeline that has.
THEOREM OnlySharedLeak == Spec => []OnlySharedFilesLeak
  <1>1. Init => Judicious /\ JudgedFirst
    BY JudiciousInit
  <1>2. Judicious /\ JudgedFirst /\ [Next]_vars => Judicious' /\ JudgedFirst'
    BY JudiciousStep
  <1>3. Judicious => OnlySharedFilesLeak
    <2> SUFFICES ASSUME Judicious, NEW b \in DOMAIN branches, NEW f \in File,
                        NEW q \in branches[b][f] \ judged
                 PROVE  \E p \in judged : f \in Carries(p) \cap Carries(q)
      BY DEF OnlySharedFilesLeak
    <2>1. q \in MayShip(f)
      BY DEF Judicious
    <2> QED BY <2>1 DEF MayShip, For
  <1> QED  BY <1>1, <1>2, <1>3, PTL DEF Spec

-----------------------------------------------------------------------------
(* Types *)

Underway == {"CITATION_FIND", "VISUAL", "APPROVED", "GIT_PUBLISH"}

\* A handler works for a row that is under way, and a row that is stuck has been.
Handled ==
    /\ state \in [Pipeline -> Underway \cup {"NEEDS_HUMAN", "FAILED", "COMPLETED"}]
    /\ previous \in [Pipeline -> Underway \cup {"NEEDS_HUMAN", "FAILED", "none"}]
    /\ step \in [Pipeline -> Stage]
    /\ \A p \in Pipeline : /\ step[p] # "idle" => state[p] \in Underway
                           /\ state[p] \in {"NEEDS_HUMAN", "FAILED"} => previous[p] # "none"

Memory ==
    /\ original \in [Pipeline -> SUBSET Pipeline]
    /\ version \in [Pipeline -> Nat]
    /\ attempt \in [Pipeline -> 1 .. MaxRetries]

\* The numbers handlers have chosen are within the bound.
Chosen == \A p \in Pipeline : step[p] \in Publishing => version[p] \in 1 .. MaxVersions

\* Main can be branched from, and once a handler has staged, it is not checked out.
OffMain ==
    /\ "main" \in DOMAIN branches
    /\ \A p \in Pipeline : step[p] = "staged" => head # "main"

Tables ==
    /\ DOMAIN versions \subseteq 1 .. MaxVersions
    /\ \A v \in DOMAIN versions : versions[v] \in [pipe : Pipeline, branch : Branch]
    /\ commits \subseteq [pipe : Pipeline, branch : Branch, version : Nat]
    /\ judged \subseteq Pipeline
    /\ crashes \in 0 .. MaxCrashes

Typed ==
    RepositoryTypeOK /\ MailTypeOK /\ Handled /\ Memory /\ Chosen /\ OffMain /\ Tables

\* Each git command, and each text that is written.
LEMMA RepositoryTypes ==
    ASSUME RepositoryTypeOK, "main" \in DOMAIN branches,
           \/ UNCHANGED repo
           \/ \E b \in Branch : CreateBranch(b)
           \/ \E files \in SUBSET File : Add(files)
           \/ CommitIndex
           \/ \E f \in File, text \in SUBSET Pipeline : WritesText(f, text)
    PROVE  RepositoryTypeOK' /\ "main" \in DOMAIN branches'
  <1>1. CASE UNCHANGED repo
    BY <1>1 DEF repo, RepositoryTypeOK, Files
  <1>2. CASE \E b \in Branch : CreateBranch(b)
    <2>1. PICK b \in Branch : ChecksOut(b)
      BY <1>2 DEF CreateBranch
    <2> DEFINE start == Start(b)
    <2>2. start \in Files
      BY DEF Start, RepositoryTypeOK
    <2>3. /\ head' = b
          /\ branches' = [c \in DOMAIN branches \cup {b} |->
                             IF c = b THEN start ELSE branches[c]]
          /\ index' = [f \in File |-> IF Stays(f, b) THEN index[f] ELSE start[f]]
          /\ tree' = [f \in File |-> IF Stays(f, b) THEN tree[f] ELSE start[f]]
      BY <2>1 DEF ChecksOut
    <2> HIDE DEF start
    <2>4. index' \in Files /\ tree' \in Files
      BY <2>2, <2>3 DEF RepositoryTypeOK, Files
    <2>5. ASSUME NEW c \in DOMAIN branches' PROVE branches'[c] \in Files
      BY <2>2, <2>3 DEF RepositoryTypeOK
    <2>6. /\ DOMAIN branches' \subseteq Branch \cup {"main"} /\ head' \in DOMAIN branches'
          /\ "main" \in DOMAIN branches'
      BY <2>3 DEF RepositoryTypeOK
    <2> QED BY <2>4, <2>5, <2>6 DEF RepositoryTypeOK
  <1>3. CASE \E files \in SUBSET File : Add(files)
    BY <1>3 DEF Add, RepositoryTypeOK, Files
  <1>4. CASE CommitIndex
    BY <1>4 DEF CommitIndex, RepositoryTypeOK
  <1>5. CASE \E f \in File, text \in SUBSET Pipeline : WritesText(f, text)
    BY <1>5 DEF WritesText, RepositoryTypeOK, Files
  <1> QED BY <1>1, <1>2, <1>3, <1>4, <1>5

\* Each step of a session with the mail server.
LEMMA MailTypes ==
    ASSUME MailTypeOK, NEW k \in Key, NEW some \in SUBSET Recipient,
           Serves(k, some) \/ BreaksOff(k, some) \/ Forgets(k) \/ Notes(k) \/ UNCHANGED mail
    PROVE  MailTypeOK'
  <1>1. ASSUME Reaches(k, some) PROVE received' \in [Key -> [Recipient -> Nat]]
    <2> DEFINE box == [r \in Recipient |-> IF r \in some THEN received[k][r] + 1
                                           ELSE received[k][r]]
    <2>1. received' = [received EXCEPT ![k] = box]
      BY <1>1 DEF Reaches
    <2>2. box \in [Recipient -> Nat]
      BY DEF MailTypeOK
    <2> QED BY <2>1, <2>2 DEF MailTypeOK
  <1>2. CASE Serves(k, some)
    BY <1>1, <1>2 DEF Serves, MailTypeOK
  <1>3. CASE BreaksOff(k, some)
    BY <1>1, <1>3, MailAssumption DEF BreaksOff, MailTypeOK
  <1>4. CASE Forgets(k)
    BY <1>4, MailAssumption DEF Forgets, MailTypeOK
  <1>5. CASE Notes(k)
    BY <1>5 DEF Notes, MailTypeOK
  <1>6. CASE UNCHANGED mail
    BY <1>6 DEF mail, MailTypeOK
  <1> QED BY <1>2, <1>3, <1>4, <1>5, <1>6

\* The number chosen next is within the bound while the table is.
LEMMA NumberTypes ==
    ASSUME Tables, NEW p \in Pipeline, Cardinality(DOMAIN versions) < MaxVersions
    PROVE  NextVersion(p) \in 1 .. MaxVersions
  <1>1. IsFiniteSet(DOMAIN versions)
    BY FS_Interval, FS_Subset, DeliveryAssumption DEF Tables
  <1>2. Cardinality(DOMAIN versions) \in Nat
    BY <1>1, FS_CardinalityType
  <1> QED BY <1>2, DeliveryAssumption DEF NextVersion

\* A handler that moves on, or does not move.
LEMMA GoesTyped ==
    ASSUME Handled, Memory, NEW p \in Pipeline, NEW to \in Stage,
           step' = [step EXCEPT ![p] = to], state[p] \in Underway, UNCHANGED rows
    PROVE  Handled'
  BY DEF Handled, rows, Underway

\* A handler that ends, with or without a transition.
LEMMA EndsTyped ==
    ASSUME Handled, Memory, Chosen, OffMain, "main" \in DOMAIN branches',
           NEW p \in Pipeline, Ends(p),
           \/ UNCHANGED rows
           \/ \E to \in {"VISUAL", "APPROVED", "NEEDS_HUMAN", "FAILED", "COMPLETED"} :
                Leaves(p, to) /\ state[p] \in Underway,
           head' = head
    PROVE  Handled' /\ Memory' /\ Chosen' /\ OffMain'
  <1>1. /\ step' = [step EXCEPT ![p] = "idle"] /\ original' = [original EXCEPT ![p] = {}]
        /\ version' = [version EXCEPT ![p] = 0] /\ attempt' = [attempt EXCEPT ![p] = 1]
    BY DEF Ends
  <1>2. Memory'
    BY <1>1, DeliveryAssumption DEF Memory
  <1>3. Chosen' /\ OffMain'
    BY <1>1 DEF Handled, Memory, Chosen, OffMain, Stage, Publishing
  <1>4. CASE UNCHANGED rows
    BY <1>1, <1>2, <1>3, <1>4 DEF Handled, rows, Stage
  <1>5. CASE \E to \in {"VISUAL", "APPROVED", "NEEDS_HUMAN", "FAILED", "COMPLETED"} :
               Leaves(p, to) /\ state[p] \in Underway
    <2>1. PICK to \in {"VISUAL", "APPROVED", "NEEDS_HUMAN", "FAILED", "COMPLETED"} :
            /\ state' = [state EXCEPT ![p] = to]
            /\ previous' = [previous EXCEPT ![p] = state[p]]
            /\ state[p] \in Underway
      BY <1>5 DEF Leaves
    <2>2. Handled'
      BY <1>1, <2>1 DEF Handled, Stage, Underway
    <2> QED BY <1>2, <1>3, <2>2
  <1> QED BY <1>4, <1>5

LEMMA TypedStep ==
    ASSUME Typed, [Next]_vars
    PROVE  Typed'
  <1> USE DEF Publishing, Stage, Underway
  <1>0. /\ Key = Pipeline /\ {} \in SUBSET Recipient
        /\ \A p \in Pipeline : /\ Target[p] \in File /\ BranchOf[p] \in Branch
                                /\ Carries(p) \in SUBSET File
    BY DeliveryAssumption DEF Carries
  <1>1. CASE UNCHANGED vars
    <2>1. /\ UNCHANGED repo /\ UNCHANGED mail
          /\ UNCHANGED <<state, previous, step, original, version, attempt, versions, commits,
                         judged, crashes, head>>
      BY <1>1 DEF vars, rows, memory, repo
    <2>2. RepositoryTypeOK' /\ MailTypeOK' /\ "main" \in DOMAIN branches'
      BY <1>0, <2>1, RepositoryTypes DEF Typed, OffMain, mail, MailTypeOK
    <2>3. Handled' /\ Memory' /\ Chosen' /\ OffMain' /\ Tables'
      BY <2>1, <2>2 DEF Typed, Handled, Memory, Chosen, OffMain, Tables
    <2> QED BY <2>2, <2>3 DEF Typed
  <1>2. ASSUME NEW p \in Pipeline, ApplyPatches(p) PROVE Typed'
    <2>1. /\ UNCHANGED <<mail, rows, version, attempt, versions, commits, judged, crashes, head>>
          /\ step' = [step EXCEPT ![p] = "applied"] /\ state[p] = "VISUAL"
          /\ original' = [original EXCEPT ![p] = tree[Target[p]]]
          /\ WritesText(Target[p], tree[Target[p]] \cup {p})
      BY <1>2 DEF ApplyPatches, Handles, Goes, WritesText
    <2>2. tree[Target[p]] \in SUBSET Pipeline
      BY <1>0 DEF Typed, RepositoryTypeOK, Files
    <2>3. RepositoryTypeOK' /\ "main" \in DOMAIN branches'
      BY <1>0, <2>1, <2>2, RepositoryTypes DEF Typed, OffMain
    <2>4. MailTypeOK' /\ Tables'
      BY <2>1 DEF Typed, mail, MailTypeOK, Tables
    <2>5. Handled'
      BY <2>1, GoesTyped DEF Typed
    <2>6. Memory' /\ Chosen' /\ OffMain'
      BY <2>1, <2>2, <2>3 DEF Typed, Handled, Memory, Chosen, OffMain
    <2> QED BY <2>3, <2>4, <2>5, <2>6 DEF Typed
  <1>3. ASSUME NEW p \in Pipeline,
               \/ Prepared(p) \/ PatchMismatch(p) \/ QaPass(p) \/ QaAgentFails(p)
               \/ Escalates(p) \/ MailDone(p)
        PROVE  Typed'
    <2>1. PICK to \in {"VISUAL", "APPROVED", "NEEDS_HUMAN", "FAILED", "COMPLETED"} :
              Leaves(p, to)
      BY <1>3 DEF Prepared, PatchMismatch, QaPass, QaAgentFails, Escalates, MailDone
    <2>2. Ends(p)
      BY <2>1 DEF Leaves
    <2>3. state[p] \in Underway
      BY <1>3 DEF Typed, Handled, Prepared, PatchMismatch, QaPass, QaAgentFails, Escalates,
                  MailDone, Handles
    <2>4. /\ UNCHANGED repo /\ UNCHANGED mail /\ UNCHANGED <<versions, commits, crashes>>
          /\ judged' \in {judged, judged \cup {p}}
      BY <1>3 DEF Prepared, PatchMismatch, QaPass, QaAgentFails, Escalates, MailDone
    <2>5. RepositoryTypeOK' /\ "main" \in DOMAIN branches' /\ head' = head
      BY <2>4, RepositoryTypes DEF Typed, OffMain, repo
    <2>6. MailTypeOK' /\ Tables'
      BY <2>4 DEF Typed, mail, MailTypeOK, Tables
    <2>7. Handled' /\ Memory' /\ Chosen' /\ OffMain'
      BY <2>1, <2>2, <2>3, <2>5, EndsTyped DEF Typed
    <2> QED BY <2>5, <2>6, <2>7 DEF Typed
  <1>4. ASSUME NEW p \in Pipeline, QaFail(p) \/ Records(p) \/ Crash(p) PROVE Typed'
    <2>1. Ends(p) /\ UNCHANGED rows
      BY <1>4 DEF QaFail, Records, Crash
    <2>2. original[p] \in SUBSET Pipeline
      BY DEF Typed, Memory
    <2>3. UNCHANGED repo \/ WritesText(Target[p], original[p])
      BY <1>4 DEF QaFail, Records, Crash
    <2>4. RepositoryTypeOK' /\ "main" \in DOMAIN branches' /\ head' = head
      BY <1>0, <2>2, <2>3, RepositoryTypes DEF Typed, OffMain, repo, WritesText
    <2>5. MailTypeOK'
      BY <1>0, <1>4, MailTypes DEF Typed, QaFail, Records, Crash
    <2>6. Tables'
      <3>1. CASE QaFail(p)
        BY <3>1 DEF QaFail, Typed, Tables
      <3>2. CASE Records(p)
        BY <1>0, <3>2 DEF Records, Typed, Tables, Chosen
      <3>3. CASE Crash(p)
        BY <3>3, DeliveryAssumption DEF Crash, Typed, Tables
      <3> QED BY <1>4, <3>1, <3>2, <3>3
    <2>7. Handled' /\ Memory' /\ Chosen' /\ OffMain'
      BY <2>1, <2>4, EndsTyped DEF Typed
    <2> QED BY <2>4, <2>5, <2>6, <2>7 DEF Typed
  <1>5. ASSUME NEW p \in Pipeline, Numbers(p) PROVE Typed'
    <2>1. /\ UNCHANGED repo /\ UNCHANGED <<rows, original, attempt>>
          /\ UNCHANGED mail /\ UNCHANGED <<versions, commits, judged, crashes>>
          /\ step' = [step EXCEPT ![p] = "numbered"] /\ state[p] = "APPROVED"
          /\ version' = [version EXCEPT ![p] = NextVersion(p)]
          /\ Cardinality(DOMAIN versions) < MaxVersions
      BY <1>5 DEF Numbers, Handles, Goes
    <2>2. NextVersion(p) \in 1 .. MaxVersions /\ NextVersion(p) \in Nat
      BY <2>1, NumberTypes, DeliveryAssumption DEF Typed
    <2>3. RepositoryTypeOK' /\ "main" \in DOMAIN branches' /\ head' = head
      BY <2>1, RepositoryTypes DEF Typed, OffMain, repo
    <2>4. MailTypeOK' /\ Tables'
      BY <2>1 DEF Typed, mail, MailTypeOK, Tables
    <2>5. Handled'
      BY <2>1, GoesTyped DEF Typed
    <2>6. Memory' /\ Chosen'
      BY <2>1, <2>2 DEF Typed, Handled, Memory, Chosen
    <2>7. OffMain'
      BY <2>1, <2>3 DEF Typed, Handled, OffMain
    <2> QED BY <2>3, <2>4, <2>5, <2>6, <2>7 DEF Typed
  <1>6. ASSUME NEW p \in Pipeline, Branches(p) \/ Stages(p) \/ Commits(p) PROVE Typed'
    <2>1. /\ UNCHANGED <<rows, original, version, attempt>>
          /\ UNCHANGED mail /\ UNCHANGED <<versions, judged, crashes>>
          /\ step[p] \in {"numbered", "branched", "staged"}
      BY <1>6 DEF Branches, Stages, Commits
    <2>2. PICK to \in {"branched", "staged", "committed"} : step' = [step EXCEPT ![p] = to]
      BY <1>6 DEF Branches, Stages, Commits, Goes
    <2>3. RepositoryTypeOK' /\ "main" \in DOMAIN branches'
      BY <1>0, <1>6, RepositoryTypes DEF Typed, OffMain, Branches, Stages, Commits
    <2>4. Handled'
      BY <2>1, <2>2, GoesTyped DEF Typed, Handled
    <2>5. Memory' /\ Chosen'
      BY <2>1, <2>2 DEF Typed, Handled, Memory, Chosen
    <2>6. /\ head' # head => head' # "main"
          /\ to = "staged" => head' # "main"
      <3>1. CASE Branches(p)
        <4>1. head' = BranchOf[p]
          BY <3>1 DEF Branches, CreateBranch, ChecksOut
        <4> QED BY <1>0, <4>1, RepositoryAssumption
      <3>2. CASE Stages(p)
        BY <3>2 DEF Stages, Add
      <3>3. CASE Commits(p)
        <4>1. head' = head /\ step' = [step EXCEPT ![p] = "committed"]
          BY <3>3 DEF Commits, CommitIndex, Goes
        <4>2. to = "committed"
          BY <2>2, <4>1 DEF Typed, Handled
        <4> QED BY <4>1, <4>2
      <3> QED BY <1>6, <3>1, <3>2, <3>3
    <2>7. OffMain'
      BY <2>2, <2>3, <2>6 DEF Typed, Handled, OffMain
    <2>8. Tables'
      <3>1. CASE Branches(p) \/ Stages(p)
        BY <3>1 DEF Branches, Stages, Typed, Tables
      <3>2. CASE Commits(p)
        <4>1. /\ commits' = commits \cup {[pipe |-> p, branch |-> head, version |-> version[p]]}
              /\ step[p] = "staged"
          BY <3>2 DEF Commits
        <4>2. head \in Branch
          BY <4>1 DEF Typed, OffMain, RepositoryTypeOK
        <4> QED BY <2>1, <4>1, <4>2 DEF Typed, Memory, Tables
      <3> QED BY <1>6, <3>1, <3>2
    <2>9. MailTypeOK'
      BY <2>1 DEF Typed, mail, MailTypeOK
    <2> QED BY <2>3, <2>4, <2>5, <2>7, <2>8, <2>9 DEF Typed
  <1>7. ASSUME NEW p \in Pipeline, StartsMail(p) \/ NotesMail(p) PROVE Typed'
    <2>1. PICK to \in {"mailing", "noted"} : step' = [step EXCEPT ![p] = to]
      BY <1>7 DEF StartsMail, NotesMail, Goes
    <2>2. /\ UNCHANGED repo /\ UNCHANGED <<rows, original, version, attempt>>
          /\ UNCHANGED <<versions, commits, judged, crashes>>
          /\ state[p] \in Underway
      BY <1>7 DEF StartsMail, NotesMail, Handles, Typed, Handled
    <2>3. RepositoryTypeOK' /\ "main" \in DOMAIN branches' /\ head' = head
      BY <2>2, RepositoryTypes DEF Typed, OffMain, repo
    <2>4. MailTypeOK'
      BY <1>0, <1>7, MailTypes DEF Typed, StartsMail, NotesMail
    <2>5. Handled'
      BY <2>1, <2>2, GoesTyped DEF Typed
    <2>6. Memory' /\ Chosen' /\ OffMain' /\ Tables'
      BY <2>1, <2>2, <2>3 DEF Typed, Handled, Memory, Chosen, OffMain, Tables
    <2> QED BY <2>3, <2>4, <2>5, <2>6 DEF Typed
  <1>8. ASSUME NEW p \in Pipeline, NEW some \in SUBSET Recipient,
               SendsMail(p, some) \/ MailBreaksOff(p, some)
        PROVE  Typed'
    <2>1. /\ UNCHANGED repo /\ UNCHANGED <<versions, commits, judged, crashes>>
          /\ step[p] = "mailing"
          /\ UNCHANGED <<rows, memory>> \/ MailAttemptFails(p)
      BY <1>8 DEF SendsMail, MailBreaksOff
    <2>2. RepositoryTypeOK' /\ "main" \in DOMAIN branches' /\ head' = head
      BY <2>1, RepositoryTypes DEF Typed, OffMain, repo
    <2>3. MailTypeOK'
      BY <1>0, <1>8, MailTypes DEF Typed, SendsMail, MailBreaksOff
    <2>4. state[p] \in Underway
      BY <2>1 DEF Typed, Handled
    <2>5. Tables'
      BY <2>1 DEF Typed, Tables
    <2>6. Handled' /\ Memory' /\ Chosen' /\ OffMain'
      <3>1. CASE Leaves(p, "FAILED")
        <4>1. Ends(p)
          BY <3>1 DEF Leaves
        <4> QED BY <2>2, <2>4, <3>1, <4>1, EndsTyped DEF Typed
      <3>2. ASSUME UNCHANGED <<state, previous, step, original, version>>,
                   attempt' \in [Pipeline -> 1 .. MaxRetries]
            PROVE  Handled' /\ Memory' /\ Chosen' /\ OffMain'
        BY <2>2, <3>2 DEF Typed, Handled, Memory, Chosen, OffMain
      <3>3. CASE UNCHANGED <<rows, memory>>
        BY <3>2, <3>3 DEF rows, memory, Typed, Memory
      <3>4. CASE /\ attempt[p] < MaxRetries
                 /\ attempt' = [attempt EXCEPT ![p] = @ + 1]
                 /\ UNCHANGED <<rows, step, original, version>>
        <4>1. attempt' \in [Pipeline -> 1 .. MaxRetries]
          BY <3>4, DeliveryAssumption DEF Typed, Memory
        <4> QED BY <3>2, <3>4, <4>1 DEF rows
      <3> QED BY <2>1, <3>1, <3>3, <3>4 DEF MailAttemptFails
    <2> QED BY <2>2, <2>3, <2>5, <2>6 DEF Typed
  <1>9. ASSUME NEW p \in Pipeline, Retry(p) \/ RetryAsPublished(p) PROVE Typed'
    <2>1. /\ UNCHANGED repo /\ UNCHANGED mail
          /\ UNCHANGED <<step, original, version, attempt, versions, commits, judged, crashes>>
          /\ state[p] \in {"NEEDS_HUMAN", "FAILED"}
          /\ \/ state' = [state EXCEPT ![p] = previous[p]]
             \/ state' = [state EXCEPT ![p] = "GIT_PUBLISH"]
          /\ previous' = [previous EXCEPT ![p] = state[p]]
      BY <1>9 DEF Retry, RetryAsPublished, memory
    <2>2. RepositoryTypeOK' /\ "main" \in DOMAIN branches' /\ head' = head
      BY <2>1, RepositoryTypes DEF Typed, OffMain, repo
    <2>3. Handled'
      BY <2>1 DEF Typed, Handled
    <2>4. MailTypeOK' /\ Memory' /\ Chosen' /\ OffMain' /\ Tables'
      BY <2>1, <2>2 DEF Typed, mail, MailTypeOK, Memory, Chosen, OffMain, Tables
    <2> QED BY <2>2, <2>3, <2>4 DEF Typed
  <1>10. ASSUME NEW p \in Pipeline, NEW f \in File, Prepares(p, f) PROVE Typed'
    <2>1. /\ WritesText(f, tree[f] \cup {p})
          /\ UNCHANGED <<mail, rows, memory, versions, commits, judged, crashes, head>>
      BY <1>10 DEF Prepares, WritesText
    <2>2. tree[f] \cup {p} \in SUBSET Pipeline
      BY DEF Typed, RepositoryTypeOK, Files
    <2>3. RepositoryTypeOK' /\ "main" \in DOMAIN branches'
      BY <2>1, <2>2, RepositoryTypes DEF Typed, OffMain
    <2>4. MailTypeOK' /\ Tables'
      BY <2>1 DEF Typed, mail, MailTypeOK, Tables
    <2>5. Handled' /\ Memory' /\ Chosen' /\ OffMain'
      BY <2>1, <2>3 DEF Typed, Handled, Memory, Chosen, OffMain, rows, memory
    <2> QED BY <2>3, <2>4, <2>5 DEF Typed
  <1> QED BY <1>1, <1>2, <1>3, <1>4, <1>5, <1>6, <1>7, <1>8, <1>9, <1>10 DEF Next, Publishes

\* Every variable keeps its type.  It takes that a stuck row remembers where it was, so
\* that a retry leads to a state, that a chosen number is within the bound until its row
\* is written, and that no commit goes to main whoever checks out what in between.
THEOREM TypeCorrect == Spec => []TypeOK
  <1>1. Init => Typed
    <2> SUFFICES ASSUME Init PROVE Typed
      OBVIOUS
    <2>1. RepositoryTypeOK
      BY DEF Init, RepositoryInit, RepositoryTypeOK, Files
    <2>2. MailTypeOK
      BY MailAssumption DEF Init, MailInit, MailTypeOK
    <2>3. Handled /\ Memory
      BY DeliveryAssumption DEF Init, Handled, Memory, Stage, Underway
    <2>4. Chosen /\ OffMain
      BY DEF Init, RepositoryInit, Chosen, OffMain, Publishing
    <2>5. Tables
      BY DeliveryAssumption DEF Init, Tables
    <2> QED BY <2>1, <2>2, <2>3, <2>4, <2>5 DEF Typed
  <1>2. Typed /\ [Next]_vars => Typed'
    BY TypedStep
  <1>3. Typed => TypeOK
    BY DEF Typed, TypeOK, Handled, Memory, Tables, Underway, Stage, Publishing
  <1> QED  BY <1>1, <1>2, <1>3, PTL DEF Spec

=============================================================================
