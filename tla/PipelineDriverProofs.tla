------------------------ MODULE PipelineDriverProofs ------------------------
(***************************************************************************)
(* Theorems about PipelineDriver, for every revision limit, every bound    *)
(* and, where a theorem says so, every choice of states operators name.    *)
(*                                                                         *)
(* The invariants that carry the proofs (StepPlace, Gated, Authorised,     *)
(* Remembered) are defined, with their reasons, in PipelineDriver.  Each   *)
(* has one lemma here saying that every action preserves it.               *)
(***************************************************************************)
EXTENDS PipelineDriver, TLAPS

\* Naming none of these leaves the gates in force: every path to git_commit still
\* passes through technical verification.
KeepsGates == FromStates \cap PastTechnical = {}

\* Naming only these leaves the decision to the verdict as well.
KeepsDecision ==
    FromStates \subseteq {"SYNTHESIZED", "VERDICT_PENDING", "GIT_PUBLISH", "EMAIL"}

\* The four answers of the verdict agent and where Next sends them.
Outcome(d, to) == \/ d = "ignore" /\ to = "REJECTED"
                  \/ d = "monitor" /\ to = "MONITORING"
                  \/ d = "gated" /\ to = "NEEDS_HUMAN"
                  \/ d = "plain" /\ to = "VERDICT_APPROVED"

-----------------------------------------------------------------------------
(* Type correctness *)

\* A legal transition keeps the row well typed.
LEMMA MovesTypes ==
    ASSUME TypeOK, NEW to, Moves(to)
    PROVE  state' \in State /\ previous' \in State /\ revisions' \in Nat
  BY MaxRevisionsAssumption
     DEF Moves, TypeOK, CanTransition, Landing, RevisionsAfter,
         State, OnPath, Anywhere

\* So does a result handed to transition(), legal or not.
LEMMA SubmitsTypes ==
    ASSUME TypeOK, NEW to, Submits(to)
    PROVE  /\ state' \in State
           /\ previous' \in State \cup {"none"}
           /\ revisions' \in Nat
  <1>1. CASE CanTransition(state, to)
    BY <1>1, MovesTypes DEF Submits
  <1>2. CASE ~CanTransition(state, to)
    BY <1>2 DEF Submits, row, TypeOK
  <1> QED  BY <1>1, <1>2

\* And an operator's retry, whatever it names.
LEMMA RetriesTypes ==
    ASSUME TypeOK, NEW target, NEW n \in Nat, Retries(target, n)
    PROVE  state' \in State /\ previous' \in State /\ revisions' \in Nat
  BY MaxRevisionsAssumption
     DEF Retries, TypeOK, CanTransition, Landing, RevisionsAfter,
         State, OnPath, Anywhere

\* The decision and the human's approval settle whether a draft is sanctioned.
LEMMA SanctionedType ==
    ASSUME TypeOK
    PROVE  Sanctioned \in BOOLEAN
  BY Zenon DEF Sanctioned, TypeOK

\* Every step keeps every variable well typed.
LEMMA TypeStep ==
    ASSUME TypeOK, [Next]_vars
    PROVE  TypeOK'
  <1> USE DEF TypeOK, row, data, memory, world, history, Handles, Stored
  <1>1. CASE NoHandler
    BY <1>1, MovesTypes DEF NoHandler
  <1>2. CASE AgentFails
    BY <1>2, MovesTypes DEF AgentFails
  <1>3. CASE VerdictPending
    BY <1>3, SubmitsTypes DEF VerdictPending
  <1>4. CASE ClusterMissing
    BY <1>4, SubmitsTypes DEF ClusterMissing
  <1>5. CASE Draft
    BY <1>5, SubmitsTypes DEF Draft, Superseded, Layers
  <1>6. CASE DraftWithoutVerdict
    BY <1>6, SubmitsTypes DEF DraftWithoutVerdict
  <1>7. CASE NothingToVerify
    BY <1>7, SubmitsTypes DEF NothingToVerify
  <1>8. CASE TechnicalPass
    BY <1>8, SubmitsTypes DEF TechnicalPass, Reviewed, Superseded, Gates, Layers, Pending
  <1>9. CASE TechnicalBlockers
    BY <1>9, SubmitsTypes DEF TechnicalBlockers, Reviewed, Superseded, Gates, Layers, Pending
  <1>10. CASE CitationFind
    BY <1>10, SubmitsTypes DEF CitationFind
  <1>11. CASE CitationsVerified
    BY <1>11, SubmitsTypes DEF CitationsVerified, Passes, Gates
  <1>12. CASE ClaimsUnsupported
    BY <1>12, SubmitsTypes DEF ClaimsUnsupported, SendsBack, Gates
  <1>13. CASE EditorialPass
    BY <1>13, SubmitsTypes DEF EditorialPass, Passes, Gates
  <1>14. CASE EditorialBlockers
    BY <1>14, SubmitsTypes DEF EditorialBlockers, SendsBack, Gates
  <1>15. CASE Visual
    BY <1>15, SubmitsTypes DEF Visual
  <1>16. CASE ApplyPatches
    BY <1>16 DEF ApplyPatches, Patched, Layers, Gates
  <1>17. CASE QaPass
    BY <1>17, SubmitsTypes DEF QaPass, Passes, Gates
  <1>18. CASE QaFail
    BY <1>18, SubmitsTypes DEF QaFail, SendsBack, Gates
  <1>19. CASE QaAgentFails
    BY <1>19, MovesTypes DEF QaAgentFails
  <1>20. CASE Approve
    BY <1>20, SubmitsTypes DEF Approve
  <1>21. CASE PublishRefused
    BY <1>21, SubmitsTypes DEF PublishRefused
  <1>22. CASE GitCommit
    <2>1. [gates |-> passed, text |-> tree, sanctioned |-> Sanctioned]
            \in [gates : SUBSET Gates, text : SUBSET Layers, sanctioned : BOOLEAN]
      BY SanctionedType
    <2> QED  BY <1>22, <2>1 DEF GitCommit
  <1>23. CASE PublishInterrupted
    BY <1>23, SubmitsTypes DEF PublishInterrupted
  <1>24. CASE PublishDone
    BY <1>24, SubmitsTypes DEF PublishDone
  <1>25. CASE SendMail
    BY <1>25 DEF SendMail
  <1>26. CASE MailDone
    BY <1>26, SubmitsTypes DEF MailDone
  <1>27. CASE MailSkipped
    BY <1>27, SubmitsTypes DEF MailSkipped
  <1>28. CASE Complete
    BY <1>28, SubmitsTypes DEF Complete
  <1>29. CASE HumanApproves
    BY <1>29, MovesTypes DEF HumanApproves
  <1>30. CASE HumanRejects
    BY <1>30, MovesTypes DEF HumanRejects
  <1>31. CASE ResumeFailed
    BY <1>31, RetriesTypes DEF ResumeFailed, Retries
  <1>32. CASE MonitorSweep
    BY <1>32, MovesTypes DEF MonitorSweep
  <1>33. CASE Crash
    BY <1>33, DriverAssumption DEF Crash, Layers
  <1>34. ASSUME NEW found \in BOOLEAN, CitationAudit(found)
         PROVE  TypeOK'
    BY <1>34, SubmitsTypes DEF CitationAudit
  <1>35. ASSUME NEW d, NEW to, Verdict(d, to), Outcome(d, to)
         PROVE  TypeOK'
    BY <1>35, SubmitsTypes DEF Verdict, Outcome, Decisions
  <1>36. ASSUME NEW from \in FromStates \cup {previous},
                NEW reset \in {FALSE, ResetsRevisions}, Retry(from, reset)
         PROVE  TypeOK'
    <2>1. (IF reset THEN 0 ELSE revisions) \in Nat
      OBVIOUS
    <2>2. CASE Retries(RetryTarget(from), IF reset THEN 0 ELSE revisions)
      <3>1. state' \in State /\ previous' \in State /\ revisions' \in Nat
        BY <2>1, <2>2, RetriesTypes
      <3> QED  BY <2>2, <3>1 DEF Retries
    <2>3. CASE ~Retries(RetryTarget(from), IF reset THEN 0 ELSE revisions)
      BY <1>36, <2>3 DEF Retry
    <2> QED  BY <2>2, <2>3
  <1>37. CASE UNCHANGED vars
    BY <1>37 DEF vars
  <1> QED
    BY <1>1, <1>2, <1>3, <1>4, <1>5, <1>6, <1>7, <1>8, <1>9, <1>10, <1>11,
       <1>12, <1>13, <1>14, <1>15, <1>16, <1>17, <1>18, <1>19, <1>20, <1>21,
       <1>22, <1>23, <1>24, <1>25, <1>26, <1>27, <1>28, <1>29, <1>30, <1>31,
       <1>32, <1>33, <1>34, <1>35, <1>36, <1>37
    DEF Next, Driver, Operator, Outcome

\* Type correctness: every reachable row, memory and history is well formed.
THEOREM TypeCorrect == Spec => []TypeOK
  <1>1. ASSUME Init PROVE TypeOK
    <2>1. state \in State /\ previous \in State \cup {"none"} /\ revisions \in Nat
      BY <1>1 DEF Init, State, OnPath
    <2>2. verdict \in Decisions /\ original \subseteq Layers /\ tree \subseteq Layers
      BY <1>1 DEF Init, Decisions, Layers
    <2>3. crashes \in 0 .. MaxCrashes
      BY <1>1, DriverAssumption DEF Init
    <2>4. /\ feedback \subseteq Gates /\ passed \subseteq Gates /\ rejected \subseteq Gates
          /\ commits = {}
      BY <1>1 DEF Init
    <2>5. /\ touched \in BOOLEAN /\ patches \in BOOLEAN /\ gaps \in BOOLEAN
          /\ mailed \in BOOLEAN /\ approved \in BOOLEAN
      BY <1>1 DEF Init
    <2>6. step \in {"idle", "applied", "committed", "mailed"}
      BY <1>1 DEF Init
    <2> QED  BY <2>1, <2>2, <2>3, <2>4, <2>5, <2>6 DEF TypeOK
  <1>2. TypeOK /\ [Next]_vars => TypeOK'
    BY TypeStep
  <1> QED  BY <1>1, <1>2, PTL DEF Spec

-----------------------------------------------------------------------------
(* Only a verified draft is committed *)

\* Every step keeps the certificates of the draft with the states that need them.
LEMMA GatedStep ==
    ASSUME KeepsGates, TypeOK, StepPlace, Gated, [Next]_vars
    PROVE  StepPlace' /\ Gated'
  <1> USE DEF KeepsGates, Gated, Certified, StepPlace, TypeOK, PastTechnical,
              PastCitation, PastEditorial, PastQa, Moves, Submits,
              CanTransition, Landing, RevisionsAfter, BackwardEdges, Anywhere,
              Handles, Stored, Superseded, Reviewed, Passes, SendsBack,
              Retries, Unattended, OperatorActs, RetryTarget, ResumeTarget,
              row, data, memory, world, history, Gates, Layers
  <1>1. CASE NoHandler
    BY <1>1 DEF NoHandler
  <1>2. CASE AgentFails
    BY <1>2 DEF AgentFails
  <1>3. CASE VerdictPending
    BY <1>3 DEF VerdictPending
  <1>4. CASE ClusterMissing
    BY <1>4 DEF ClusterMissing
  <1>5. CASE Draft
    BY <1>5 DEF Draft
  <1>6. CASE DraftWithoutVerdict
    BY <1>6 DEF DraftWithoutVerdict
  <1>7. CASE NothingToVerify
    BY <1>7 DEF NothingToVerify
  <1>8. CASE TechnicalPass
    BY <1>8 DEF TechnicalPass
  <1>9. CASE TechnicalBlockers
    BY <1>9 DEF TechnicalBlockers
  <1>10. CASE CitationFind
    BY <1>10 DEF CitationFind
  <1>11. CASE CitationsVerified
    BY <1>11 DEF CitationsVerified
  <1>12. CASE ClaimsUnsupported
    BY <1>12 DEF ClaimsUnsupported
  <1>13. CASE EditorialPass
    BY <1>13 DEF EditorialPass
  <1>14. CASE EditorialBlockers
    BY <1>14 DEF EditorialBlockers
  <1>15. CASE Visual
    BY <1>15 DEF Visual
  <1>16. CASE ApplyPatches
    BY <1>16 DEF ApplyPatches, Patched
  <1>17. CASE QaPass
    BY <1>17 DEF QaPass
  <1>18. CASE QaFail
    BY <1>18 DEF QaFail
  <1>19. CASE QaAgentFails
    BY <1>19 DEF QaAgentFails
  <1>20. CASE Approve
    BY <1>20 DEF Approve
  <1>21. CASE PublishRefused
    BY <1>21 DEF PublishRefused
  <1>22. CASE GitCommit
    BY <1>22 DEF GitCommit
  <1>23. CASE PublishInterrupted
    BY <1>23 DEF PublishInterrupted
  <1>24. CASE PublishDone
    BY <1>24 DEF PublishDone
  <1>25. CASE SendMail
    BY <1>25 DEF SendMail
  <1>26. CASE MailDone
    BY <1>26 DEF MailDone
  <1>27. CASE MailSkipped
    BY <1>27 DEF MailSkipped
  <1>28. CASE Complete
    BY <1>28 DEF Complete
  <1>29. CASE HumanApproves
    BY <1>29 DEF HumanApproves
  <1>30. CASE HumanRejects
    BY <1>30 DEF HumanRejects
  <1>31. CASE ResumeFailed
    BY <1>31 DEF ResumeFailed
  <1>32. CASE MonitorSweep
    BY <1>32 DEF MonitorSweep
  <1>33. CASE Crash
    BY <1>33 DEF Crash
  <1>34. ASSUME NEW found \in BOOLEAN, CitationAudit(found)
         PROVE  StepPlace' /\ Gated'
    BY <1>34 DEF CitationAudit
  <1>35. ASSUME NEW d, NEW to, Verdict(d, to), Outcome(d, to)
         PROVE  StepPlace' /\ Gated'
    BY <1>35 DEF Verdict, Outcome
  <1>36. ASSUME NEW from \in FromStates \cup {previous},
                NEW reset \in {FALSE, ResetsRevisions}, Retry(from, reset)
         PROVE  StepPlace' /\ Gated'
    BY <1>36 DEF Retry
  <1>37. CASE UNCHANGED vars
    BY <1>37 DEF vars
  <1> QED
    BY <1>1, <1>2, <1>3, <1>4, <1>5, <1>6, <1>7, <1>8, <1>9, <1>10, <1>11,
       <1>12, <1>13, <1>14, <1>15, <1>16, <1>17, <1>18, <1>19, <1>20, <1>21,
       <1>22, <1>23, <1>24, <1>25, <1>26, <1>27, <1>28, <1>29, <1>30, <1>31,
       <1>32, <1>33, <1>34, <1>35, <1>36, <1>37
    DEF Next, Driver, Operator, Outcome

\* git_commit is the only thing that adds a commit.
LEMMA CommitsOnlyByGit ==
    ASSUME [Next]_vars, ~GitCommit
    PROVE  UNCHANGED commits
  <1> USE DEF Handles, Stored, Superseded, Reviewed, Passes, SendsBack,
              Retries, Unattended, OperatorActs, RetryTarget, ResumeTarget,
              row, data, memory, world, history
  <1>1. CASE NoHandler
    BY <1>1 DEF NoHandler
  <1>2. CASE AgentFails
    BY <1>2 DEF AgentFails
  <1>3. CASE VerdictPending
    BY <1>3 DEF VerdictPending
  <1>4. CASE ClusterMissing
    BY <1>4 DEF ClusterMissing
  <1>5. CASE Draft
    BY <1>5 DEF Draft
  <1>6. CASE DraftWithoutVerdict
    BY <1>6 DEF DraftWithoutVerdict
  <1>7. CASE NothingToVerify
    BY <1>7 DEF NothingToVerify
  <1>8. CASE TechnicalPass
    BY <1>8 DEF TechnicalPass
  <1>9. CASE TechnicalBlockers
    BY <1>9 DEF TechnicalBlockers
  <1>10. CASE CitationFind
    BY <1>10 DEF CitationFind
  <1>11. CASE CitationsVerified
    BY <1>11 DEF CitationsVerified
  <1>12. CASE ClaimsUnsupported
    BY <1>12 DEF ClaimsUnsupported
  <1>13. CASE EditorialPass
    BY <1>13 DEF EditorialPass
  <1>14. CASE EditorialBlockers
    BY <1>14 DEF EditorialBlockers
  <1>15. CASE Visual
    BY <1>15 DEF Visual
  <1>16. CASE ApplyPatches
    BY <1>16 DEF ApplyPatches
  <1>17. CASE QaPass
    BY <1>17 DEF QaPass
  <1>18. CASE QaFail
    BY <1>18 DEF QaFail
  <1>19. CASE QaAgentFails
    BY <1>19 DEF QaAgentFails
  <1>20. CASE Approve
    BY <1>20 DEF Approve
  <1>21. CASE PublishRefused
    BY <1>21 DEF PublishRefused
  <1>22. CASE GitCommit
    BY <1>22
  <1>23. CASE PublishInterrupted
    BY <1>23 DEF PublishInterrupted
  <1>24. CASE PublishDone
    BY <1>24 DEF PublishDone
  <1>25. CASE SendMail
    BY <1>25 DEF SendMail
  <1>26. CASE MailDone
    BY <1>26 DEF MailDone
  <1>27. CASE MailSkipped
    BY <1>27 DEF MailSkipped
  <1>28. CASE Complete
    BY <1>28 DEF Complete
  <1>29. CASE HumanApproves
    BY <1>29 DEF HumanApproves
  <1>30. CASE HumanRejects
    BY <1>30 DEF HumanRejects
  <1>31. CASE ResumeFailed
    BY <1>31 DEF ResumeFailed
  <1>32. CASE MonitorSweep
    BY <1>32 DEF MonitorSweep
  <1>33. CASE Crash
    BY <1>33 DEF Crash
  <1>34. ASSUME NEW found \in BOOLEAN, CitationAudit(found)
         PROVE  UNCHANGED commits
    BY <1>34 DEF CitationAudit
  <1>35. ASSUME NEW d, NEW to, Verdict(d, to), Outcome(d, to)
         PROVE  UNCHANGED commits
    BY <1>35 DEF Verdict, Outcome
  <1>36. ASSUME NEW from \in FromStates \cup {previous},
                NEW reset \in {FALSE, ResetsRevisions}, Retry(from, reset)
         PROVE  UNCHANGED commits
    BY <1>36 DEF Retry
  <1>37. CASE UNCHANGED vars
    BY <1>37 DEF vars
  <1> QED
    BY <1>1, <1>2, <1>3, <1>4, <1>5, <1>6, <1>7, <1>8, <1>9, <1>10, <1>11,
       <1>12, <1>13, <1>14, <1>15, <1>16, <1>17, <1>18, <1>19, <1>20, <1>21,
       <1>22, <1>23, <1>24, <1>25, <1>26, <1>27, <1>28, <1>29, <1>30, <1>31,
       <1>32, <1>33, <1>34, <1>35, <1>36, <1>37
    DEF Next, Driver, Operator, Outcome

\* What is added to the commits carries the certificates of the draft in hand.
LEMMA ShippingStep ==
    ASSUME TypeOK, Gated, OnlyVerifiedShips, [Next]_vars
    PROVE  OnlyVerifiedShips'
  <1>1. CASE GitCommit
    <2>1. passed = Gates /\ "draft" \in tree
      BY <1>1 DEF GitCommit, Handles, Gated, Certified, TypeOK, Gates,
                  PastTechnical, PastCitation, PastEditorial, PastQa
    <2> QED  BY <1>1, <2>1 DEF GitCommit, OnlyVerifiedShips
  <1>2. CASE ~GitCommit
    <2>1. UNCHANGED commits
      BY <1>2, CommitsOnlyByGit
    <2> QED  BY <2>1 DEF OnlyVerifiedShips
  <1> QED  BY <1>1, <1>2

\* The gates hold end to end: as long as operators name no state past technical
\* verification, nothing is committed but the text every gate passed.
THEOREM VerifiedShipping == KeepsGates => (Spec => []OnlyVerifiedShips)
  <1> SUFFICES ASSUME KeepsGates PROVE Spec => []OnlyVerifiedShips
    OBVIOUS
  <1>1. Init => StepPlace /\ Gated /\ OnlyVerifiedShips
    BY DEF Init, StepPlace, Gated, Certified, OnlyVerifiedShips,
           PastTechnical, PastCitation, PastEditorial, PastQa
  <1>2. TypeOK /\ StepPlace /\ Gated /\ OnlyVerifiedShips /\ [Next]_vars
          => (StepPlace /\ Gated /\ OnlyVerifiedShips)'
    BY GatedStep, ShippingStep
  <1> QED  BY <1>1, <1>2, TypeCorrect, PTL DEF Spec

-----------------------------------------------------------------------------
(* Only a sanctioned draft is committed *)

\* Every step keeps the states that change the manuscript under a verdict that
\* allows it.
LEMMA AuthorisedStep ==
    ASSUME KeepsDecision, TypeOK, StepPlace, Authorised, [Next]_vars
    PROVE  Authorised'
  <1> USE DEF KeepsDecision, Authorised, Sanctioned, ChangesManuscript,
              Writing, Decisions, StepPlace, TypeOK, Moves, Submits,
              CanTransition, Landing, RevisionsAfter, BackwardEdges, Anywhere,
              Handles, Stored, Superseded, Reviewed, Passes, SendsBack,
              Retries, Unattended, OperatorActs, RetryTarget, ResumeTarget,
              row, data, memory, world, history, State, OnPath
  <1>1. CASE NoHandler
    BY <1>1 DEF NoHandler
  <1>2. CASE AgentFails
    BY <1>2 DEF AgentFails
  <1>3. CASE VerdictPending
    BY <1>3 DEF VerdictPending
  <1>4. CASE ClusterMissing
    BY <1>4 DEF ClusterMissing
  <1>5. CASE Draft
    BY <1>5 DEF Draft
  <1>6. CASE DraftWithoutVerdict
    BY <1>6 DEF DraftWithoutVerdict
  <1>7. CASE NothingToVerify
    BY <1>7 DEF NothingToVerify
  <1>8. CASE TechnicalPass
    BY <1>8 DEF TechnicalPass
  <1>9. CASE TechnicalBlockers
    BY <1>9 DEF TechnicalBlockers
  <1>10. CASE CitationFind
    BY <1>10 DEF CitationFind
  <1>11. CASE CitationsVerified
    BY <1>11 DEF CitationsVerified
  <1>12. CASE ClaimsUnsupported
    BY <1>12 DEF ClaimsUnsupported
  <1>13. CASE EditorialPass
    BY <1>13 DEF EditorialPass
  <1>14. CASE EditorialBlockers
    BY <1>14 DEF EditorialBlockers
  <1>15. CASE Visual
    BY <1>15 DEF Visual
  <1>16. CASE ApplyPatches
    BY <1>16 DEF ApplyPatches
  <1>17. CASE QaPass
    BY <1>17 DEF QaPass
  <1>18. CASE QaFail
    BY <1>18 DEF QaFail
  <1>19. CASE QaAgentFails
    BY <1>19 DEF QaAgentFails
  <1>20. CASE Approve
    BY <1>20 DEF Approve
  <1>21. CASE PublishRefused
    BY <1>21 DEF PublishRefused
  <1>22. CASE GitCommit
    BY <1>22 DEF GitCommit
  <1>23. CASE PublishInterrupted
    BY <1>23 DEF PublishInterrupted
  <1>24. CASE PublishDone
    BY <1>24 DEF PublishDone
  <1>25. CASE SendMail
    BY <1>25 DEF SendMail
  <1>26. CASE MailDone
    BY <1>26 DEF MailDone
  <1>27. CASE MailSkipped
    BY <1>27 DEF MailSkipped
  <1>28. CASE Complete
    BY <1>28 DEF Complete
  <1>29. CASE HumanApproves
    BY <1>29 DEF HumanApproves
  <1>30. CASE HumanRejects
    BY <1>30 DEF HumanRejects
  <1>31. CASE ResumeFailed
    BY <1>31 DEF ResumeFailed
  <1>32. CASE MonitorSweep
    BY <1>32 DEF MonitorSweep
  <1>33. CASE Crash
    BY <1>33 DEF Crash
  <1>34. ASSUME NEW found \in BOOLEAN, CitationAudit(found)
         PROVE  Authorised'
    BY <1>34 DEF CitationAudit
  <1>35. ASSUME NEW d, NEW to, Verdict(d, to), Outcome(d, to)
         PROVE  Authorised'
    BY <1>35 DEF Verdict, Outcome
  <1>36. ASSUME NEW from \in FromStates \cup {previous},
                NEW reset \in {FALSE, ResetsRevisions}, Retry(from, reset)
         PROVE  Authorised'
    BY <1>36 DEF Retry
  <1>37. CASE UNCHANGED vars
    BY <1>37 DEF vars
  <1> QED
    BY <1>1, <1>2, <1>3, <1>4, <1>5, <1>6, <1>7, <1>8, <1>9, <1>10, <1>11,
       <1>12, <1>13, <1>14, <1>15, <1>16, <1>17, <1>18, <1>19, <1>20, <1>21,
       <1>22, <1>23, <1>24, <1>25, <1>26, <1>27, <1>28, <1>29, <1>30, <1>31,
       <1>32, <1>33, <1>34, <1>35, <1>36, <1>37
    DEF Next, Driver, Operator, Outcome

\* KeepsDecision is the stronger of the two conditions on operators.
LEMMA DecisionKeepsGates == KeepsDecision => KeepsGates
  BY DEF KeepsDecision, KeepsGates, PastTechnical

\* A commit made where the verdict allows it is a sanctioned one.
LEMMA SanctionStep ==
    ASSUME Authorised, OnlySanctionedShips, [Next]_vars
    PROVE  OnlySanctionedShips'
  <1>1. CASE GitCommit
    <2>1. Sanctioned
      BY <1>1 DEF GitCommit, Handles, Authorised, Writing
    <2> QED  BY <1>1, <2>1 DEF GitCommit, OnlySanctionedShips
  <1>2. CASE ~GitCommit
    <2>1. UNCHANGED commits
      BY <1>2, CommitsOnlyByGit
    <2> QED  BY <2>1 DEF OnlySanctionedShips
  <1> QED  BY <1>1, <1>2

\* The invariant behind the remaining theorems.
LEMMA DriverInvariant ==
    KeepsDecision => (Spec => [](TypeOK /\ StepPlace /\ Gated /\ Authorised))
  <1> SUFFICES ASSUME KeepsDecision
               PROVE  Spec => [](TypeOK /\ StepPlace /\ Gated /\ Authorised)
    OBVIOUS
  <1>1. Init => StepPlace /\ Gated /\ Authorised
    BY DEF Init, StepPlace, Gated, Certified, Authorised, Writing,
           PastTechnical, PastCitation, PastEditorial, PastQa
  <1>2. TypeOK /\ StepPlace /\ Gated /\ Authorised /\ [Next]_vars
          => (StepPlace /\ Gated /\ Authorised)'
    BY GatedStep, AuthorisedStep, DecisionKeepsGates
  <1> QED  BY <1>1, <1>2, TypeCorrect, PTL DEF Spec

\* The human gate holds: as long as operators only send work back to the verdict,
\* or on from a publication, every commit rests on a verdict that allowed it.
THEOREM SanctionedShipping == KeepsDecision => (Spec => []OnlySanctionedShips)
  <1> SUFFICES ASSUME KeepsDecision PROVE Spec => []OnlySanctionedShips
    OBVIOUS
  <1>1. Init => OnlySanctionedShips
    BY DEF Init, OnlySanctionedShips
  <1>2. Authorised /\ OnlySanctionedShips /\ [Next]_vars => OnlySanctionedShips'
    BY SanctionStep
  <1> QED  BY <1>1, <1>2, DriverInvariant, PTL DEF Spec

-----------------------------------------------------------------------------
(* The Writer sees the citation gate's refusals *)

\* Every step keeps a refusal of the citation gate in the stored findings.
LEMMA RememberedStep ==
    ASSUME KeepsDecision, TypeOK, StepPlace, Authorised, Remembered, [Next]_vars
    PROVE  Remembered'
  <1> USE DEF KeepsDecision, Authorised, Sanctioned, Remembered, Writing,
              Pending, Rewrites, Gates, Decisions, StepPlace, TypeOK, Moves,
              Submits, CanTransition, Landing, RevisionsAfter, BackwardEdges,
              Anywhere, Handles, Stored, Superseded, Reviewed, Passes,
              SendsBack, Retries, Unattended, OperatorActs, RetryTarget,
              ResumeTarget, row, data, memory, world, history
  <1>1. CASE NoHandler
    BY <1>1 DEF NoHandler
  <1>2. CASE AgentFails
    BY <1>2 DEF AgentFails
  <1>3. CASE VerdictPending
    BY <1>3 DEF VerdictPending
  <1>4. CASE ClusterMissing
    BY <1>4 DEF ClusterMissing
  <1>5. CASE Draft
    BY <1>5 DEF Draft
  <1>6. CASE DraftWithoutVerdict
    BY <1>6 DEF DraftWithoutVerdict
  <1>7. CASE NothingToVerify
    BY <1>7 DEF NothingToVerify
  <1>8. CASE TechnicalPass
    BY <1>8 DEF TechnicalPass
  <1>9. CASE TechnicalBlockers
    BY <1>9 DEF TechnicalBlockers
  <1>10. CASE CitationFind
    BY <1>10 DEF CitationFind
  <1>11. CASE CitationsVerified
    BY <1>11 DEF CitationsVerified
  <1>12. CASE ClaimsUnsupported
    BY <1>12 DEF ClaimsUnsupported
  <1>13. CASE EditorialPass
    BY <1>13 DEF EditorialPass
  <1>14. CASE EditorialBlockers
    BY <1>14 DEF EditorialBlockers
  <1>15. CASE Visual
    BY <1>15 DEF Visual
  <1>16. CASE ApplyPatches
    BY <1>16 DEF ApplyPatches
  <1>17. CASE QaPass
    BY <1>17 DEF QaPass
  <1>18. CASE QaFail
    BY <1>18 DEF QaFail
  <1>19. CASE QaAgentFails
    BY <1>19 DEF QaAgentFails
  <1>20. CASE Approve
    BY <1>20 DEF Approve
  <1>21. CASE PublishRefused
    BY <1>21 DEF PublishRefused
  <1>22. CASE GitCommit
    BY <1>22 DEF GitCommit
  <1>23. CASE PublishInterrupted
    BY <1>23 DEF PublishInterrupted
  <1>24. CASE PublishDone
    BY <1>24 DEF PublishDone
  <1>25. CASE SendMail
    BY <1>25 DEF SendMail
  <1>26. CASE MailDone
    BY <1>26 DEF MailDone
  <1>27. CASE MailSkipped
    BY <1>27 DEF MailSkipped
  <1>28. CASE Complete
    BY <1>28 DEF Complete
  <1>29. CASE HumanApproves
    BY <1>29 DEF HumanApproves
  <1>30. CASE HumanRejects
    BY <1>30 DEF HumanRejects
  <1>31. CASE ResumeFailed
    BY <1>31 DEF ResumeFailed
  <1>32. CASE MonitorSweep
    BY <1>32 DEF MonitorSweep
  <1>33. CASE Crash
    BY <1>33 DEF Crash
  <1>34. ASSUME NEW found \in BOOLEAN, CitationAudit(found)
         PROVE  Remembered'
    BY <1>34 DEF CitationAudit
  <1>35. ASSUME NEW d, NEW to, Verdict(d, to), Outcome(d, to)
         PROVE  Remembered'
    BY <1>35 DEF Verdict, Outcome
  <1>36. ASSUME NEW from \in FromStates \cup {previous},
                NEW reset \in {FALSE, ResetsRevisions}, Retry(from, reset)
         PROVE  Remembered'
    BY <1>36 DEF Retry
  <1>37. CASE UNCHANGED vars
    BY <1>37 DEF vars
  <1> QED
    BY <1>1, <1>2, <1>3, <1>4, <1>5, <1>6, <1>7, <1>8, <1>9, <1>10, <1>11,
       <1>12, <1>13, <1>14, <1>15, <1>16, <1>17, <1>18, <1>19, <1>20, <1>21,
       <1>22, <1>23, <1>24, <1>25, <1>26, <1>27, <1>28, <1>29, <1>30, <1>31,
       <1>32, <1>33, <1>34, <1>35, <1>36, <1>37
    DEF Next, Driver, Operator, Outcome

\* A draft whose claims could not be sourced is never verified again as it is.
THEOREM RefusalsRewritten == KeepsDecision => (Spec => CitationRefusalsAreRewritten)
  <1> SUFFICES ASSUME KeepsDecision PROVE Spec => CitationRefusalsAreRewritten
    OBVIOUS
  <1>1. Init => Remembered
    BY DEF Init, Remembered
  <1>2. TypeOK /\ StepPlace /\ Authorised /\ Remembered /\ [Next]_vars => Remembered'
    BY RememberedStep
  <1>3. Remembered' => [state = "DRAFTED" /\ state' = "TECHNICAL_VERIFY"
                           => "citation" \notin rejected']_vars
    BY DEF Remembered
  <1> QED
    BY <1>1, <1>2, <1>3, DriverInvariant, PTL
    DEF Spec, CitationRefusalsAreRewritten

-----------------------------------------------------------------------------
(* The driver keeps the abstract promise *)

\* Every step is a step of Publication, or changes nothing it can see.
LEMMA PublicationStep ==
    ASSUME KeepsDecision, TypeOK, StepPlace, Gated, Authorised, [Next]_vars
    PROVE  [Contract!PubNext]_(Contract!pubVars)
  <1> USE DEF Contract!PubNext, Contract!pubVars, Contract!Decide,
              Contract!Write, Contract!Certify, Contract!Refuse,
              Contract!Ship, Contract!Before, Contract!Precedes,
              Contract!Gates, Gated, Certified, Authorised, Sanctioned,
              ChangesManuscript, Writing, StepPlace, TypeOK, PastTechnical,
              PastCitation, PastEditorial, PastQa, Decisions, Gates, Moves,
              Submits, CanTransition, Landing, RevisionsAfter, BackwardEdges,
              Anywhere, Handles, Stored, Superseded, Reviewed, Passes,
              SendsBack, Retries, Unattended, OperatorActs, RetryTarget,
              ResumeTarget, row, data, memory, world, history
  <1>1. CASE NoHandler
    BY <1>1 DEF NoHandler
  <1>2. CASE AgentFails
    BY <1>2 DEF AgentFails
  <1>3. CASE VerdictPending
    BY <1>3 DEF VerdictPending
  <1>4. CASE ClusterMissing
    BY <1>4 DEF ClusterMissing
  <1>5. CASE Draft
    BY <1>5 DEF Draft
  <1>6. CASE DraftWithoutVerdict
    BY <1>6 DEF DraftWithoutVerdict
  <1>7. CASE NothingToVerify
    BY <1>7 DEF NothingToVerify
  <1>8. CASE TechnicalPass
    BY <1>8 DEF TechnicalPass
  <1>9. CASE TechnicalBlockers
    BY <1>9 DEF TechnicalBlockers
  <1>10. CASE CitationFind
    BY <1>10 DEF CitationFind
  <1>11. CASE CitationsVerified
    BY <1>11 DEF CitationsVerified
  <1>12. CASE ClaimsUnsupported
    BY <1>12 DEF ClaimsUnsupported
  <1>13. CASE EditorialPass
    BY <1>13 DEF EditorialPass
  <1>14. CASE EditorialBlockers
    BY <1>14 DEF EditorialBlockers
  <1>15. CASE Visual
    BY <1>15 DEF Visual
  <1>16. CASE ApplyPatches
    BY <1>16 DEF ApplyPatches
  <1>17. CASE QaPass
    BY <1>17 DEF QaPass
  <1>18. CASE QaFail
    BY <1>18 DEF QaFail
  <1>19. CASE QaAgentFails
    BY <1>19 DEF QaAgentFails
  <1>20. CASE Approve
    BY <1>20 DEF Approve
  <1>21. CASE PublishRefused
    BY <1>21 DEF PublishRefused
  <1>22. CASE GitCommit
    BY <1>22 DEF GitCommit
  <1>23. CASE PublishInterrupted
    BY <1>23 DEF PublishInterrupted
  <1>24. CASE PublishDone
    BY <1>24 DEF PublishDone
  <1>25. CASE SendMail
    BY <1>25 DEF SendMail
  <1>26. CASE MailDone
    BY <1>26 DEF MailDone
  <1>27. CASE MailSkipped
    BY <1>27 DEF MailSkipped
  <1>28. CASE Complete
    BY <1>28 DEF Complete
  <1>29. CASE HumanApproves
    BY <1>29 DEF HumanApproves
  <1>30. CASE HumanRejects
    BY <1>30 DEF HumanRejects
  <1>31. CASE ResumeFailed
    BY <1>31 DEF ResumeFailed
  <1>32. CASE MonitorSweep
    BY <1>32 DEF MonitorSweep
  <1>33. CASE Crash
    BY <1>33 DEF Crash
  <1>34. ASSUME NEW found \in BOOLEAN, CitationAudit(found)
         PROVE  [Contract!PubNext]_(Contract!pubVars)
    BY <1>34 DEF CitationAudit
  <1>35. ASSUME NEW d, NEW to, Verdict(d, to), Outcome(d, to)
         PROVE  [Contract!PubNext]_(Contract!pubVars)
    BY <1>35 DEF Verdict, Outcome
  <1>36. ASSUME NEW from \in FromStates \cup {previous},
                NEW reset \in {FALSE, ResetsRevisions}, Retry(from, reset)
         PROVE  [Contract!PubNext]_(Contract!pubVars)
    BY <1>36 DEF Retry
  <1>37. CASE UNCHANGED vars
    BY <1>37 DEF vars
  <1> QED
    BY <1>1, <1>2, <1>3, <1>4, <1>5, <1>6, <1>7, <1>8, <1>9, <1>10, <1>11,
       <1>12, <1>13, <1>14, <1>15, <1>16, <1>17, <1>18, <1>19, <1>20, <1>21,
       <1>22, <1>23, <1>24, <1>25, <1>26, <1>27, <1>28, <1>29, <1>30, <1>31,
       <1>32, <1>33, <1>34, <1>35, <1>36, <1>37
    DEF Next, Driver, Operator, Outcome

\* Refinement: seen through its certificates, its verdict and its commits, the
\* driver is the protocol of Publication.
THEOREM DriverImplementsPublication == KeepsDecision => (Spec => ImplementsPublication)
  <1> SUFFICES ASSUME KeepsDecision PROVE Spec => ImplementsPublication
    OBVIOUS
  <1>1. Init => Contract!PubInit
    BY DEF Init, Contract!PubInit, Sanctioned
  <1>2. TypeOK /\ StepPlace /\ Gated /\ Authorised /\ [Next]_vars
          => [Contract!PubNext]_(Contract!pubVars)
    BY PublicationStep
  <1> QED
    BY <1>1, <1>2, DriverInvariant, PTL
    DEF Spec, ImplementsPublication, Contract!PubSpec

=============================================================================
