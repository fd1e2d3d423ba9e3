---------------------------- MODULE StateMachine ----------------------------
(***************************************************************************)
(* The transition table of livingbook/state/machine.py and the arithmetic *)
(* StateMachine.transition performs on a pipeline row.  No variables: the  *)
(* modules that own a row (PipelineDriver) or a table of rows              *)
(* (Orchestrator) apply these operators to it.                             *)
(***************************************************************************)
EXTENDS Integers

CONSTANT MaxRevisions       \* qa.max_revisions, 2 in config.yaml

ASSUME MaxRevisionsAssumption == MaxRevisions \in Nat

\* The states on the happy path, and the off-ramps.
OnPath ==
    { "DISCOVERED", "COLLECTED", "DEDUPLICATED", "SYNTHESIZED",
      "VERDICT_PENDING", "VERDICT_APPROVED", "DRAFTED", "TECHNICAL_VERIFY",
      "CITATION_AUDIT", "CITATION_FIND", "CITATION_VERIFY",
      "EDITORIAL_VERIFY", "VISUAL", "BOOK_QA", "APPROVED", "GIT_PUBLISH",
      "EMAIL", "COMPLETED" }

State == OnPath \cup {"MONITORING", "REJECTED", "NEEDS_HUMAN", "FAILED"}

Terminal == {"COMPLETED", "REJECTED", "FAILED"}
Parked   == {"MONITORING", "NEEDS_HUMAN"}

\* What StateMachine.active() selects: the rows a tick can move.
Active == State \ (Terminal \cup Parked)

Anywhere == {"FAILED", "NEEDS_HUMAN"}

\* TRANSITIONS: the edges of the table; COMPLETED and REJECTED have none.
CanTransition(from, to) ==
    \/ from = "DISCOVERED" /\ to \in {"COLLECTED", "REJECTED"} \cup Anywhere
    \/ from = "COLLECTED" /\ to \in {"DEDUPLICATED", "REJECTED"} \cup Anywhere
    \/ /\ from = "DEDUPLICATED"
       /\ to \in {"SYNTHESIZED", "REJECTED"} \cup Anywhere
    \/ /\ from = "SYNTHESIZED"
       /\ to \in {"VERDICT_PENDING", "REJECTED"} \cup Anywhere
    \/ /\ from = "VERDICT_PENDING"
       /\ to \in {"VERDICT_APPROVED", "MONITORING", "REJECTED"} \cup Anywhere
    \/ /\ from = "VERDICT_APPROVED"
       /\ to \in {"DRAFTED", "REJECTED"} \cup Anywhere
    \/ from = "DRAFTED" /\ to \in {"TECHNICAL_VERIFY"} \cup Anywhere
    \/ /\ from = "TECHNICAL_VERIFY"
       /\ to \in {"CITATION_AUDIT", "DRAFTED"} \cup Anywhere
    \/ /\ from = "CITATION_AUDIT"
       /\ to \in {"CITATION_FIND", "EDITORIAL_VERIFY"} \cup Anywhere
    \/ /\ from = "CITATION_FIND"
       /\ to \in {"CITATION_VERIFY", "DRAFTED"} \cup Anywhere
    \/ /\ from = "CITATION_VERIFY"
       /\ to \in {"EDITORIAL_VERIFY", "CITATION_FIND", "DRAFTED"} \cup Anywhere
    \/ from = "EDITORIAL_VERIFY" /\ to \in {"VISUAL", "DRAFTED"} \cup Anywhere
    \/ from = "VISUAL" /\ to \in {"BOOK_QA"} \cup Anywhere
    \/ from = "BOOK_QA" /\ to \in {"APPROVED", "DRAFTED"} \cup Anywhere
    \/ from = "APPROVED" /\ to \in {"GIT_PUBLISH"} \cup Anywhere
    \/ from = "GIT_PUBLISH" /\ to \in {"EMAIL", "COMPLETED"} \cup Anywhere
    \/ from = "EMAIL" /\ to \in {"COMPLETED"} \cup Anywhere
    \/ /\ from = "MONITORING"
       /\ to \in {"VERDICT_PENDING", "REJECTED"} \cup Anywhere
    \/ from = "NEEDS_HUMAN" /\ to \in State \ {"COMPLETED"}
    \/ /\ from = "FAILED"
       /\ to \in (OnPath \ {"COMPLETED"}) \cup {"REJECTED", "NEEDS_HUMAN"}

BackwardEdges ==
    { <<"TECHNICAL_VERIFY", "DRAFTED">>, <<"CITATION_VERIFY", "CITATION_FIND">>,
      <<"CITATION_VERIFY", "DRAFTED">>, <<"EDITORIAL_VERIFY", "DRAFTED">>,
      <<"BOOK_QA", "DRAFTED">>, <<"CITATION_FIND", "DRAFTED">> }

\* Mutant: the budget is counted down.
RevisionsLeft(from, to, revisions) ==
    IF <<from, to>> \in BackwardEdges THEN revisions - 1 ELSE revisions

\* Mutant: a draft sent back for an unsupported claim is not counted.
RevisionsForgotten(from, to, revisions) ==
    IF <<from, to>> \in BackwardEdges /\ from # "CITATION_FIND"
    THEN revisions + 1
    ELSE revisions

\* The counter transition() stores: one more for work sent backwards.
RevisionsAfter(from, to, revisions) ==
    IF <<from, to>> \in BackwardEdges THEN revisions + 1 ELSE revisions

\* Mutant: the limit is compared with the count before this revision.
LandingLate(from, to, revisions) ==
    IF <<from, to>> \in BackwardEdges /\ revisions > MaxRevisions
    THEN "NEEDS_HUMAN"
    ELSE to

\* The state transition() stores: a backward edge over the limit is diverted.
Landing(from, to, revisions) ==
    IF <<from, to>> \in BackwardEdges /\ revisions + 1 > MaxRevisions
    THEN "NEEDS_HUMAN"
    ELSE to

=============================================================================
