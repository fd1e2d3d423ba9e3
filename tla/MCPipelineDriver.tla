-------------------------- MODULE MCPipelineDriver --------------------------
(* Instances of PipelineDriver for TLC. *)
EXTENDS PipelineDriver

\* Operators never name a state.
NoFrom == {}

\* A state no handler is registered for, and the states past APPROVED, which no
\* edge out of it but an operator's choice leads to.
SomeFrom == {"DISCOVERED", "GIT_PUBLISH", "EMAIL"}

=============================================================================
