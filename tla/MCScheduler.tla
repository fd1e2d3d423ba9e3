---------------------------- MODULE MCScheduler ----------------------------
(* Instances of Scheduler for TLC. *)
EXTENDS Scheduler

CONSTANTS p1, p2, p3, here, there, elsewhere

\* All daemons on one machine.
OneHost == [p \in Process |-> here]

\* Each daemon on a machine of its own, as with a shared database file.
OwnHosts == [p \in Process |-> CASE p = p1 -> here
                                 [] p = p2 -> there
                                 [] OTHER  -> elsewhere]

=============================================================================
