---------------------------- MODULE Orchestrator ----------------------------
(***************************************************************************)
(* livingbook/orchestrator/orchestrator.py over the pipelines table: jobs  *)
(* of the daemon, cycles run by hand and operators, all at the same time.  *)
(*                                                                         *)
(* A job reads a list of rows once and then steps through it, awaiting a   *)
(* handler for each: the row a step starts from, and writes back from, is  *)
(* as old as the list.  Only fail() reads the row again.  An               *)
(* IllegalTransition is not caught by the jobs and ends the whole pass.    *)
(*                                                                         *)
(* What a handler does besides its transition is PipelineDriver's matter;  *)
(* here it is the set of states it may submit.  A job that dies between    *)
(* two steps leaves the rows as they are, like one that is never run.      *)
(***************************************************************************)
EXTENDS StateMachine, Sequences, FiniteSets

CONSTANTS
    Cluster,        \* research clusters
    Workers,        \* which of verdict, tick and cycle run
    Operators,      \* when commands are given: never, between passes, anytime
    Revives,        \* whether commands bring FAILED pipelines back
    Limit,          \* the limit of active() and in_state(), 20 and 10 in the code
    MaxPipelines,   \* bound: pipelines created
    RevisionCap     \* bound: commands stop at this many revisions

ASSUME OrchestratorAssumption ==
    /\ Workers \subseteq {"verdict", "tick", "cycle"}
    /\ Operators \in {"never", "between", "anytime"}
    /\ Revives \in BOOLEAN
    /\ Limit \in Nat \ {0}
    /\ MaxPipelines \in Nat
    /\ RevisionCap \in Nat

VARIABLES
    rows,       \* the pipelines table, in order of creation
    order,      \* the same pipelines by updated_at, oldest first
    pass,       \* pass[w]: what w is doing, idle, verdict, tick or drive
    todo,       \* todo[w]: what is left of the list w read
    busy        \* busy[w]: w awaits the handler of the first entry

vars == <<rows, order, pass, todo, busy>>

Pipelines == DOMAIN rows

Row == [cluster : Cluster, state : State, revisions : Nat]

TypeOK ==
    /\ rows \in Seq(Row)
    /\ order \in Seq(Pipelines)
    /\ \A p \in Pipelines : \E i \in DOMAIN order : order[i] = p
    /\ pass \in [Workers -> {"idle", "verdict", "tick", "drive"}]
    /\ todo \in [Workers -> Seq([pipe : Pipelines, row : Row])]
    /\ busy \in [Workers -> BOOLEAN]

Init ==
    /\ rows = <<>> /\ order = <<>>
    /\ pass = [w \in Workers |-> "idle"]
    /\ todo = [w \in Workers |-> <<>>]
    /\ busy = [w \in Workers |-> FALSE]

-----------------------------------------------------------------------------
(* The table *)

\* What of a sequence is in a set, in its order: SelectSeq as a function, which can be
\* reasoned about.
Among(seq, set) ==
    LET upto[n \in 0 .. Len(seq)] ==
            IF n = 0 THEN <<>>
            ELSE IF seq[n] \in set THEN Append(upto[n - 1], seq[n]) ELSE upto[n - 1]
    IN  upto[Len(seq)]

\* updated_at is set to now.
Bumped(p) == Append(Among(order, Pipelines \ {p}), p)

\* transition() from the copy `row` of p, which the caller found legal.
Written(p, row, to) ==
    [row EXCEPT !.state = Landing(row.state, to, row.revisions),
                !.revisions = RevisionsAfter(row.state, to, row.revisions)]

Writes(p, row, to) ==
    /\ rows' = [rows EXCEPT ![p] = Written(p, row, to)]
    /\ order' = Bumped(p)

\* The query of active() and in_state().
Listing(states) ==
    LET found == Among(order, {p \in Pipelines : rows[p].state \in states})
        n == IF Len(found) < Limit THEN Len(found) ELSE Limit
    IN  [i \in 1 .. n |-> [pipe |-> found[i], row |-> rows[found[i]]]]

\* The states each handler of PipelineDriver may hand to transition().
Results(s) ==
    UNION { IF s = pair[1] THEN pair[2] ELSE {} : pair \in
      { <<"SYNTHESIZED", {"VERDICT_PENDING"}>>,
        <<"VERDICT_PENDING",
          {"REJECTED", "MONITORING", "NEEDS_HUMAN", "VERDICT_APPROVED"}>>,
        <<"VERDICT_APPROVED", {"DRAFTED", "FAILED"}>>,
        <<"DRAFTED", {"TECHNICAL_VERIFY", "DRAFTED", "FAILED"}>>,
        <<"TECHNICAL_VERIFY", {"CITATION_AUDIT", "EDITORIAL_VERIFY"}>>,
        <<"CITATION_AUDIT", {"CITATION_FIND"}>>,
        <<"CITATION_FIND", {"CITATION_VERIFY", "DRAFTED"}>>,
        <<"CITATION_VERIFY", {"EDITORIAL_VERIFY", "DRAFTED"}>>,
        <<"EDITORIAL_VERIFY", {"VISUAL"}>>,
        <<"VISUAL", {"BOOK_QA", "DRAFTED"}>>,
        <<"BOOK_QA", {"APPROVED"}>>,
        <<"APPROVED", {"EMAIL", "COMPLETED", "NEEDS_HUMAN"}>>,
        <<"GIT_PUBLISH", {"COMPLETED"}>>,
        <<"EMAIL", {"COMPLETED"}>> } }

-----------------------------------------------------------------------------
(* The jobs *)

Begins(w, kind, list) ==
    /\ pass' = [pass EXCEPT ![w] = kind]
    /\ todo' = [todo EXCEPT ![w] = list]
    /\ UNCHANGED <<rows, order, busy>>

\* job_verdict, of the daemon or as the first half of run_cycle.
StartsVerdict(w) ==
    /\ w \in {"verdict", "cycle"}
    /\ pass[w] = "idle"
    /\ Begins(w, "verdict", Listing({"SYNTHESIZED"}) \o Listing({"VERDICT_PENDING"}))

\* job_pipeline_tick
StartsTick(w) ==
    /\ w = "tick"
    /\ pass[w] = "idle"
    /\ Begins(w, "tick", Listing(Active))

\* _drive_all, the second half of run_cycle.
StartsDrive(w) ==
    /\ w = "cycle"
    /\ pass[w] = "verdict" /\ todo[w] = <<>>
    /\ Begins(w, "drive", Listing(Active))

\* The list is done.
Ends(w) ==
    /\ \/ pass[w] \in {"tick", "drive"}
       \/ pass[w] = "verdict" /\ w = "verdict"
    /\ todo[w] = <<>>
    /\ Begins(w, "idle", <<>>)

\* Mutant: record_attempt counts the attempt and leaves updated_at alone.
StepsUnstamped(w) ==
    /\ todo[w] # <<>> /\ ~busy[w]
    /\ busy' = [busy EXCEPT ![w] = TRUE]
    /\ UNCHANGED <<rows, order, pass, todo>>

\* PipelineDriver.step: record_attempt, then the handler is awaited.
Steps(w) ==
    /\ todo[w] # <<>> /\ ~busy[w]
    /\ busy' = [busy EXCEPT ![w] = TRUE]
    /\ order' = Bumped(Head(todo[w]).pipe)
    /\ UNCHANGED <<rows, pass, todo>>

\* Mutant: run_to_completion goes on with the pipeline it was given.
ProceedsUnread(w, row) ==
    LET again == pass[w] = "drive" /\ row.state \in Active
    IN  /\ busy' = [busy EXCEPT ![w] = FALSE]
        /\ todo' = [todo EXCEPT ![w] = IF again THEN @ ELSE Tail(@)]
        /\ UNCHANGED pass

\* The step is over: the next entry, or with run_to_completion the same one
\* again while it makes progress.
Proceeds(w, row) ==
    LET entry == Head(todo[w])
        again == /\ pass[w] = "drive"
                 /\ row.state \in Active
                 /\ row.state # entry.row.state
    IN  /\ busy' = [busy EXCEPT ![w] = FALSE]
        /\ todo' = [todo EXCEPT ![w] =
                       (IF again THEN <<[entry EXCEPT !.row = row]>> ELSE <<>>)
                           \o Tail(@)]
        /\ UNCHANGED pass

\* The handler's result is written from the copy the list holds.
Finishes(w, to) ==
    LET entry == Head(todo[w])
    IN  /\ busy[w]
        /\ to \in Results(entry.row.state)
        /\ CanTransition(entry.row.state, to)
        /\ Writes(entry.pipe, entry.row, to)
        /\ Proceeds(w, Written(entry.pipe, entry.row, to))

\* IllegalTransition goes through the job: the rest of the list is dropped.
Aborts(w) ==
    /\ pass' = [pass EXCEPT ![w] = "idle"]
    /\ todo' = [todo EXCEPT ![w] = <<>>]
    /\ busy' = [busy EXCEPT ![w] = FALSE]

Raises(w, to) ==
    LET entry == Head(todo[w])
    IN  /\ busy[w]
        /\ to \in Results(entry.row.state)
        /\ ~CanTransition(entry.row.state, to)
        /\ Aborts(w)
        /\ UNCHANGED <<rows, order>>

\* fail(): the row is read again and fails from the state it is in now.
Fails(w) ==
    LET p == Head(todo[w]).pipe
    IN  /\ busy[w]
        /\ CanTransition(rows[p].state, "FAILED")
        /\ Writes(p, rows[p], "FAILED")
        /\ Proceeds(w, Written(p, rows[p], "FAILED"))

\* The pipeline is past failing: IllegalTransition again.
FailsTooLate(w) ==
    /\ busy[w]
    /\ ~CanTransition(rows[Head(todo[w]).pipe].state, "FAILED")
    /\ Aborts(w)
    /\ UNCHANGED <<rows, order>>

-----------------------------------------------------------------------------
(* What happens to rows besides: none of it awaits anything *)

\* Mutant: a pipeline that waits in MONITORING counts as over.
SynthesisesOverParked(c) ==
    LET earlier == {p \in Pipelines : rows[p].cluster = c}
    IN  /\ Len(rows) < MaxPipelines
        /\ \A p \in earlier :
              \/ rows[p].state \in {"REJECTED", "COMPLETED", "FAILED", "MONITORING"}
              \/ \E q \in earlier : q > p
        /\ rows' = Append(rows, [cluster |-> c, state |-> "SYNTHESIZED", revisions |-> 0])
        /\ order' = Append(order, Len(rows) + 1)
        /\ UNCHANGED <<pass, todo, busy>>

\* job_synthesis has (re)built cluster c: a pipeline, unless the last one created
\* for c is still in flight.
Synthesises(c) ==
    LET earlier == {p \in Pipelines : rows[p].cluster = c}
    IN  /\ Len(rows) < MaxPipelines
        /\ \A p \in earlier :
              \/ rows[p].state \in {"REJECTED", "COMPLETED", "FAILED"}
              \/ \E q \in earlier : q > p
        /\ rows' = Append(rows, [cluster |-> c, state |-> "SYNTHESIZED", revisions |-> 0])
        /\ order' = Append(order, Len(rows) + 1)
        /\ UNCHANGED <<pass, todo, busy>>

\* job_monitor_sweep, for one row that has waited long enough.
Sweeps(p) ==
    /\ rows[p].state = "MONITORING"
    /\ Writes(p, rows[p], "VERDICT_PENDING")
    /\ UNCHANGED <<pass, todo, busy>>

\* approve, reject, resume_failed and retry read the row and write it at once.
\* Which of them goes where is PipelineDriver's matter: here, any edge out of the
\* row's state but those to an end that is not the operator's to choose.
Commands(p) ==
    /\ \/ Operators = "anytime"
       \/ Operators = "between" /\ \A w \in Workers : todo[w] = <<>>
    /\ rows[p].revisions < RevisionCap
    /\ \E to \in State \ {"DISCOVERED", "COLLECTED", "DEDUPLICATED", "FAILED", "COMPLETED"} :
          /\ CanTransition(rows[p].state, to)
          /\ rows[p].state = "FAILED" => Revives \/ to = "REJECTED"
          /\ Writes(p, rows[p], to)
    /\ UNCHANGED <<pass, todo, busy>>

-----------------------------------------------------------------------------

Works(w) ==
    \/ StartsVerdict(w) \/ StartsTick(w) \/ StartsDrive(w) \/ Ends(w)
    \/ Steps(w)
    \/ \E to \in State : Finishes(w, to) \/ Raises(w, to)
    \/ Fails(w) \/ FailsTooLate(w)

Next ==
    \/ \E w \in Workers : Works(w)
    \/ \E c \in Cluster : Synthesises(c)
    \/ \E p \in Pipelines : Sweeps(p) \/ Commands(p)

Spec == Init /\ [][Next]_vars

\* The scheduler starts the jobs again and again; every handler ends (its calls
\* have timeouts); the weekly sweep comes.
Fairness ==
    /\ \A w \in Workers : WF_vars(Works(w))
    /\ WF_vars(\E p \in Pipelines : Sweeps(p))

FairSpec == Spec /\ Fairness

-----------------------------------------------------------------------------
(* Properties *)

InFlight == State \ {"REJECTED", "COMPLETED", "FAILED"}

\* "One pipeline per cluster, and only one": two in flight would duplicate the
\* work and the mail.
OnePipelinePerCluster ==
    \A p, q \in Pipelines :
        /\ rows[p].cluster = rows[q].cluster
        /\ rows[p].state \in InFlight
        /\ rows[q].state \in InFlight
        => p = q

\* What is stored follows the table: no write from an old copy moves a row along
\* an edge the table does not have, forwards, backwards or out of an end.
RowsFollowTable ==
    [][\A p \in Pipelines :
          rows'[p].state # rows[p].state
             => CanTransition(rows[p].state, rows'[p].state)]_vars

\* Whatever copies the jobs hold, none of them works on a pipeline that has used
\* up its revisions: that is for a person.
WorkIsWithinBudget ==
    \A w \in Workers : busy[w] => Head(todo[w]).row.revisions <= MaxRevisions

\* Neither a sibling whose every step raises nor the list's limit starves a
\* pipeline: as long as it is active, ticks keep stepping it.
ActiveAreStepped ==
    \A p \in 1 .. MaxPipelines :
        []<>(\/ p \notin Pipelines
             \/ rows[p].state \notin Active
             \/ \E w \in Workers : busy[w] /\ Head(todo[w]).pipe = p)

-----------------------------------------------------------------------------
(* What the code does not keep, although its texts say so: TLC refutes both *)

\* A pipeline that was rejected or completed stays that way: no, a job
\* that holds an older copy writes over a rejection.
EndsAreFinal ==
    [][\A p \in Pipelines : rows[p].state \in {"REJECTED", "COMPLETED"}
          => rows'[p].state = rows[p].state]_vars

\* A pass leaves none of the pipelines it listed behind: no, an
\* IllegalTransition drops the rest of the list.
SiblingsAreStepped ==
    [][\A w \in Workers : todo'[w] = <<>> => Len(todo[w]) <= 1]_vars

=============================================================================
