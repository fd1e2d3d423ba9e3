----------------------------- MODULE Scheduler -----------------------------
(***************************************************************************)
(* livingbook/orchestrator/scheduler.py: daemons that share the            *)
(* scheduled_jobs table.  A daemon polls for due jobs, starts a task for   *)
(* each, and the task claims the row, runs the job and releases the row.   *)
(*                                                                         *)
(* due() and _acquire() read the row in different transactions, and a      *)
(* reclaim is itself two: the log line written between the SELECT and the  *)
(* UPDATE goes through Store.record_event, which commits the connection    *)
(* _acquire opened its transaction on.                                     *)
(*                                                                         *)
(* Clocks are abstracted to two facts about a row: whether its next run is *)
(* due and whether its lock is older than STALE_LOCK_SECONDS.              *)
(***************************************************************************)
EXTENDS Naturals, FiniteSets

CONSTANTS
    Job,            \* names of scheduled jobs
    Process,        \* process identities: a host name and a PID each
    Nobody,         \* lock_owner IS NULL
    Host,           \* Host[p]: where p runs
    LongJobs,       \* whether a job may outlast STALE_LOCK_SECONDS
    LongOutages,    \* whether a dead daemon's lock may stay for that long
    PidReturns,     \* whether a dead owner's PID may be given out while its lock is being
                    \* reclaimed, between the look at it and the UPDATE
    ResetsOnStart,  \* whether daemons may be started with --reset-schedule
    MaxLive,        \* how many daemons run at the same time
    MaxExits        \* bound: how many times a daemon exits

ASSUME SchedulerAssumption ==
    /\ Nobody \notin Process
    /\ LongJobs \in BOOLEAN
    /\ LongOutages \in BOOLEAN
    /\ PidReturns \in BOOLEAN
    /\ ResetsOnStart \in BOOLEAN
    /\ MaxLive \in Nat
    /\ MaxExits \in Nat

VARIABLES
    \* columns of scheduled_jobs
    holder,     \* lock_owner while running = 1, else Nobody
    aged,       \* lock_at is older than STALE_LOCK_SECONDS
    due,        \* next_run_at has passed
    \* the processes
    alive,
    task,       \* task[p][j]: none, created, reclaiming or running
    exits

table == <<holder, aged, due>>
vars  == <<table, alive, task, exits>>

Stage == {"none", "created", "reclaiming", "running"}

TypeOK ==
    /\ holder \in [Job -> Process \cup {Nobody}]
    /\ aged \in [Job -> BOOLEAN]
    /\ due \in [Job -> BOOLEAN]
    /\ alive \in [Process -> BOOLEAN]
    /\ task \in [Process -> [Job -> Stage]]
    /\ exits \in 0 .. MaxExits

\* A fresh database: every job is due at once.
Init ==
    /\ holder = [j \in Job |-> Nobody]
    /\ aged = [j \in Job |-> FALSE]
    /\ due = [j \in Job |-> TRUE]
    /\ alive = [p \in Process |-> FALSE]
    /\ task = [p \in Process |-> [j \in Job |-> "none"]]
    /\ exits = 0

-----------------------------------------------------------------------------
(* Reading a lock *)

\* Mutant: any other PID of this host counts as dead.
OwnerIsOther(p, j) == holder[j] \in Process \ {p} /\ Host[holder[j]] = Host[p]

\* _owner_is_gone, asked by p: a dead process of p's own host, never p itself.
OwnerIsGone(p, j) ==
    /\ holder[j] \in Process \ {p}
    /\ Host[holder[j]] = Host[p]
    /\ ~alive[holder[j]]

\* Mutant: without the time window, only PIDs are asked about.
HeldForEver(p, j) == holder[j] # Nobody /\ ~OwnerIsGone(p, j)

\* The test due() and _acquire() share: somebody seems to be running the job.
Held(p, j) == holder[j] # Nobody /\ ~aged[j] /\ ~OwnerIsGone(p, j)

\* p is single-threaded: while one of its tasks is inside _acquire, nothing else
\* of p runs.
Free(p) == alive[p] /\ \A j \in Job : task[p][j] # "reclaiming"

Sets(p, j, stage) == task' = [task EXCEPT ![p][j] = stage]

-----------------------------------------------------------------------------
(* One daemon *)

Live == {p \in Process : alive[p]}

\* Somebody found p dead and is about to take over its lock.
BeingReclaimed(p) ==
    \E q \in Process, j \in Job : task[q][j] = "reclaiming" /\ holder[j] = p

\* A daemon can come up as p.
CanStart(p) ==
    /\ ~alive[p]
    /\ Cardinality(Live) < MaxLive
    /\ PidReturns \/ ~BeingReclaimed(p)

\* The daemon starts, perhaps under a PID that was used before.
Start(p) ==
    /\ CanStart(p)
    /\ alive' = [alive EXCEPT ![p] = TRUE]
    /\ UNCHANGED <<table, task, exits>>

\* The same with --reset-schedule: every lock is cleared, every job is due.
StartWithReset(p) ==
    /\ ResetsOnStart
    /\ CanStart(p)
    /\ alive' = [alive EXCEPT ![p] = TRUE]
    /\ holder' = [j \in Job |-> Nobody]
    /\ aged' = [j \in Job |-> FALSE]
    /\ due' = [j \in Job |-> TRUE]
    /\ UNCHANGED <<task, exits>>

\* tick(): a task for every due job this process is not running already.
Tick(p) ==
    LET started == {j \in Job : due[j] /\ ~Held(p, j) /\ task[p][j] = "none"}
    IN  /\ Free(p)
        /\ started # {}
        /\ task' = [task EXCEPT ![p] =
                       [j \in Job |-> IF j \in started THEN "created" ELSE @[j]]]
        /\ UNCHANGED <<table, alive, exits>>

\* _acquire() finds the job running elsewhere.
Refused(p, j) ==
    /\ Free(p)
    /\ task[p][j] = "created"
    /\ Held(p, j)
    /\ Sets(p, j, "none")
    /\ UNCHANGED <<table, alive, exits>>

\* Mutant: lock_owner names the machine only.
LocksByHost(p, j) ==
    /\ holder' = [holder EXCEPT ![j] = Host[p]]
    /\ aged' = [aged EXCEPT ![j] = FALSE]
    /\ UNCHANGED due
    /\ Sets(p, j, "running")

\* The UPDATE of _acquire.
Locks(p, j) ==
    /\ holder' = [holder EXCEPT ![j] = p]
    /\ aged' = [aged EXCEPT ![j] = FALSE]
    /\ UNCHANGED due
    /\ Sets(p, j, "running")

\* Mutant: the answer of due() is taken for the claim.
AcquireUnchecked(p, j) ==
    /\ Free(p)
    /\ task[p][j] = "created"
    /\ ~OwnerIsGone(p, j)
    /\ Locks(p, j)
    /\ UNCHANGED <<alive, exits>>

\* _acquire() takes a free or a stale row: SELECT and UPDATE in one transaction.
Acquire(p, j) ==
    /\ Free(p)
    /\ task[p][j] = "created"
    /\ ~Held(p, j)
    /\ ~OwnerIsGone(p, j)
    /\ Locks(p, j)
    /\ UNCHANGED <<alive, exits>>

\* _acquire() finds a dead owner and logs it, which ends the transaction.
FindsDeadOwner(p, j) ==
    /\ Free(p)
    /\ task[p][j] = "created"
    /\ OwnerIsGone(p, j)
    /\ Sets(p, j, "reclaiming")
    /\ UNCHANGED <<table, alive, exits>>

\* The UPDATE that follows, without looking again.
Reclaim(p, j) ==
    /\ alive[p]
    /\ task[p][j] = "reclaiming"
    /\ Locks(p, j)
    /\ UNCHANGED <<alive, exits>>

\* The job returns or raises: _release clears the row, whoever holds it by now.
Release(p, j) ==
    /\ Free(p)
    /\ task[p][j] = "running"
    /\ holder' = [holder EXCEPT ![j] = Nobody]
    /\ aged' = [aged EXCEPT ![j] = FALSE]
    /\ due' = [due EXCEPT ![j] = FALSE]
    /\ Sets(p, j, "none")
    /\ UNCHANGED <<alive, exits>>

\* The process is killed, or stops and cancels its tasks: CancelledError is not
\* an Exception, so run_job releases nothing on either way out.
Exit(p) ==
    /\ alive[p]
    /\ exits < MaxExits
    /\ exits' = exits + 1
    /\ alive' = [alive EXCEPT ![p] = FALSE]
    /\ task' = [task EXCEPT ![p] = [j \in Job |-> "none"]]
    /\ UNCHANGED table

-----------------------------------------------------------------------------
(* Time *)

\* Every task that holds the lock, by its own account.
Runners(j) == {p \in Process : task[p][j] = "running"}

\* A lock reaches STALE_LOCK_SECONDS: a dead owner's, or that of a long job.
LockAges(j) ==
    /\ holder[j] # Nobody /\ ~aged[j]
    /\ IF Runners(j) = {} THEN LongOutages ELSE LongJobs
    /\ aged' = [aged EXCEPT ![j] = TRUE]
    /\ UNCHANGED <<holder, due, alive, task, exits>>

FallsDue(j) ==
    /\ ~due[j]
    /\ due' = [due EXCEPT ![j] = TRUE]
    /\ UNCHANGED <<holder, aged, alive, task, exits>>

-----------------------------------------------------------------------------

Claims(p, j) == \/ Refused(p, j) \/ Acquire(p, j)
                \/ FindsDeadOwner(p, j) \/ Reclaim(p, j)

Next ==
    \/ \E p \in Process : Start(p) \/ StartWithReset(p) \/ Tick(p) \/ Exit(p)
    \/ \E p \in Process, j \in Job : Claims(p, j) \/ Release(p, j)
    \/ \E j \in Job : LockAges(j) \/ FallsDue(j)

Spec == Init /\ [][Next]_vars

\* Daemons are restarted, poll and run their tasks; jobs end (their calls have
\* timeouts); time passes.
Fairness ==
    /\ WF_vars(\E p \in Process : Start(p))
    /\ \A p \in Process : WF_vars(Tick(p))
    /\ \A p \in Process, j \in Job : WF_vars(Claims(p, j)) /\ WF_vars(Release(p, j))
    /\ \A j \in Job : WF_vars(LockAges(j)) /\ WF_vars(FallsDue(j))

FairSpec == Spec /\ Fairness

-----------------------------------------------------------------------------
(* Properties *)

\* "Two processes cannot run the same job at once", through crashes, restarts
\* under the same or another PID, reclaims, and locks that go stale after their owner
\* died.  Two daemons, jobs shorter than the window, and a PID that does not come back
\* in the middle of a reclaim: without one of these it is refuted (README, section 4).
MutualExclusion == \A j \in Job : Cardinality(Runners(j)) <= 1

\* A job runs again and again: neither a daemon that dies holding the lock, on
\* this host or on another, nor a PID that comes back, stops it for good.
JobsKeepRunning == \A j \in Job : []<>(Runners(j) # {})

\* A lock whose owner is running the job is not taken from it, by a daemon that looked
\* before, or by one that waits for a stale lock.  Under the same conditions.
LiveLocksHold ==
    [][\A j \in Job :
          holder[j] \in Runners(j) => holder'[j] \in {holder[j], Nobody}]_vars

-----------------------------------------------------------------------------
(* What the code does not keep, although its texts say so: TLC refutes it *)

\* A job is started only in a window that is due: no, _acquire does not look
\* at next_run_at again after due() did.
RunsOnlyWhenDue ==
    [][\A p \in Process, j \in Job :
          task[p][j] # "running" /\ task'[p][j] = "running" => due[j]]_vars

=============================================================================
