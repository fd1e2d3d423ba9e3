-------------------------- MODULE SchedulerProofs --------------------------
(***************************************************************************)
(* Theorems about Scheduler, for any number of jobs and processes.         *)
(*                                                                         *)
(* Mutual exclusion is not true in general: a lock older than the window   *)
(* is taken from a live owner, and two daemons may reclaim the lock of a   *)
(* third, or of one whose PID comes back meanwhile (README, section 4).    *)
(* It is proved for the two ways of running daemons that avoid all three,  *)
(* with the invariant that makes it inductive.                             *)
(***************************************************************************)
EXTENDS Scheduler, FiniteSetTheorems, TLAPS

\* One daemon per machine, jobs shorter than the stale-lock window, and nobody
\* resets the schedule of a running system.  Dead daemons may stay dead for long.
OnePerHost ==
    /\ \A p, q \in Process : Host[p] = Host[q] => p = q
    /\ ~LongJobs
    /\ ~ResetsOnStart

\* At most two process identities, jobs shorter than the window, no resets; and either
\* a dead owner's PID does not come back in the middle of a reclaim, or dead owners do
\* not stay dead for as long as the window.
TwoOfThem ==
    /\ \A p, q, r \in Process : p = q \/ q = r \/ p = r
    /\ ~LongJobs
    /\ ~ResetsOnStart
    /\ ~PidReturns \/ ~LongOutages

\* Who runs a job lives, and holds a lock that is not stale.
Owned ==
    \A p \in Process, j \in Job :
        task[p][j] = "running" => alive[p] /\ holder[j] = p /\ ~aged[j]

\* No reclaim is ever begun.
Unreclaimed == \A p \in Process, j \in Job : task[p][j] # "reclaiming"

\* One that is being taken over is the other process's, nobody runs the job, and the
\* other cannot take it first: it is dead and stays so, or the lock is not stale.
Reclaimed ==
    /\ ~LongOutages => \A j \in Job : ~aged[j]
    /\ \A p \in Process, j \in Job :
          task[p][j] = "reclaiming"
             => /\ alive[p]
                /\ holder[j] \in Process \ {p}
                /\ LongOutages => ~alive[holder[j]]
                /\ \A q \in Process : task[q][j] # "running"

-----------------------------------------------------------------------------
(* Type correctness *)

\* Claiming a row keeps the table and the tasks well typed.
LEMMA LocksType ==
    ASSUME TypeOK, NEW p \in Process, NEW j \in Job, Locks(p, j)
    PROVE  /\ holder' \in [Job -> Process \cup {Nobody}]
           /\ aged' \in [Job -> BOOLEAN]
           /\ task' \in [Process -> [Job -> Stage]]
  BY DEF TypeOK, Locks, Sets, Stage

\* Type correctness: every reachable table and every task is well formed.
THEOREM TypeCorrect == Spec => []TypeOK
  <1>1. Init => TypeOK
    BY SchedulerAssumption DEF Init, TypeOK, Stage
  <1>2. TypeOK /\ [Next]_vars => TypeOK'
    <2> SUFFICES ASSUME TypeOK, [Next]_vars PROVE TypeOK'
      OBVIOUS
    <2> USE DEF TypeOK, table, Stage, Sets
    <2>1. ASSUME NEW p \in Process, Start(p) PROVE TypeOK'
      BY <2>1 DEF Start
    <2>2. ASSUME NEW p \in Process, StartWithReset(p) PROVE TypeOK'
      BY <2>2 DEF StartWithReset
    <2>3. ASSUME NEW p \in Process, Tick(p) PROVE TypeOK'
      BY <2>3 DEF Tick
    <2>4. ASSUME NEW p \in Process, Exit(p) PROVE TypeOK'
      BY <2>4, SchedulerAssumption DEF Exit
    <2>5. ASSUME NEW p \in Process, NEW j \in Job, Refused(p, j) PROVE TypeOK'
      BY <2>5 DEF Refused
    <2>6. ASSUME NEW p \in Process, NEW j \in Job, Acquire(p, j) PROVE TypeOK'
      BY <2>6, LocksType DEF Acquire, Locks
    <2>7. ASSUME NEW p \in Process, NEW j \in Job, FindsDeadOwner(p, j) PROVE TypeOK'
      BY <2>7 DEF FindsDeadOwner
    <2>8. ASSUME NEW p \in Process, NEW j \in Job, Reclaim(p, j) PROVE TypeOK'
      BY <2>8, LocksType DEF Reclaim, Locks
    <2>9. ASSUME NEW p \in Process, NEW j \in Job, Release(p, j) PROVE TypeOK'
      BY <2>9 DEF Release
    <2>10. ASSUME NEW j \in Job, LockAges(j) PROVE TypeOK'
      BY <2>10 DEF LockAges
    <2>11. ASSUME NEW j \in Job, FallsDue(j) PROVE TypeOK'
      BY <2>11 DEF FallsDue
    <2>12. CASE UNCHANGED vars
      BY <2>12 DEF vars
    <2> QED
      BY <2>1, <2>2, <2>3, <2>4, <2>5, <2>6, <2>7, <2>8, <2>9, <2>10, <2>11,
         <2>12
      DEF Next, Claims
  <1> QED  BY <1>1, <1>2, PTL DEF Spec

-----------------------------------------------------------------------------
(* Mutual exclusion *)

\* At most one process can be the holder.
LEMMA OwnedExcludes == Owned => MutualExclusion
  <1> SUFFICES ASSUME Owned, NEW j \in Job
               PROVE  Cardinality(Runners(j)) <= 1
    BY DEF MutualExclusion
  <1>1. CASE Runners(j) = {}
    BY <1>1, FS_EmptySet
  <1>2. CASE Runners(j) # {}
    <2>1. PICK p \in Process : p \in Runners(j)
      BY <1>2 DEF Runners
    <2>2. Runners(j) = {p}
      BY <2>1 DEF Owned, Runners
    <2> QED  BY <2>2, FS_Singleton
  <1> QED  BY <1>1, <1>2

\* With one daemon per machine no owner ever looks dead, and what is left is the
\* claim in one transaction.
LEMMA OnePerHostStep ==
    ASSUME OnePerHost, TypeOK, Owned, Unreclaimed, [Next]_vars
    PROVE  (Owned /\ Unreclaimed)'
  <1> USE DEF OnePerHost, TypeOK, Owned, Unreclaimed, Runners, table, Sets, Free, Stage
  <1>1. ASSUME NEW p \in Process, Start(p)
        PROVE  (Owned /\ Unreclaimed)'
    BY <1>1 DEF Start
  <1>2. ASSUME NEW p \in Process, StartWithReset(p)
        PROVE  (Owned /\ Unreclaimed)'
    BY <1>2 DEF StartWithReset
  <1>3. ASSUME NEW p \in Process, Tick(p)
        PROVE  (Owned /\ Unreclaimed)'
    BY <1>3 DEF Tick
  <1>4. ASSUME NEW p \in Process, Exit(p)
        PROVE  (Owned /\ Unreclaimed)'
    BY <1>4 DEF Exit
  <1>5. ASSUME NEW p \in Process, NEW j \in Job, Refused(p, j)
        PROVE  (Owned /\ Unreclaimed)'
    BY <1>5 DEF Refused
  <1>6. ASSUME NEW p \in Process, NEW j \in Job, Acquire(p, j)
        PROVE  (Owned /\ Unreclaimed)'
    <2>1. \A q \in Process : task[q][j] # "running"
      BY <1>6, SchedulerAssumption DEF Acquire, Held, OwnerIsGone
    <2> QED  BY <1>6, <2>1 DEF Acquire, Locks, Held, OwnerIsGone
  <1>7. ASSUME NEW p \in Process, NEW j \in Job, FindsDeadOwner(p, j)
        PROVE  (Owned /\ Unreclaimed)'
    BY <1>7 DEF FindsDeadOwner, OwnerIsGone
  <1>8. ASSUME NEW p \in Process, NEW j \in Job, Reclaim(p, j)
        PROVE  (Owned /\ Unreclaimed)'
    BY <1>8 DEF Reclaim, Locks
  <1>9. ASSUME NEW p \in Process, NEW j \in Job, Release(p, j)
        PROVE  (Owned /\ Unreclaimed)'
    BY <1>9 DEF Release
  <1>10. ASSUME NEW j \in Job, LockAges(j)
        PROVE  (Owned /\ Unreclaimed)'
    BY <1>10 DEF LockAges
  <1>11. ASSUME NEW j \in Job, FallsDue(j)
        PROVE  (Owned /\ Unreclaimed)'
    BY <1>11 DEF FallsDue
  <1>12. CASE UNCHANGED vars
    BY <1>12 DEF vars
  <1> QED
    BY <1>1, <1>2, <1>3, <1>4, <1>5, <1>6, <1>7, <1>8, <1>9, <1>10, <1>11, <1>12
    DEF Next, Claims

\* Mutual exclusion, one daemon per machine: however many machines share the
\* database, and however they crash and restart.
THEOREM ExclusiveAcrossHosts == OnePerHost => (Spec => []MutualExclusion)
  <1> SUFFICES ASSUME OnePerHost PROVE Spec => []MutualExclusion
    OBVIOUS
  <1>1. Init => Owned /\ Unreclaimed
    BY DEF Init, Owned, Unreclaimed
  <1>2. TypeOK /\ Owned /\ Unreclaimed /\ [Next]_vars => (Owned /\ Unreclaimed)'
    BY OnePerHostStep
  <1> QED  BY <1>1, <1>2, TypeCorrect, OwnedExcludes, PTL DEF Spec

\* With two processes there is only one that could reclaim the other's lock, and
\* the other, restarted under its old PID, waits for its own.
LEMMA TwoOfThemStep ==
    ASSUME TwoOfThem, TypeOK, Owned, Reclaimed, [Next]_vars
    PROVE  (Owned /\ Reclaimed)'
  <1> USE DEF TwoOfThem, TypeOK, Owned, Reclaimed, Runners, table, Sets, Free, Stage
  <1>1. ASSUME NEW p \in Process, Start(p)
        PROVE  (Owned /\ Reclaimed)'
    <2>1. /\ alive' = [alive EXCEPT ![p] = TRUE] /\ ~alive[p]
          /\ UNCHANGED <<holder, aged, task>>
          /\ PidReturns \/ ~BeingReclaimed(p)
      BY <1>1 DEF Start, CanStart
    <2>2. Owned'
      BY <2>1
    <2>3. ASSUME LongOutages, NEW q \in Process, NEW j \in Job, task[q][j] = "reclaiming"
          PROVE  holder[j] # p
      BY <2>1, <2>3 DEF BeingReclaimed
    <2>4. Reclaimed'
      BY <2>1, <2>3
    <2> QED  BY <2>2, <2>4
  <1>2. ASSUME NEW p \in Process, StartWithReset(p)
        PROVE  (Owned /\ Reclaimed)'
    BY <1>2 DEF StartWithReset
  <1>3. ASSUME NEW p \in Process, Tick(p)
        PROVE  (Owned /\ Reclaimed)'
    BY <1>3 DEF Tick
  <1>4. ASSUME NEW p \in Process, Exit(p)
        PROVE  (Owned /\ Reclaimed)'
    BY <1>4 DEF Exit
  <1>5. ASSUME NEW p \in Process, NEW j \in Job, Refused(p, j)
        PROVE  (Owned /\ Reclaimed)'
    BY <1>5 DEF Refused
  <1>6. ASSUME NEW p \in Process, NEW j \in Job, Acquire(p, j)
        PROVE  (Owned /\ Reclaimed)'
    <2>1. \A q \in Process : task[q][j] # "running"
      BY <1>6, SchedulerAssumption DEF Acquire, Held, OwnerIsGone
    <2>2. \A q \in Process : task[q][j] # "reclaiming"
      BY <1>6, SchedulerAssumption DEF Acquire, Held, OwnerIsGone
    <2>3. ~LongOutages => \A i \in Job : ~aged'[i]
      BY <1>6 DEF Acquire, Locks
    <2>4. Owned'
      BY <1>6, <2>1 DEF Acquire, Locks
    <2>5. Reclaimed'
      BY <1>6, <2>1, <2>2, <2>3 DEF Acquire, Locks
    <2> QED  BY <2>4, <2>5
  <1>7. ASSUME NEW p \in Process, NEW j \in Job, FindsDeadOwner(p, j)
        PROVE  (Owned /\ Reclaimed)'
    BY <1>7 DEF FindsDeadOwner, OwnerIsGone
  <1>8. ASSUME NEW p \in Process, NEW j \in Job, Reclaim(p, j)
        PROVE  (Owned /\ Reclaimed)'
    BY <1>8 DEF Reclaim, Locks
  <1>9. ASSUME NEW p \in Process, NEW j \in Job, Release(p, j)
        PROVE  (Owned /\ Reclaimed)'
    BY <1>9 DEF Release
  <1>10. ASSUME NEW j \in Job, LockAges(j)
        PROVE  (Owned /\ Reclaimed)'
    BY <1>10 DEF LockAges
  <1>11. ASSUME NEW j \in Job, FallsDue(j)
        PROVE  (Owned /\ Reclaimed)'
    BY <1>11 DEF FallsDue
  <1>12. CASE UNCHANGED vars
    BY <1>12 DEF vars
  <1> QED
    BY <1>1, <1>2, <1>3, <1>4, <1>5, <1>6, <1>7, <1>8, <1>9, <1>10, <1>11, <1>12
    DEF Next, Claims

\* Mutual exclusion for a daemon and its successor, or for two daemons, on one
\* machine: a reclaim that is split in two is safe as long as nobody else makes one.
THEOREM ExclusiveForTwo == TwoOfThem => (Spec => []MutualExclusion)
  <1> SUFFICES ASSUME TwoOfThem PROVE Spec => []MutualExclusion
    OBVIOUS
  <1>1. Init => Owned /\ Reclaimed
    BY DEF Init, Owned, Reclaimed
  <1>2. TypeOK /\ Owned /\ Reclaimed /\ [Next]_vars => (Owned /\ Reclaimed)'
    BY TwoOfThemStep
  <1> QED  BY <1>1, <1>2, TypeCorrect, OwnedExcludes, PTL DEF Spec

-----------------------------------------------------------------------------
(* Live locks *)

\* One step takes no lock from an owner that runs the job.
LiveLockHolds ==
    \A j \in Job : holder[j] \in Runners(j) => holder'[j] \in {holder[j], Nobody}

\* Only a claim writes an owner: it is enough that none succeeds while the owner runs.
LEMMA LockStep ==
    ASSUME TypeOK, [Next]_vars,
           \A p \in Process, j \in Job :
               Acquire(p, j) \/ Reclaim(p, j) => holder[j] \notin Runners(j)
    PROVE  LiveLockHolds
  <1> USE DEF TypeOK, table, Sets
  <1>1. ASSUME NEW p \in Process, Start(p) \/ Tick(p) \/ Exit(p)
        PROVE  LiveLockHolds
    BY <1>1 DEF Start, Tick, Exit, LiveLockHolds
  <1>2. ASSUME NEW p \in Process, StartWithReset(p)
        PROVE  LiveLockHolds
    BY <1>2 DEF StartWithReset, LiveLockHolds
  <1>3. ASSUME NEW p \in Process, NEW j \in Job, Refused(p, j) \/ FindsDeadOwner(p, j)
        PROVE  LiveLockHolds
    BY <1>3 DEF Refused, FindsDeadOwner, LiveLockHolds
  <1>4. ASSUME NEW p \in Process, NEW j \in Job, Acquire(p, j) \/ Reclaim(p, j)
        PROVE  LiveLockHolds
    <2>1. holder[j] \notin Runners(j)
      BY <1>4
    <2>2. \A k \in Job \ {j} : holder'[k] = holder[k]
      BY <1>4 DEF Acquire, Reclaim, Locks
    <2> QED BY <2>1, <2>2 DEF LiveLockHolds
  <1>5. ASSUME NEW p \in Process, NEW j \in Job, Release(p, j)
        PROVE  LiveLockHolds
    BY <1>5 DEF Release, LiveLockHolds
  <1>6. ASSUME NEW j \in Job, LockAges(j) \/ FallsDue(j)
        PROVE  LiveLockHolds
    BY <1>6 DEF LockAges, FallsDue, LiveLockHolds
  <1>7. CASE UNCHANGED vars
    BY <1>7 DEF vars, LiveLockHolds
  <1> QED BY <1>1, <1>2, <1>3, <1>4, <1>5, <1>6, <1>7 DEF Next, Claims

\* A lock whose owner runs the job is not taken from it: one daemon per machine.
THEOREM LiveLocksAcrossHosts == OnePerHost => (Spec => LiveLocksHold)
  <1> SUFFICES ASSUME OnePerHost PROVE Spec => LiveLocksHold
    OBVIOUS
  <1>1. Init => Owned /\ Unreclaimed
    BY DEF Init, Owned, Unreclaimed
  <1>2. TypeOK /\ Owned /\ Unreclaimed /\ [Next]_vars => (Owned /\ Unreclaimed)'
    BY OnePerHostStep
  <1>3. TypeOK /\ Owned /\ Unreclaimed /\ [Next]_vars => [LiveLockHolds]_vars
    <2> SUFFICES ASSUME TypeOK, Owned, Unreclaimed, [Next]_vars PROVE LiveLockHolds
      OBVIOUS
    <2>1. ASSUME NEW p \in Process, NEW j \in Job, Acquire(p, j) \/ Reclaim(p, j)
          PROVE  holder[j] \notin Runners(j)
      BY <2>1, SchedulerAssumption
         DEF Acquire, Reclaim, Held, OwnerIsGone, Owned, Unreclaimed, Runners
    <2> QED BY <2>1, LockStep
  <1> QED BY <1>1, <1>2, <1>3, TypeCorrect, PTL DEF Spec, LiveLocksHold, LiveLockHolds

\* The same for a daemon and its successor, or for two daemons, on one machine.
THEOREM LiveLocksForTwo == TwoOfThem => (Spec => LiveLocksHold)
  <1> SUFFICES ASSUME TwoOfThem PROVE Spec => LiveLocksHold
    OBVIOUS
  <1>1. Init => Owned /\ Reclaimed
    BY DEF Init, Owned, Reclaimed
  <1>2. TypeOK /\ Owned /\ Reclaimed /\ [Next]_vars => (Owned /\ Reclaimed)'
    BY TwoOfThemStep
  <1>3. TypeOK /\ Owned /\ Reclaimed /\ [Next]_vars => [LiveLockHolds]_vars
    <2> SUFFICES ASSUME TypeOK, Owned, Reclaimed, [Next]_vars PROVE LiveLockHolds
      OBVIOUS
    <2>1. ASSUME NEW p \in Process, NEW j \in Job, Acquire(p, j) \/ Reclaim(p, j)
          PROVE  holder[j] \notin Runners(j)
      BY <2>1, SchedulerAssumption
         DEF Acquire, Reclaim, Held, OwnerIsGone, Owned, Reclaimed, Runners
    <2> QED BY <2>1, LockStep
  <1> QED BY <1>1, <1>2, <1>3, TypeCorrect, PTL DEF Spec, LiveLocksHold, LiveLockHolds

=============================================================================
