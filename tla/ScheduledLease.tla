---------------------------- MODULE ScheduledLease ----------------------------
(***************************************************************************)
(* The lease of one scheduled job (core/scheduler.py), taken by the worker *)
(* loops that run it (worker.py): retention, the watchlist, catalog and    *)
(* metadata refreshes and the merges.                                      *)
(*                                                                         *)
(* Each operation locks the job's row and commits, so each is one step;    *)
(* the job runs between them.  lease_until and next_run_at are kept as the *)
(* time that is left, so 0 stands both for "passed" and for "not set".     *)
(* lease_owner is worker_instance_id(), which all loops of a process       *)
(* share.                                                                  *)
(***************************************************************************)
EXTENDS Integers

CONSTANTS
    Loop,       \* worker loops of the job's mode
    Process,    \* worker processes
    ProcessOf,  \* the process each loop runs in
    Nobody,     \* no owner
    LeaseTime, Interval, RetryDelay,
    MaxCrashes, \* bound: processes that die
    SlowLoops   \* a run may outlive the lease it last extended

ASSUME LeaseAssumption ==
    /\ ProcessOf \in [Loop -> Process]
    /\ Nobody \notin Process /\ Nobody \notin Loop
    /\ LeaseTime \in Nat \ {0} /\ Interval \in Nat \ {0} /\ RetryDelay \in Nat \ {0}
    /\ MaxCrashes \in Nat /\ SlowLoops \in BOOLEAN

VARIABLES
    lease,    \* lease_until - now
    until,    \* the time left of the lease each loop believes it holds
    waits,    \* next_run_at - now
    owner,    \* lease_owner
    running,  \* the loops inside the job
    holder,   \* the loop whose claim is the latest one not given back
    crashes

vars == <<lease, until, waits, owner, running, holder, crashes>>

TypeOK ==
    /\ lease \in Nat /\ waits \in Nat
    /\ until \in [Loop -> Nat]
    /\ owner \in Process \cup {Nobody}
    /\ running \subseteq Loop
    /\ holder \in Loop \cup {Nobody}
    /\ crashes \in 0 .. MaxCrashes

\* The row is created due.
Init ==
    /\ lease = 0 /\ waits = 0 /\ owner = Nobody
    /\ until = [l \in Loop |-> 0]
    /\ running = {} /\ holder = Nobody /\ crashes = 0

\* Mutant: the time a lease has left is not looked at.
ClaimableAnyLease == waits = 0
\* Mutant: a lease must be given back before it can be taken again.
ClaimableUnowned == waits = 0 /\ owner = Nobody
\* claim_scheduled_job returns the job.
Claimable == lease = 0 /\ waits = 0

Claim(l) ==
    /\ l \notin running /\ Claimable
    /\ lease' = LeaseTime /\ owner' = ProcessOf[l]
    /\ until' = [until EXCEPT ![l] = LeaseTime]
    /\ running' = running \cup {l} /\ holder' = l
    /\ UNCHANGED <<waits, crashes>>

\* Mutant: nobody looks whose lease it is.
OwnsAny(l) == TRUE
\* _owns_lease
Owns(l) == owner = ProcessOf[l]

\* extend_scheduled_job; the jobs ignore that it returned False.
Extend(l) ==
    /\ l \in running /\ Owns(l)
    /\ lease' = LeaseTime /\ until' = [until EXCEPT ![l] = LeaseTime]
    /\ UNCHANGED <<waits, owner, running, holder, crashes>>

\* The lease is given back and the job scheduled after a delay, unless another process
\* has taken the job over.
GiveBack(l, delay) ==
    /\ l \in running /\ running' = running \ {l}
    /\ until' = [until EXCEPT ![l] = 0]
    /\ \/ /\ Owns(l)
          /\ lease' = 0 /\ owner' = Nobody /\ waits' = delay /\ holder' = Nobody
       \/ ~Owns(l) /\ UNCHANGED <<lease, owner, waits, holder>>
    /\ UNCHANGED crashes

\* complete_scheduled_job
Complete(l) == GiveBack(l, Interval)
\* fail_scheduled_job: the job raised an exception.
Fail(l) == GiveBack(l, RetryDelay)

\* A process dies with its loops.
Crash(p) ==
    /\ crashes < MaxCrashes /\ crashes' = crashes + 1
    /\ running' = {l \in running : ProcessOf[l] # p}
    /\ until' = [l \in Loop |-> IF ProcessOf[l] = p THEN 0 ELSE until[l]]
    /\ UNCHANGED <<lease, waits, owner, holder>>

Left(t) == IF t = 0 THEN 0 ELSE t - 1

Tick ==
    /\ SlowLoops \/ running = {} \/ lease > 1
    /\ lease' = Left(lease) /\ waits' = Left(waits)
    /\ until' = [l \in Loop |-> Left(until[l])]
    /\ UNCHANGED <<owner, running, holder, crashes>>

Next == \/ \E l \in Loop : Claim(l) \/ Extend(l) \/ Complete(l) \/ Fail(l)
        \/ \E p \in Process : Crash(p)
        \/ Tick

Spec == Init /\ [][Next]_vars

(***************************************************************************)
(* Worker loops poll, runs end, and time passes whether or not they do.    *)
(***************************************************************************)
Fairness == WF_vars(Tick) /\ \A l \in Loop : WF_vars(Claim(l)) /\ WF_vars(Complete(l) \/ Fail(l))
FairSpec == Spec /\ Fairness

-----------------------------------------------------------------------------
\* When every loop has a process of its own, no two loops run the job with time left on
\* the lease they took or last extended, whichever of them outlive theirs or die.
RunsAlone == \A l, m \in running : until[l] > 0 /\ until[m] > 0 => l = m

\* "A worker whose lease expired must not overwrite the state of the worker that took
\* the job over": while the latest claimant runs with time left on its lease, no other
\* loop's end or extension shortens the lease or takes it away.
HolderUndisturbed ==
    [][lease > 0 /\ holder \in running /\ holder \in running' =>
          holder' = holder /\ owner' = owner /\ lease' >= Left(lease)]_vars

\* The job runs again and again, whatever processes die while they hold its lease.
RunsAgain == []<>(running # {})

=============================================================================
