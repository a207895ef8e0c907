------------------------- MODULE ScheduledLeaseProofs -------------------------
(***************************************************************************)
(* Proofs about ScheduledLease, for every set of loops and processes, and  *)
(* every lease time, interval and delay.                                   *)
(*                                                                         *)
(* Fencing rests on the owner column naming the latest claimant's process: *)
(* when no two loops share a process, a loop whose claim was superseded    *)
(* cannot own the lease.  Exclusion rests on time: a run that does not     *)
(* outlive its lease keeps the lease from expiring.                        *)
(***************************************************************************)
EXTENDS ScheduledLease, TLAPS

\* The owner is the process of the latest claimant.
OwnerIsHolder ==
    /\ owner = Nobody <=> holder = Nobody
    /\ holder # Nobody => owner = ProcessOf[holder]

\* Whoever runs within its lease holds the job's lease.
Distinct == \A l, m \in Loop : ProcessOf[l] = ProcessOf[m] => l = m
RunnersHold ==
    /\ Distinct => \A l \in running : until[l] > 0 => owner = ProcessOf[l] /\ until[l] = lease
    /\ ~SlowLoops => \A l \in running : holder = l /\ lease > 0

Inv == TypeOK /\ OwnerIsHolder /\ RunnersHold /\ lease <= LeaseTime

LEMMA InvInit == Init => Inv
  BY LeaseAssumption DEF Init, Inv, TypeOK, OwnerIsHolder, RunnersHold

LEMMA InvStep == Inv /\ [Next]_vars => Inv'
<1> SUFFICES ASSUME Inv, [Next]_vars PROVE Inv'
  OBVIOUS
<1> USE LeaseAssumption DEF Inv, TypeOK, OwnerIsHolder, RunnersHold, Distinct, Owns
<1>1. ASSUME NEW l \in Loop, Claim(l) PROVE Inv'
  BY <1>1 DEF Claim, Claimable
<1>2. ASSUME NEW l \in Loop, Extend(l) PROVE Inv'
  BY <1>2 DEF Extend
<1>3. ASSUME NEW l \in Loop, NEW delay \in Nat, GiveBack(l, delay) PROVE Inv'
  BY <1>3 DEF GiveBack
<1>4. ASSUME NEW p \in Process, Crash(p) PROVE Inv'
  BY <1>4 DEF Crash
<1>5. CASE Tick
  BY <1>5 DEF Tick, Left
<1>6. CASE UNCHANGED vars
  BY <1>6 DEF vars
<1> QED
  BY <1>1, <1>2, <1>3, <1>4, <1>5, <1>6 DEF Next, Complete, Fail

LEMMA Invariance == Spec => []Inv
  BY InvInit, InvStep, PTL DEF Spec

\* No two loops of different processes run the job within their leases, however late
\* others are and whoever dies.
THEOREM LeaseExcludes ==
  ASSUME \A l, m \in Loop : ProcessOf[l] = ProcessOf[m] => l = m
  PROVE  Spec => []RunsAlone
<1>1. Inv => RunsAlone
  BY LeaseAssumption DEF Inv, TypeOK, RunnersHold, Distinct, RunsAlone
<1> QED
  BY <1>1, Invariance, PTL

\* As long as no run outlives its lease, one loop at a time runs the job at all, even
\* when loops share a process and so an owner.
THEOREM RunsInTimeExclude ==
  ASSUME ~SlowLoops
  PROVE  Spec => [](\A l, m \in running : l = m)
<1>1. Inv => \A l, m \in running : l = m
  BY DEF Inv, RunnersHold
<1> QED
  BY <1>1, Invariance, PTL

\* When every loop has a process of its own, a run that lost its lease never touches
\* the lease of the loop that took the job over, however late it ends.
THEOREM LeaseFences ==
  ASSUME \A l, m \in Loop : ProcessOf[l] = ProcessOf[m] => l = m
  PROVE  Spec => HolderUndisturbed
<1>1. ASSUME Inv, [Next]_vars, lease > 0, holder \in running, holder \in running'
      PROVE  holder' = holder /\ owner' = owner /\ lease' >= Left(lease)
  <2> USE <1>1, LeaseAssumption DEF Inv, TypeOK, OwnerIsHolder
  <2>1. lease >= Left(lease)
    BY DEF Left
  <2>2. ASSUME NEW l \in Loop, NEW delay \in Nat, GiveBack(l, delay)
        PROVE  UNCHANGED <<holder, owner, lease>>
    <3>1. l # holder
      BY <2>2 DEF GiveBack
    <3>2. ~Owns(l)
      BY <3>1 DEF Owns
    <3> QED
      BY <2>2, <3>2 DEF GiveBack
  <2>3. CASE Tick
    BY <2>3 DEF Tick, Left
  <2>4. ASSUME NEW l \in Loop, Claim(l) PROVE FALSE
    BY <2>4 DEF Claim, Claimable
  <2>5. ASSUME NEW l \in Loop, Extend(l)
        PROVE  UNCHANGED <<holder, owner>> /\ lease' >= Left(lease)
    BY <2>5 DEF Extend, Left
  <2> QED
    BY <2>1, <2>2, <2>3, <2>4, <2>5 DEF Next, Complete, Fail, Crash, vars
<1>2. Inv /\ [Next]_vars => [lease > 0 /\ holder \in running /\ holder \in running' =>
                                holder' = holder /\ owner' = owner /\ lease' >= Left(lease)]_vars
  BY <1>1
<1> QED
  BY <1>2, Invariance, PTL DEF Spec, HolderUndisturbed

=============================================================================
