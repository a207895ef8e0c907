----------------------------- MODULE RateLimiter -----------------------------
(***************************************************************************)
(* The token bucket of one user and provider (core/rate_limiter.py), and   *)
(* the transactions that draw from it: outbox units                        *)
(* (jobs/process_outbox.py) and metadata requests (core/watchlist.py).     *)
(*                                                                         *)
(* try_acquire runs inside the caller's transaction.  The bucket's row is  *)
(* locked from the decision until that transaction ends, through the       *)
(* provider request, and a rollback takes the decision back although the   *)
(* request was sent.  The clock is read before the lock is requested, so a *)
(* session that waited decides with an old reading and moves               *)
(* last_refill_at backwards.                                               *)
(*                                                                         *)
(* Time is counted in the ticks that refill one unit of a token, a token   *)
(* is Cost units, and time and tokens are whole units.                     *)
(***************************************************************************)
EXTENDS Integers

CONSTANTS
    Session,      \* transactions that may draw from the bucket
    Capacity,     \* RateLimitConfig.capacity, in units
    Cost,         \* units of one request
    MinRetry,     \* the shortest delay a refusal asks for: one second
    MaxClock,     \* bound: ticks
    MaxRollbacks  \* bound: transactions that fail after their request

ASSUME LimitAssumption ==
    /\ Capacity \in Nat /\ Cost \in Nat \ {0} /\ Cost <= Capacity /\ MinRetry \in Nat
    /\ MaxClock \in Nat /\ MaxRollbacks \in Nat

VARIABLES
    clock,
    bucket,    \* the committed row: exists, tokens, last (last_refill_at)
    pc,        \* where each session is
    now,       \* the clock as each session read it
    mine,      \* the row as the lock's holder has changed it
    due,       \* the retry_at of a session's refusal, until somebody is granted
    opened,    \* an observation window: when it opened
    sent,      \* the units of the requests sent since,
    waited,    \* the age of the clock readings used since,
    refunded   \* and the units rolled back since

vars == <<clock, bucket, pc, now, mine, due, opened, sent, waited, refunded>>

NoDue == -1
Bucket == [exists : BOOLEAN, tokens : 0 .. Capacity, last : 0 .. MaxClock]
NoBucket == [exists |-> FALSE, tokens |-> 0, last |-> 0]
Phase == {"idle", "stamped", "inserting", "sending", "denied"}

TypeOK ==
    /\ clock \in 0 .. MaxClock
    /\ bucket \in Bucket
    /\ pc \in [Session -> Phase]
    /\ now \in [Session -> 0 .. MaxClock]
    /\ mine \in [Session -> Bucket]
    /\ due \in [Session -> Int]
    /\ opened \in 0 .. MaxClock
    /\ sent \in Nat /\ waited \in Nat /\ refunded \in Nat

Init ==
    /\ clock = 0 /\ bucket = NoBucket
    /\ pc = [s \in Session |-> "idle"]
    /\ now = [s \in Session |-> 0]
    /\ mine = [s \in Session |-> NoBucket]
    /\ due = [s \in Session |-> NoDue]
    /\ opened = 0 /\ sent = 0 /\ waited = 0 /\ refunded = 0

-----------------------------------------------------------------------------
AtMost(a, b) == IF a <= b THEN a ELSE b
AtLeast(a, b) == IF a >= b THEN a ELSE b

\* The tokens of row b once it is refilled up to t.
Refilled(b, t) == AtMost(Capacity, b.tokens + AtLeast(t - b.last, 0))

\* Somebody has the row, or its uncommitted insert, locked.
Locked == \E s \in Session : pc[s] \in {"sending", "denied"}

\* now = datetime.now(), long before the lock is granted.
Stamp(s) ==
    /\ pc[s] = "idle"
    /\ pc' = [pc EXCEPT ![s] = "stamped"]
    /\ now' = [now EXCEPT ![s] = clock]
    /\ UNCHANGED <<clock, bucket, mine, due, opened, sent, waited, refunded>>

\* The SELECT finds no row.
Look(s) ==
    /\ pc[s] = "stamped" /\ ~bucket.exists
    /\ pc' = [pc EXCEPT ![s] = "inserting"]
    /\ UNCHANGED <<clock, bucket, now, mine, due, opened, sent, waited, refunded>>

\* The transaction is over.
End(s) ==
    /\ pc' = [pc EXCEPT ![s] = "idle"]
    /\ now' = [now EXCEPT ![s] = 0]
    /\ mine' = [mine EXCEPT ![s] = NoBucket]

\* The request goes out with row b as the session leaves it.
Send(s, b) ==
    /\ mine' = [mine EXCEPT ![s] = b]
    /\ pc' = [pc EXCEPT ![s] = "sending"]
    /\ due' = [r \in Session |-> NoDue]
    /\ sent' = sent + Cost
    /\ waited' = waited + (clock - now[s])
    /\ UNCHANGED <<clock, bucket, now, opened, refunded>>

\* Mutant: no unique constraint on the bucket's user and provider.
InsertAnyway(s) ==
    /\ pc[s] = "inserting" /\ ~Locked
    /\ Send(s, [exists |-> TRUE, tokens |-> Capacity - Cost, last |-> now[s]])
\* The INSERT of a first bucket waits for the insert of another session, and fails if
\* that commits.
Insert(s) ==
    /\ pc[s] = "inserting" /\ ~Locked
    /\ \/ ~bucket.exists /\ Send(s, [exists |-> TRUE, tokens |-> Capacity - Cost, last |-> now[s]])
       \/ bucket.exists /\ End(s) /\ UNCHANGED <<clock, bucket, due, opened, sent, waited, refunded>>

Grant(s) ==
    LET tokens == Refilled(bucket, now[s])
    IN /\ pc[s] = "stamped" /\ bucket.exists /\ ~Locked
       /\ tokens >= Cost
       /\ Send(s, [exists |-> TRUE, tokens |-> tokens - Cost, last |-> now[s]])

\* Mutant: a refusal moves last_refill_at but drops what was refilled.
RefusedDropped(s) == [exists |-> TRUE, tokens |-> bucket.tokens, last |-> now[s]]
\* The row after a refusal: the refill is kept.
Refused(s) == [exists |-> TRUE, tokens |-> Refilled(bucket, now[s]), last |-> now[s]]

Refuse(s) ==
    LET tokens == Refilled(bucket, now[s])
    IN /\ pc[s] = "stamped" /\ bucket.exists /\ ~Locked
       /\ tokens < Cost
       /\ mine' = [mine EXCEPT ![s] = Refused(s)]
       /\ pc' = [pc EXCEPT ![s] = "denied"]
       /\ due' = [due EXCEPT ![s] = now[s] + AtLeast(Cost - tokens, MinRetry)]
       /\ waited' = waited + (clock - now[s])
       /\ UNCHANGED <<clock, bucket, now, opened, sent, refunded>>

\* The caller's transaction commits, after the provider answered.
Commit(s) ==
    /\ pc[s] \in {"sending", "denied"}
    /\ bucket' = mine[s]
    /\ End(s)
    /\ UNCHANGED <<clock, due, opened, sent, waited, refunded>>

\* It is rolled back: the process died, or the unit's commit failed.
Rollback(s) ==
    /\ pc[s] \in {"sending", "denied"} /\ refunded < Cost * MaxRollbacks
    /\ due' = [due EXCEPT ![s] = NoDue]
    /\ refunded' = refunded + (IF pc[s] = "sending" THEN Cost ELSE 0)
    /\ End(s)
    /\ UNCHANGED <<clock, bucket, opened, sent, waited>>

Tick ==
    /\ clock < MaxClock /\ clock' = clock + 1
    /\ UNCHANGED <<bucket, pc, now, mine, due, opened, sent, waited, refunded>>

\* The observer opens its window.
Open ==
    /\ opened = 0 /\ clock > 0 /\ opened' = clock
    /\ sent' = 0 /\ waited' = 0 /\ refunded' = 0
    /\ UNCHANGED <<clock, bucket, pc, now, mine, due>>

Next == \/ \E s \in Session : \/ Stamp(s) \/ Look(s) \/ Insert(s) \/ Grant(s)
                              \/ Refuse(s) \/ Commit(s) \/ Rollback(s)
        \/ Tick \/ Open

Spec == Init /\ [][Next]_vars

-----------------------------------------------------------------------------
\* In every window of time a provider gets at most a full bucket of requests and what
\* the window refills, save for what late clock readings refill twice and what rolled
\* back transactions give back: no interleaving of sessions that create, refill and
\* draw from the bucket exceeds the limit otherwise.
RequestsBounded ==
    sent <= Capacity + (clock - opened) + waited + refunded

\* A caller that comes back at its retry_at is granted its request unless somebody else
\* was granted one in between: refusals never push a caller further back.
RetryIsGranted ==
    [][\A s \in Session : pc[s] = "stamped" /\ pc'[s] = "denied" =>
          due[s] = NoDue \/ now[s] < due[s]]_vars

=============================================================================
