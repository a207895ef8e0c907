---------------------------- MODULE ServicesProofs ----------------------------
(***************************************************************************)
(* Proofs about RateLimiter, for every capacity, cost and set of sessions, *)
(* and about TokenRefresh, for any number of workers, tokens and faults,   *)
(* and that it implements TokenStore, and about RatingDelivery, for any of *)
(* its providers and ratings, and any number of jobs, attempts and events, *)
(* and about Listing, for every finite set of titles, list of parts, page  *)
(* size and page cap.  The four do not interact.                           *)
(*                                                                         *)
(* Requests are bounded because what was sent in the window plus what a    *)
(* caller with a fresh clock could still draw never exceeds the budget:    *)
(* time adds the same to both sides, a draw moves units from one summand   *)
(* to the other, and a late clock reading adds at most its own age.  While *)
(* a transaction is open this must hold of the row it will commit and, but *)
(* for the request it sent, of the row a rollback leaves.                  *)
(*                                                                         *)
(* Tokens stay current because a worker that asks under the row's lock     *)
(* asks with what the row holds (Asker), and while it holds the lock       *)
(* nobody else can spend that token.  The others that may ask are those    *)
(* that found no row to lock.  Their token is not the one the row holds by *)
(* now, because a row that is gone only comes back with a token no other   *)
(* worker has (Unsaved).  So the row falls behind the provider only        *)
(* between a rotation and its commit, or when an answer was lost.          *)
(*                                                                         *)
(* The provider gets the rating the user last gave because, until it has,  *)
(* a job is left that carries it (Current); a delivery that ends without   *)
(* success only leaves the job, or is of one that is stale.                *)
(*                                                                         *)
(* A fetch keeps what is listed because a title not yet read stays ahead   *)
(* of the reader (IsAhead): what is added comes first and only pushes it   *)
(* back, and what goes pulls it past the reader only from a page already   *)
(* read, or by moving it to another part (shifted).  Links are left alone  *)
(* until the fetch ends.                                                   *)
(***************************************************************************)
EXTENDS RateLimiter, TokenRefresh, RatingDelivery, Listing, FiniteSetTheorems, TLAPS

(* The rate limiter *)

Holding == {"sending", "denied"}

\* What a caller whose clock is right could draw from row b.
Available(b) == IF b.exists THEN Refilled(b, clock) ELSE Capacity
Budget == Capacity + (clock - opened) + waited + refunded
InFlight == IF \E s \in Session : pc[s] = "sending" THEN Cost ELSE 0

OneHolder == \A r, s \in Session : pc[r] \in Holding /\ pc[s] \in Holding => r = s
ReadingsPast ==
    /\ opened <= clock /\ bucket.last <= clock
    /\ \A s \in Session : now[s] <= clock /\ mine[s].last <= clock
RowBound == sent + Available(bucket) <= Budget + InFlight
HeldBound == \A s \in Session : pc[s] \in Holding => /\ mine[s].exists
                                                     /\ sent + Available(mine[s]) <= Budget

\* Row b grants the request of s at its retry_at.
Grants(b, s) == b.exists /\ b.tokens + (due[s] - b.last) >= Cost
DuesGranted ==
    \A s \in Session : due[s] # NoDue =>
        /\ pc[s] # "denied" => Grants(bucket, s)
        /\ \A r \in Session : pc[r] = "denied" => Grants(mine[r], s)
SendingClearsDues ==
    \A r \in Session : pc[r] = "sending" => \A s \in Session : due[s] = NoDue

LimiterInv == TypeOK /\ OneHolder /\ ReadingsPast /\ RowBound /\ HeldBound /\ DuesGranted /\ SendingClearsDues

-----------------------------------------------------------------------------
LEMMA RefilledBounds ==
  ASSUME NEW b \in Bucket, NEW t \in 0 .. MaxClock
  PROVE  /\ Refilled(b, t) \in 0 .. Capacity
         /\ t >= b.last => Refilled(b, t) <= b.tokens + (t - b.last)
         /\ t < b.last => Refilled(b, t) = b.tokens
         /\ t >= b.last /\ Refilled(b, t) # Capacity => Refilled(b, t) = b.tokens + (t - b.last)
  BY LimitAssumption DEF Refilled, AtMost, AtLeast, Bucket

\* A draw or a refusal with a reading of age clock - t leaves at most that much more.
LEMMA DrawBound ==
  ASSUME TypeOK, NEW b \in Bucket, b.last <= clock, NEW t \in 0 .. MaxClock, t <= clock,
         NEW c \in {0, Cost}, c <= Refilled(b, t), NEW d \in Bucket, d.exists,
         d.tokens = Refilled(b, t) - c, d.last = t
  PROVE  Refilled(d, clock) + c <= Refilled(b, clock) + (clock - t)
<1>1. clock \in 0 .. MaxClock /\ t \in Int /\ clock \in Int /\ c \in Nat
  BY LimitAssumption DEF TypeOK
<1>2. b.tokens \in 0 .. Capacity /\ b.last \in Int /\ d.tokens \in 0 .. Capacity
  BY DEF Bucket
<1> QED
  BY <1>1, <1>2, LimitAssumption DEF Refilled, AtMost, AtLeast

LEMMA InitHolds == Init => LimiterInv
<1> SUFFICES ASSUME Init PROVE LimiterInv
  OBVIOUS
<1> USE LimitAssumption DEF Init
<1>1. TypeOK
  BY DEF TypeOK, Bucket, NoBucket, Phase, NoDue
<1>2. OneHolder /\ ReadingsPast /\ HeldBound /\ DuesGranted /\ SendingClearsDues
  BY DEF SendingClearsDues, OneHolder, ReadingsPast, HeldBound, DuesGranted, Holding, NoBucket
<1>3. RowBound
  BY DEF RowBound, Available, Budget, InFlight, NoBucket
<1> QED
  BY <1>1, <1>2, <1>3 DEF LimiterInv

-----------------------------------------------------------------------------
(* The transactions: what each leaves in its copy of the row. *)

LEMMA SendHolds ==
  ASSUME LimiterInv, NEW s \in Session, NEW b \in Bucket, pc[s] \in Phase \ Holding, ~Locked,
         b.exists, b.last = now[s],
         Refilled(b, clock) + Cost <= Available(bucket) + (clock - now[s]), Send(s, b)
  PROVE  LimiterInv'
<1> USE DEF LimiterInv, Send
<1>0. clock \in 0 .. MaxClock /\ now[s] \in 0 .. MaxClock /\ now[s] <= clock
  BY DEF TypeOK, ReadingsPast
<1>1. TypeOK'
  BY <1>0, LimitAssumption DEF TypeOK, Phase, NoDue
<1>2. OneHolder' /\ ReadingsPast' /\ SendingClearsDues'
  BY DEF SendingClearsDues, OneHolder, ReadingsPast, Holding, Locked, TypeOK
<1>3. InFlight = 0 /\ InFlight' = Cost
  BY DEF InFlight, Locked, TypeOK
<1>4. /\ clock \in Int /\ opened \in Int /\ sent \in Nat /\ waited \in Nat /\ refunded \in Nat
      /\ now[s] \in Int /\ now[s] <= clock /\ Available(bucket) \in Int /\ Refilled(b, clock) \in Int
  BY LimitAssumption, RefilledBounds DEF TypeOK, ReadingsPast, Available
<1>5. RowBound'
  BY <1>3, <1>4, LimitAssumption DEF RowBound, Budget, Available, Refilled
<1>6. HeldBound'
  <2> SUFFICES ASSUME NEW r \in Session, pc'[r] \in Holding
               PROVE  mine'[r].exists /\ sent' + Available(mine[r])' <= Budget'
    BY DEF HeldBound
  <2>1. r = s
    BY DEF Locked, Holding, TypeOK
  <2>2. mine'[r] = b
    BY <2>1 DEF TypeOK
  <2> QED
    BY <1>3, <1>4, <2>2, LimitAssumption DEF RowBound, Budget, Available, Refilled
<1>7. DuesGranted'
  BY DEF DuesGranted
<1> QED
  BY <1>1, <1>2, <1>5, <1>6, <1>7

LEMMA RefuseHolds ==
  ASSUME LimiterInv, NEW s \in Session, Refuse(s)
  PROVE  LimiterInv'
<1> USE DEF LimiterInv
<1>0. /\ clock \in 0 .. MaxClock /\ now[s] \in 0 .. MaxClock /\ now[s] <= clock /\ bucket \in Bucket
      /\ bucket.last <= clock /\ bucket.exists
  BY DEF TypeOK, ReadingsPast, Refuse
<1>1. /\ Refused(s) \in Bucket /\ Refused(s).exists /\ Refused(s).last = now[s]
      /\ Refused(s).tokens = Refilled(bucket, now[s])
  BY <1>0, RefilledBounds DEF Refused, Bucket
<1>2. TypeOK'
  BY <1>0, <1>1, RefilledBounds, LimitAssumption DEF TypeOK, Refuse, Phase, AtLeast
<1>3. OneHolder' /\ ReadingsPast' /\ SendingClearsDues'
  BY <1>0, <1>1 DEF SendingClearsDues, OneHolder, ReadingsPast, Holding, Locked, TypeOK, Refuse
<1>4. Refilled(Refused(s), clock) <= Refilled(bucket, clock) + (clock - now[s])
  <2>1. Refilled(bucket, now[s]) - 0 = Refilled(bucket, now[s]) /\ 0 <= Refilled(bucket, now[s])
    BY <1>0, RefilledBounds
  <2>2. Refilled(Refused(s), clock) + 0 <= Refilled(bucket, clock) + (clock - now[s])
    BY <1>0, <1>1, <2>1, DrawBound
  <2> QED
    BY <1>0, <1>1, <2>2, RefilledBounds
<1>5. /\ clock \in Int /\ opened \in Int /\ sent \in Nat /\ waited \in Nat /\ refunded \in Nat
      /\ now[s] \in Int /\ Refilled(bucket, clock) \in Int /\ Refilled(Refused(s), clock) \in Int
  BY <1>0, <1>1, LimitAssumption, RefilledBounds DEF TypeOK
<1>6. InFlight = 0 /\ InFlight' = 0
  BY DEF InFlight, Locked, TypeOK, Refuse
<1>7. RowBound'
  BY <1>0, <1>5, <1>6, LimitAssumption DEF RowBound, Budget, Available, Refilled, Refuse
<1>8. HeldBound'
  <2> SUFFICES ASSUME NEW r \in Session, pc'[r] \in Holding
               PROVE  mine'[r].exists /\ sent' + Available(mine[r])' <= Budget'
    BY DEF HeldBound
  <2>1. mine'[r] = Refused(s)
    BY DEF Locked, Holding, TypeOK, Refuse
  <2> QED
    BY <1>0, <1>1, <1>4, <1>5, <1>6, <2>1, LimitAssumption
    DEF RowBound, Budget, Available, Refilled, Refuse
<1>9. DuesGranted'
  <2> SUFFICES ASSUME NEW d \in Session, due'[d] # NoDue
               PROVE  /\ pc'[d] # "denied" => Grants(bucket, d)'
                      /\ \A r \in Session : pc'[r] = "denied" => Grants(mine[r], d)'
    BY DEF DuesGranted
  <2>1. \A r \in Session : pc'[r] = "denied" => mine'[r] = Refused(s) /\ r = s
    BY DEF Locked, TypeOK, Refuse
  <2>2. pc'[s] = "denied" /\ bucket' = bucket
    BY DEF TypeOK, Refuse
  <2>3. CASE d = s
    <3>1. due'[d] = now[s] + AtLeast(Cost - Refilled(bucket, now[s]), MinRetry)
      BY <2>3 DEF TypeOK, Refuse
    <3>2. Refused(s).tokens + (due'[d] - Refused(s).last) >= Cost
      BY <1>0, <1>1, <1>5, <3>1, RefilledBounds, LimitAssumption DEF AtLeast
    <3> QED
      BY <1>1, <2>1, <2>2, <2>3, <3>2 DEF Grants
  <2>4. CASE d # s
    <3>1. due'[d] = due[d] /\ pc'[d] = pc[d] /\ pc[d] # "denied" /\ due[d] \in Int
      BY <2>4 DEF Locked, TypeOK, Refuse
    <3>2. bucket.tokens + (due[d] - bucket.last) >= Cost
      BY <3>1 DEF DuesGranted, Grants
    <3>3. Refilled(bucket, now[s]) # Capacity
      BY <1>0, RefilledBounds, LimitAssumption DEF Refuse
    <3>4. bucket.tokens \in Int /\ bucket.last \in Int
      BY <1>0 DEF Bucket
    <3>5. Refused(s).tokens + (due[d] - Refused(s).last) >= Cost
      BY <1>0, <1>1, <1>5, <3>1, <3>2, <3>3, <3>4, RefilledBounds, LimitAssumption
    <3> QED
      BY <1>0, <1>1, <2>1, <2>2, <3>1, <3>2, <3>5 DEF Grants
  <2> QED
    BY <2>3, <2>4
<1> QED
  BY <1>2, <1>3, <1>7, <1>8, <1>9

LEMMA CommitHolds ==
  ASSUME LimiterInv, NEW s \in Session, Commit(s)
  PROVE  LimiterInv'
<1> USE DEF LimiterInv, Commit, End
<1>1. TypeOK'
  BY LimitAssumption DEF TypeOK, Phase, NoBucket, Bucket
<1>2. OneHolder' /\ ReadingsPast' /\ SendingClearsDues'
  BY LimitAssumption DEF SendingClearsDues, OneHolder, ReadingsPast, Holding, TypeOK, NoBucket, Bucket
<1>3. \A r \in Session : pc'[r] \notin Holding
  BY DEF OneHolder, Holding, TypeOK
<1>4. RowBound'
  <2>1. InFlight' = 0
    BY <1>3 DEF InFlight, Holding
  <2>2. bucket' = mine[s] /\ sent + Available(mine[s]) <= Budget /\ mine[s] \in Bucket
    BY DEF HeldBound, Holding, TypeOK
  <2>3. UNCHANGED <<sent, clock, opened, waited, refunded>>
    OBVIOUS
  <2>4. Budget' = Budget /\ Available(bucket)' = Available(mine[s]) /\ Budget \in Int
    BY <2>2, <2>3, LimitAssumption DEF Budget, Available, Refilled, TypeOK
  <2> QED
    BY <2>1, <2>2, <2>3, <2>4 DEF RowBound
<1>5. HeldBound'
  BY <1>3 DEF HeldBound
<1>6. DuesGranted'
  <2> SUFFICES ASSUME NEW d \in Session, due'[d] # NoDue PROVE Grants(bucket, d)'
    BY <1>3 DEF DuesGranted, Holding
  <2>1. due' = due /\ bucket' = mine[s] /\ pc[s] \in Holding
    BY DEF Holding
  <2>2. CASE pc[s] = "denied"
    BY <2>1, <2>2 DEF DuesGranted, Grants
  <2>3. CASE pc[s] = "sending"
    BY <2>1, <2>3 DEF DuesGranted, SendingClearsDues
  <2> QED
    BY <2>1, <2>2, <2>3 DEF Holding
<1> QED
  BY <1>1, <1>2, <1>4, <1>5, <1>6

LEMMA RollbackHolds ==
  ASSUME LimiterInv, NEW s \in Session, Rollback(s)
  PROVE  LimiterInv'
<1> USE DEF LimiterInv, Rollback, End
<1>1. TypeOK'
  BY LimitAssumption DEF TypeOK, Phase, NoBucket, Bucket, NoDue
<1>2. OneHolder' /\ ReadingsPast' /\ SendingClearsDues'
  BY LimitAssumption DEF SendingClearsDues, OneHolder, ReadingsPast, Holding, TypeOK, NoBucket, Bucket
<1>3. \A r \in Session : pc'[r] \notin Holding
  BY DEF OneHolder, Holding, TypeOK
<1>4. RowBound'
  <2>1. InFlight' = 0
    BY <1>3 DEF InFlight, Holding
  <2>2. refunded' = refunded + InFlight
    BY DEF InFlight, OneHolder, Holding
  <2>3. UNCHANGED <<sent, clock, opened, waited, bucket>>
    OBVIOUS
  <2>4. /\ Budget' = Budget + InFlight /\ Available(bucket)' = Available(bucket)
        /\ Budget \in Int /\ InFlight \in Int
    BY <2>2, <2>3, LimitAssumption DEF Budget, Available, Refilled, TypeOK, InFlight
  <2> QED
    BY <2>1, <2>3, <2>4 DEF RowBound
<1>5. HeldBound'
  BY <1>3 DEF HeldBound
<1>6. DuesGranted'
  <2> SUFFICES ASSUME NEW d \in Session, due'[d] # NoDue PROVE Grants(bucket, d)'
    BY <1>3 DEF DuesGranted, Holding
  <2>1. d # s /\ due'[d] = due[d]
    BY DEF TypeOK
  <2>2. pc[d] # "denied"
    BY <2>1 DEF OneHolder, Holding
  <2> QED
    BY <2>1, <2>2 DEF DuesGranted, Grants
<1> QED
  BY <1>1, <1>2, <1>4, <1>5, <1>6

LEMMA InsertHolds ==
  ASSUME LimiterInv, NEW s \in Session, Insert(s)
  PROVE  LimiterInv'
<1> USE DEF LimiterInv
<1> DEFINE b == [exists |-> TRUE, tokens |-> Capacity - Cost, last |-> now[s]]
<1>1. CASE ~bucket.exists /\ Send(s, b)
  <2>1. b \in Bucket /\ b.exists /\ b.last = now[s] /\ b.tokens = Capacity - Cost
    BY LimitAssumption DEF Bucket, TypeOK
  <2>2. clock \in 0 .. MaxClock /\ now[s] \in 0 .. MaxClock /\ now[s] <= clock
    BY DEF TypeOK, ReadingsPast
  <2>3. Available(bucket) = Capacity
    BY <1>1 DEF Available
  <2>4. Refilled(b, clock) + Cost <= Available(bucket) + (clock - now[s])
    <3>1. Refilled(b, clock) <= b.tokens + (clock - now[s])
      BY <2>1, <2>2, RefilledBounds
    <3> HIDE DEF b
    <3> QED
      BY <2>1, <2>2, <2>3, <3>1, RefilledBounds, LimitAssumption
  <2>5. pc[s] \in Phase \ Holding /\ ~Locked
    BY DEF Insert, Phase, Holding
  <2> HIDE DEF b
  <2> QED
    BY <1>1, <2>1, <2>4, <2>5, SendHolds
<1>2. CASE bucket.exists /\ End(s) /\ UNCHANGED <<clock, bucket, due, opened, sent, waited, refunded>>
  <2>1. TypeOK'
    BY <1>2, LimitAssumption DEF End, TypeOK, Phase, NoBucket, Bucket
  <2>2. \A r \in Session : /\ pc'[r] # "sending" <=> pc[r] # "sending"
                           /\ pc'[r] = "denied" <=> pc[r] = "denied"
                           /\ pc[r] \notin Holding
    BY <1>2 DEF End, Insert, Locked, Holding, TypeOK
  <2>3. OneHolder' /\ ReadingsPast' /\ SendingClearsDues'
    BY <1>2, <2>2, LimitAssumption
    DEF End, OneHolder, ReadingsPast, SendingClearsDues, Holding, TypeOK, NoBucket
  <2>4. RowBound'
    BY <1>2, <2>2 DEF RowBound, InFlight, Budget, Available, Refilled
  <2>5. HeldBound' /\ DuesGranted'
    BY <1>2, <2>2 DEF HeldBound, DuesGranted, Holding, Grants
  <2> QED
    BY <2>1, <2>3, <2>4, <2>5
<1> QED
  BY <1>1, <1>2 DEF Insert

LEMMA GrantHolds ==
  ASSUME LimiterInv, NEW s \in Session, Grant(s)
  PROVE  LimiterInv'
<1> USE DEF LimiterInv
<1> DEFINE b == [exists |-> TRUE, tokens |-> Refilled(bucket, now[s]) - Cost, last |-> now[s]]
<1>1. /\ clock \in 0 .. MaxClock /\ now[s] \in 0 .. MaxClock /\ now[s] <= clock
      /\ bucket \in Bucket /\ bucket.last <= clock /\ bucket.exists
      /\ Cost <= Refilled(bucket, now[s])
  BY DEF TypeOK, ReadingsPast, Grant
<1>2. /\ b \in Bucket /\ b.exists /\ b.last = now[s]
      /\ b.tokens = Refilled(bucket, now[s]) - Cost
  BY <1>1, RefilledBounds, LimitAssumption DEF Bucket
<1>3. Refilled(b, clock) + Cost <= Refilled(bucket, clock) + (clock - now[s])
  BY <1>1, <1>2, DrawBound
<1>4. Available(bucket) = Refilled(bucket, clock)
  BY <1>1 DEF Available
<1>5. pc[s] \in Phase \ Holding /\ ~Locked /\ Send(s, b)
  BY DEF Grant, Phase, Holding
<1> HIDE DEF b
<1> QED
  BY <1>2, <1>3, <1>4, <1>5, SendHolds

\* The steps that touch neither the row nor a decision.
LEMMA QuietHolds ==
  ASSUME LimiterInv, (\E s \in Session : Stamp(s) \/ Look(s)) \/ UNCHANGED vars
  PROVE  LimiterInv'
<1> USE DEF LimiterInv
<1>1. UNCHANGED <<clock, bucket, mine, due, opened, sent, waited, refunded>>
  BY DEF Stamp, Look, vars
<1>2. \A r \in Session : /\ pc'[r] = "sending" <=> pc[r] = "sending"
                         /\ pc'[r] = "denied" <=> pc[r] = "denied"
                         /\ now'[r] \in {now[r], clock}
  BY DEF Stamp, Look, vars, TypeOK
<1>3. TypeOK'
  BY DEF TypeOK, Stamp, Look, vars, Phase
<1>4. OneHolder' /\ ReadingsPast' /\ SendingClearsDues'
  BY <1>1, <1>2, LimitAssumption DEF OneHolder, ReadingsPast, SendingClearsDues, Holding, TypeOK
<1>5. RowBound'
  BY <1>1, <1>2 DEF RowBound, InFlight, Budget, Available, Refilled
<1>6. HeldBound' /\ DuesGranted'
  BY <1>1, <1>2 DEF HeldBound, DuesGranted, Holding, Grants, Budget, Available, Refilled
<1> QED
  BY <1>3, <1>4, <1>5, <1>6

\* Time passes, or the observer opens the window.
LEMMA ClockHolds ==
  ASSUME LimiterInv, Tick \/ Open
  PROVE  LimiterInv'
<1> USE DEF LimiterInv
<1>1. UNCHANGED <<bucket, pc, now, mine, due>>
  BY DEF Tick, Open
<1>2. TypeOK'
  BY LimitAssumption DEF TypeOK, Tick, Open
<1>3. OneHolder' /\ SendingClearsDues' /\ DuesGranted'
  BY <1>1 DEF OneHolder, SendingClearsDues, DuesGranted, Grants
<1>4. ReadingsPast'
  <2>1. clock' \in Int /\ clock' >= clock /\ opened' <= clock'
    BY LimitAssumption DEF Tick, Open, TypeOK, ReadingsPast
  <2>2. \A s \in Session : now[s] \in Int /\ mine[s].last \in Int
    BY DEF TypeOK, Bucket
  <2> QED
    BY <1>1, <2>1, <2>2, LimitAssumption DEF ReadingsPast, TypeOK, Bucket
<1>5. \A b \in Bucket : Available(b)' <= Available(b) + (clock' - clock) /\ Available(b)' <= Capacity
  BY LimitAssumption DEF Tick, Open, Available, Refilled, AtMost, AtLeast, Bucket, TypeOK
<1>6. InFlight' = InFlight /\ InFlight \in Nat
  BY <1>1, LimitAssumption DEF InFlight
<1>7. \A b \in Bucket : Available(b) \in Int /\ Available(b)' \in Int
  BY <1>2, LimitAssumption DEF TypeOK, Available, Refilled, AtMost, AtLeast, Bucket
<1>8. ASSUME NEW x \in Int, NEW y \in Int, NEW f \in Nat, y <= Capacity,
             y <= x + (clock' - clock), sent + x <= Budget + f
      PROVE  sent' + y <= Budget' + f
  <2>1. CASE Tick
    <3>1. Budget' = Budget + 1 /\ sent' = sent /\ y <= x + 1 /\ Budget \in Int /\ sent \in Int
      BY <1>8, <2>1, LimitAssumption DEF Budget, Tick, TypeOK
    <3> QED
      BY <1>8, <3>1
  <2>2. CASE Open
    <3>1. Budget' = Capacity /\ sent' = 0
      BY <2>2, LimitAssumption DEF Budget, Open, TypeOK
    <3> QED
      BY <1>8, <3>1, LimitAssumption
  <2> QED
    BY <2>1, <2>2
<1>9. RowBound'
  <2>1. bucket \in Bucket /\ Available(bucket)' <= Capacity
        /\ Available(bucket)' <= Available(bucket) + (clock' - clock)
        /\ Available(bucket)' \in Int /\ Available(bucket) \in Int
    BY <1>1, <1>5, <1>7 DEF TypeOK
  <2>2. RowBound
    OBVIOUS
  <2> QED
    BY <1>6, <1>8, <2>1, <2>2 DEF RowBound
<1>10. HeldBound'
  <2> SUFFICES ASSUME NEW s \in Session, pc[s] \in Holding
               PROVE  mine[s].exists /\ sent' + Available(mine[s])' <= Budget'
    BY <1>1 DEF HeldBound
  <2>1. /\ mine[s] \in Bucket /\ Available(mine[s])' <= Capacity
        /\ Available(mine[s])' <= Available(mine[s]) + (clock' - clock)
        /\ Available(mine[s])' \in Int /\ Available(mine[s]) \in Int
    BY <1>1, <1>5, <1>7 DEF TypeOK
  <2>2. mine[s].exists /\ sent + Available(mine[s]) <= Budget
    BY DEF HeldBound
  <2> QED
    <3>1. sent + Available(mine[s]) <= Budget + 0
      BY <2>1, <2>2, LimitAssumption DEF Budget, TypeOK
    <3>2. sent' + Available(mine[s])' <= Budget' + 0
      BY <1>8, <2>1, <3>1
    <3>3. Budget' \in Int
      BY <1>2, LimitAssumption DEF Budget, TypeOK
    <3> QED
      BY <2>2, <3>2, <3>3
<1> QED
  BY <1>2, <1>3, <1>4, <1>9, <1>10

-----------------------------------------------------------------------------
LEMMA StepHolds == LimiterInv /\ [Next]_vars => LimiterInv'
  BY QuietHolds, ClockHolds, InsertHolds, GrantHolds, RefuseHolds, CommitHolds, RollbackHolds
  DEF Next

LEMMA LimiterInvariance == Spec => []LimiterInv
  BY InitHolds, StepHolds, PTL DEF Spec

\* The limiter's variables stay in their types, in particular a bucket never holds more
\* than its capacity nor less than nothing.
THEOREM LimiterTypeCorrect == Spec => []TypeOK
<1>1. LimiterInv => TypeOK
  BY DEF LimiterInv
<1> QED
  BY <1>1, LimiterInvariance, PTL

\* Whatever window is observed and however sessions interleave, time out or roll back,
\* the requests sent in it stay within the bucket's budget.
THEOREM LimiterBoundsRequests == Spec => []RequestsBounded
<1>1. LimiterInv => RequestsBounded
  <2> SUFFICES ASSUME LimiterInv PROVE RequestsBounded
    OBVIOUS
  <2> USE DEF LimiterInv
  <2>1. /\ sent \in Int /\ Budget \in Int /\ clock \in 0 .. MaxClock /\ bucket \in Bucket
        /\ \A s \in Session : mine[s] \in Bucket
    BY LimitAssumption DEF TypeOK, Budget
  <2>2. \A b \in Bucket : Available(b) \in Int /\ Available(b) >= 0
    BY <2>1, RefilledBounds, LimitAssumption DEF Available
  <2>3. CASE \E s \in Session : pc[s] = "sending"
    <3>1. PICK s \in Session : pc[s] = "sending"
      BY <2>3
    <3>2. sent + Available(mine[s]) <= Budget
      BY <3>1 DEF HeldBound, Holding
    <3>3. Available(mine[s]) \in Int /\ Available(mine[s]) >= 0
      BY <2>1, <2>2
    <3>4. sent <= Budget
      BY <2>1, <3>2, <3>3
    <3> QED
      BY <3>4 DEF RequestsBounded, Budget
  <2>4. CASE ~\E s \in Session : pc[s] = "sending"
    <3>1. sent + Available(bucket) <= Budget
      BY <2>1, <2>2, <2>4 DEF RowBound, InFlight
    <3>2. sent <= Budget
      BY <2>1, <2>2, <3>1
    <3> QED
      BY <3>2 DEF RequestsBounded, Budget
  <2> QED
    BY <2>3, <2>4
<1> QED
  BY <1>1, LimiterInvariance, PTL

\* A caller that waits until its retry_at is granted unless another caller was.
THEOREM RetryAtIsEnough == Spec => RetryIsGranted
<1>1. ASSUME LimiterInv, [Next]_vars, NEW s \in Session, pc[s] = "stamped", pc'[s] = "denied",
             due[s] # NoDue, ~(now[s] < due[s])
      PROVE  FALSE
  <2> USE DEF LimiterInv
  <2>1. Refuse(s)
    <3>1. ~UNCHANGED vars /\ ~Tick /\ ~Open
      BY <1>1 DEF vars, Tick, Open
    <3>2. PICK r \in Session : Stamp(r) \/ Look(r) \/ Insert(r) \/ Grant(r) \/ Refuse(r) \/ Commit(r) \/ Rollback(r)
      BY <1>1, <3>1 DEF Next
    <3>3. r = s
      BY <1>1, <3>2 DEF TypeOK, Stamp, Look, Insert, Grant, Send, Refuse, Commit, Rollback, End
    <3> QED
      BY <1>1, <3>2, <3>3 DEF TypeOK, Stamp, Look, Insert, Grant, Send, Commit, Rollback, End
  <2>2. bucket.exists /\ bucket.tokens + (due[s] - bucket.last) >= Cost
    BY <1>1 DEF DuesGranted, Grants
  <2>3. /\ bucket \in Bucket /\ now[s] \in 0 .. MaxClock /\ due[s] \in Int
        /\ Refilled(bucket, now[s]) < Cost
    <3>1. Refilled(bucket, now[s]) < Cost
      BY <2>1 DEF Refuse
    <3> QED
      BY <1>1, <3>1 DEF TypeOK
  <2>4. Refilled(bucket, now[s]) \in Int /\ bucket.tokens \in Int /\ bucket.last \in Int
    BY <2>3, RefilledBounds DEF Bucket
  <2>5. CASE now[s] >= bucket.last
    BY <1>1, <2>2, <2>3, <2>4, <2>5, RefilledBounds, LimitAssumption
  <2>6. CASE now[s] < bucket.last
    BY <1>1, <2>2, <2>3, <2>4, <2>6, RefilledBounds, LimitAssumption
  <2> QED
    BY <2>3, <2>4, <2>5, <2>6
<1>2. LimiterInv /\ [Next]_vars => [\A s \in Session : pc[s] = "stamped" /\ pc'[s] = "denied" =>
                                due[s] = NoDue \/ now[s] < due[s]]_vars
  BY <1>1
<1> QED
  BY <1>2, LimiterInvariance, PTL DEF Spec, RetryIsGranted

-----------------------------------------------------------------------------
(* The tokens of an integration *)

\* Tokens are issued in order, and a worker that is at work has one.
Bounds ==
    /\ valid >= 1 /\ row.token <= valid /\ (row = NoSecret \/ row.token # 0)
    /\ \A w \in Workers : /\ copy[w].token <= valid
                          /\ at[w] # "idle" => copy[w].token # 0
                          /\ at[w] = "save" => copy[w].fresh

\* Who holds the row's lock is about to write it, and there is a row.
LockHeld ==
    /\ lock # None => at[lock] \in {"ask", "save", "expire"} /\ row # NoSecret
    /\ \A w \in Workers : at[w] = "expire" => lock = w

\* Under the lock a worker asks with the stored token, without it with another.
Asker ==
    \A w \in Workers : at[w] = "ask" =>
        IF lock = w THEN copy[w] = row /\ ~row.fresh ELSE copy[w].token # row.token

\* An answer to be stored under the lock is the latest, and replaces the one before.
Saver ==
    \A w \in Workers : at[w] = "save" /\ lock = w =>
        copy[w].token = valid /\ row.token = valid - 1 /\ ~row.fresh

\* A token that is not stored yet is nowhere but with the worker that got it.
Unsaved ==
    \A u \in Pending : row.token # copy[u].token /\ \A v \in Workers \ {u} : copy[v].token # copy[u].token

\* Unless an answer was lost the stored token is the one the provider accepts, or about to be
\* replaced by it.
Sound ==
    ~unsound /\ row # NoSecret =>
        (\A u \in Pending : lock = u) /\ (row.token = valid \/ lock \in Pending)

TokenInv == TokenTypeOK /\ Bounds /\ LockHeld /\ Asker /\ Saver /\ Unsaved /\ Sound

LEMMA InitInv == TokenInit => TokenInv
<1> SUFFICES ASSUME TokenInit PROVE TokenInv
  OBVIOUS
<1>1. [token |-> 1, fresh |-> TRUE] \in Secret /\ NoSecret \in Secret /\ 1 \in Token
  BY TokenAssumption DEF Token, Secret, NoSecret
<1>2. TokenTypeOK
  BY <1>1 DEF TokenInit, TokenTypeOK
<1>3. Bounds /\ LockHeld /\ Asker /\ Saver /\ Unsaved /\ Sound
  BY <1>1 DEF TokenInit, NoSecret, Bounds, LockHeld, Asker, Saver, Unsaved, Sound, Pending
<1> QED
  BY <1>2, <1>3 DEF TokenInv

-----------------------------------------------------------------------------
(* Steps that leave the row and the provider alone. *)

\* A worker moves without the lock to a place where it neither asks nor stores, with its copy or
\* the row's.
LEMMA Walk ==
  ASSUME TokenInv, NEW w \in Workers, at[w] \notin {"ask", "save", "expire"},
         NEW step \in {"idle", "have", "want", "refused"}, Goto(w, step),
         \/ copy' = copy /\ (step = "idle" \/ at[w] # "idle")
         \/ Keep(w, row) /\ row # NoSecret,
         UNCHANGED <<valid, row, lock, unsound>>
  PROVE  TokenInv'
<1> USE DEF TokenInv, TokenTypeOK, Goto, Keep
<1>1. /\ at' \in [Workers -> {"idle", "have", "want", "ask", "save", "refused", "expire"}]
      /\ at'[w] = step /\ \A v \in Workers \ {w} : at'[v] = at[v]
  OBVIOUS
<1>2. /\ copy' \in [Workers -> Secret]
      /\ \A v \in Workers \ {w} : copy'[v] = copy[v]
      /\ copy'[w] = copy[w] \/ (copy'[w] = row /\ row # NoSecret)
      /\ copy'[w] = copy[w] \/ copy'[w] = row
  OBVIOUS
<1> QED
  BY <1>1, <1>2 DEF Bounds, LockHeld, Asker, Saver, Unsaved, Sound, Pending

LEMMA WalkSteps ==
  ASSUME TokenInv, NEW w \in Workers,
         Load(w) \/ UseLoaded(w) \/ AccessRefused(w) \/ Want(w)
  PROVE  TokenInv'
<1>1. CASE Load(w)
  BY <1>1, Walk DEF Load
<1>2. CASE UseLoaded(w)
  BY <1>2, Walk DEF UseLoaded
<1>3. CASE AccessRefused(w)
  BY <1>3, Walk DEF AccessRefused
<1>4. CASE Want(w)
  BY <1>4, Walk DEF Want
<1> QED
  BY <1>1, <1>2, <1>3, <1>4

\* The second look: the stored token if there is one, and another's otherwise.
LEMMA LockStep == ASSUME TokenInv, NEW w \in Workers, Lock(w) PROVE TokenInv'
<1> USE DEF TokenInv, TokenTypeOK, Lock, Goto, Keep, Latest, FreshAgain
<1>1. /\ copy' \in [Workers -> Secret] /\ UNCHANGED <<valid, row, unsound>> /\ lock = None
      /\ copy'[w] = (IF row = NoSecret THEN copy[w] ELSE row)
      /\ \A v \in Workers \ {w} : copy'[v] = copy[v]
  OBVIOUS
<1>2. \A v \in Workers \ {w} : at'[v] = at[v]
  OBVIOUS
<1>3. \/ at'[w] = "idle" /\ lock' = None
      \/ at'[w] = "ask" /\ ~copy'[w].fresh /\ lock' = IF row = NoSecret THEN None ELSE w
  OBVIOUS
<1>4. TokenTypeOK'
  BY <1>1
<1>5. at[w] = "want" /\ None \notin Workers
  BY TokenAssumption
<1> QED
  BY <1>1, <1>2, <1>3, <1>4, <1>5 DEF Bounds, LockHeld, Asker, Saver, Unsaved, Sound, Pending, NoSecret

\* A rotation: under the lock the row is now one behind; without it, the row was not current.
LEMMA RotateStep == ASSUME TokenInv, NEW w \in Workers, Rotate(w) PROVE TokenInv'
<1> USE DEF TokenInv, TokenTypeOK, Rotate, Goto, Keep
<1>1. /\ valid' = valid + 1 /\ valid' \in Token /\ valid \in Nat
      /\ UNCHANGED <<row, lock, unsound>>
      /\ at'[w] = "save" /\ \A v \in Workers \ {w} : at'[v] = at[v]
      /\ copy'[w] = [token |-> valid + 1, fresh |-> TRUE] /\ \A v \in Workers \ {w} : copy'[v] = copy[v]
      /\ at[w] = "ask" /\ copy[w].token = valid
  BY TokenAssumption DEF Token
<1>2. TokenTypeOK'
  BY <1>1 DEF Secret
<1>3. \A v \in Workers : copy[v].token \in Nat /\ row.token \in Nat
  BY DEF Secret, Token
<1>4. \A u \in Pending : lock # u
  BY <1>1 DEF Saver, Unsaved, Pending
<1> QED
  BY <1>1, <1>2, <1>3, <1>4 DEF Bounds, LockHeld, Asker, Saver, Unsaved, Sound, Pending, NoSecret

\* The worker leaves the row as it is and gives back the lock, if it had it.
LEMMA LeaveStep ==
  ASSUME TokenInv, NEW w \in Workers, at[w] \in {"ask", "save", "expire"}, Goto(w, "idle"), lock' = Free(w),
         unsound' \in BOOLEAN, unsound \/ at[w] = "save" => unsound', UNCHANGED <<valid, row, copy>>
  PROVE  TokenInv'
<1> USE DEF TokenInv, TokenTypeOK, Goto, Free
<1>1. at'[w] = "idle" /\ \A v \in Workers \ {w} : at'[v] = at[v]
  OBVIOUS
<1>2. TokenTypeOK' /\ None \notin Workers
  BY TokenAssumption
<1> QED
  BY <1>1, <1>2 DEF Bounds, LockHeld, Asker, Saver, Unsaved, Sound, Pending

LEMMA SaveStep == ASSUME TokenInv, NEW w \in Workers, Save(w) PROVE TokenInv'
<1> USE DEF TokenInv, TokenTypeOK, Save, Merged, Goto, Free
<1>1. /\ row' = copy[w] /\ UNCHANGED <<valid, copy>> /\ at[w] = "save"
      /\ at'[w] = "idle" /\ \A v \in Workers \ {w} : at'[v] = at[v]
      /\ lock' = None /\ lock \in {w, None} /\ unsound' = (unsound \/ lock # w)
  OBVIOUS
<1>2. TokenTypeOK' /\ None \notin Workers
  BY TokenAssumption
<1>3. copy[w].token # 0 /\ copy[w] # NoSecret
  BY <1>1 DEF Bounds, NoSecret
<1>4. Bounds' /\ LockHeld'
  BY <1>1, <1>2, <1>3 DEF Bounds, LockHeld
<1>5. Asker' /\ Saver' /\ Unsaved'
  BY <1>1, <1>2 DEF Asker, Saver, Unsaved, Pending
<1>6. Sound'
  BY <1>1, <1>2 DEF LockHeld, Saver, Sound, Pending
<1> QED
  BY <1>2, <1>4, <1>5, <1>6

LEMMA ExpireSteps ==
  ASSUME TokenInv, NEW w \in Workers, LockToExpire(w) \/ ExpireToken(w)
  PROVE  TokenInv'
<1> USE DEF TokenInv, TokenTypeOK, Goto
<1>0. None \notin Workers
  BY TokenAssumption
<1>1. CASE LockToExpire(w)
  <2>1. /\ UNCHANGED <<valid, row, copy, unsound>> /\ lock = None /\ at[w] = "refused"
        /\ \/ row = NoSecret /\ at'[w] = "idle" /\ lock' = None
           \/ row # NoSecret /\ at'[w] = "expire" /\ lock' = w
        /\ \A v \in Workers \ {w} : at'[v] = at[v]
    BY <1>1 DEF LockToExpire
  <2>2. TokenTypeOK'
    BY <1>1 DEF LockToExpire
  <2> QED
    BY <1>0, <2>1, <2>2 DEF Bounds, LockHeld, Asker, Saver, Unsaved, Sound, Pending
<1>2. CASE ExpireToken(w)
  <2>1. /\ UNCHANGED <<valid, copy, unsound>> /\ lock = w /\ lock' = None /\ at[w] = "expire"
        /\ at'[w] = "idle" /\ \A v \in Workers \ {w} : at'[v] = at[v]
        /\ row' \in Secret /\ row'.token = row.token /\ row # NoSecret
    BY <1>0, <1>2 DEF ExpireToken, LockHeld, Secret
  <2>2. TokenTypeOK'
    BY <1>2, <2>1 DEF ExpireToken
  <2> QED
    BY <1>0, <2>1, <2>2 DEF Bounds, LockHeld, Asker, Saver, Unsaved, Sound, Pending, NoSecret
<1> QED
  BY <1>1, <1>2

LEMMA UserSteps == ASSUME TokenInv, Callback \/ Disconnect \/ Expire PROVE TokenInv'
<1> USE DEF TokenInv, TokenTypeOK
<1>0. None \notin Workers /\ valid \in Nat /\ \A v \in Workers : copy[v].token \in Nat
  BY TokenAssumption DEF Token, Secret
<1>1. CASE Callback
  <2>1. /\ valid' = valid + 1 /\ valid' \in Token /\ row' = [token |-> valid + 1, fresh |-> TRUE]
        /\ lock = None /\ UNCHANGED <<lock, at, copy>> /\ unsound' = (\E w \in Workers : at[w] = "save")
    BY <1>1, <1>0, TokenAssumption DEF Callback, Token
  <2>2. TokenTypeOK'
    BY <2>1 DEF Secret
  <2> QED
    BY <1>0, <2>1, <2>2 DEF Bounds, LockHeld, Asker, Saver, Unsaved, Sound, Pending, NoSecret
<1>2. CASE Disconnect
  <2>1. row' = NoSecret /\ lock = None /\ UNCHANGED <<valid, lock, at, copy, unsound>>
    BY <1>2 DEF Disconnect
  <2>2. TokenTypeOK'
    BY <2>1, TokenAssumption DEF NoSecret, Secret, Token
  <2> QED
    BY <1>0, <2>1, <2>2 DEF Bounds, LockHeld, Asker, Saver, Unsaved, Sound, Pending, NoSecret
<1>3. CASE Expire
  <2>1. /\ row' \in Secret /\ row'.token = row.token /\ ~row'.fresh /\ row.fresh
        /\ UNCHANGED <<valid, lock, at, unsound>>
    BY <1>3 DEF Expire, Secret
  <2>2. /\ copy' \in [Workers -> Secret]
        /\ \A v \in Workers : copy'[v].token = copy[v].token /\ (at[v] = "save" => copy'[v] = copy[v])
    BY <1>3 DEF Expire, Secret
  <2>3. TokenTypeOK'
    BY <2>1, <2>2
  <2>4. row # NoSecret
    BY <2>1 DEF NoSecret
  <2> QED
    BY <1>0, <2>1, <2>2, <2>3, <2>4 DEF Bounds, LockHeld, Asker, Saver, Unsaved, Sound, Pending, NoSecret
<1> QED
  BY <1>1, <1>2, <1>3

LEMMA InvStep == TokenInv /\ [TokenNext]_tokenVars => TokenInv'
<1> SUFFICES ASSUME TokenInv, [TokenNext]_tokenVars PROVE TokenInv'
  OBVIOUS
<1>1. ASSUME NEW w \in Workers, Rejected(w) PROVE TokenInv'
  BY <1>1, LeaveStep DEF Rejected, TokenInv, TokenTypeOK
<1>2. ASSUME NEW w \in Workers, Crash(w) PROVE TokenInv'
  BY <1>2, LeaveStep DEF Crash, TokenInv, TokenTypeOK
<1>3. CASE UNCHANGED tokenVars
  BY <1>3 DEF tokenVars, TokenInv, TokenTypeOK, Bounds, LockHeld, Asker, Saver, Unsaved, Sound, Pending
<1> QED
  BY <1>1, <1>2, <1>3, WalkSteps, LockStep, RotateStep, SaveStep, ExpireSteps, UserSteps DEF TokenNext, Work

LEMMA TokenInvariance == TokenSpec => []TokenInv
  BY InitInv, InvStep, PTL DEF TokenSpec

-----------------------------------------------------------------------------
\* The document of the integration, the lock and the workers' copies keep their types.
THEOREM TokenTypeCorrect == TokenSpec => []TokenTypeOK
<1>1. TokenInv => TokenTypeOK
  BY DEF TokenInv
<1> QED
  BY <1>1, TokenInvariance, PTL

\* No worker asks with a refresh token that another one has spent, and a store that nobody is
\* about to write holds the token the provider accepts (ensure_fresh_secret), unless an answer
\* was lost or the integration disconnected under its refresh.
THEOREM TokensStayCurrent == TokenSpec => []TokensAreCurrent
<1> SUFFICES TokenInv => TokensAreCurrent
  BY TokenInvariance, PTL
<1> SUFFICES ASSUME TokenInv, ~unsound PROVE TokensAreCurrent
  BY DEF TokensAreCurrent, NoRevokedTokenSpent, StoreKeepsUp
<1>1. ASSUME NEW w \in Workers, at[w] = "ask", lock = w PROVE copy[w].token = valid
  <2>1. row # NoSecret /\ copy[w] = row /\ lock \notin Pending
    BY <1>1, TokenAssumption DEF TokenInv, LockHeld, Asker, Pending
  <2> QED
    BY <2>1 DEF TokenInv, Sound
<1>2. ASSUME row # NoSecret, \A w \in Workers : at[w] # "save" PROVE row.token = valid
  BY <1>2 DEF TokenInv, Sound, Pending
<1> QED
  BY <1>1, <1>2 DEF TokensAreCurrent, NoRevokedTokenSpent, StoreKeepsUp

-----------------------------------------------------------------------------
(* TokenRefresh implements TokenStore.                                     *)

current == IF Pending # {} /\ lock \in Pending THEN valid - 1 ELSE valid

\* The token current counts back while its successor waits for the commit under the lock.
LEMMA CurrentIs ==
  ASSUME TokenInv
  PROVE  /\ lock \in Pending => current = valid - 1 /\ lock \in Workers /\ at[lock] = "save"
         /\ lock \notin Pending => current = valid
  BY DEF current, Pending

storeVars == <<current, row.token, row.fresh, grants>>

\* What does not change the row, the provider or a pending answer is not seen.
LEMMA Unseen ==
  ASSUME TokenInv, UNCHANGED <<valid, row, grants>>, lock \notin Pending, lock' \notin Pending'
  PROVE  UNCHANGED storeVars
  BY DEF storeVars, current

LEMMA WorkerRefines ==
  ASSUME TokenInv, TokenInv', NEW w \in Workers, Work(w) \/ Crash(w)
  PROVE  Store!Next \/ UNCHANGED storeVars
<1> USE DEF Goto, Keep, Free
<1>0. /\ at \in [Workers -> {"idle", "have", "want", "ask", "save", "refused", "expire"}]
      /\ copy \in [Workers -> Secret] /\ row \in Secret /\ None \notin Workers
      /\ valid \in Nat /\ row.token \in Nat
  BY TokenAssumption DEF TokenInv, TokenTypeOK, Token, Secret
<1>1. CASE Load(w) \/ UseLoaded(w) \/ AccessRefused(w) \/ Want(w)
  <2>1. /\ UNCHANGED <<valid, row, lock, grants>> /\ Pending' = Pending
    BY <1>0, <1>1 DEF Load, UseLoaded, AccessRefused, Want, Pending
  <2> QED
    BY <2>1 DEF storeVars, current
<1>2. CASE Lock(w)
  <2>1. UNCHANGED <<valid, row, grants>> /\ lock \notin Pending /\ lock' \notin Pending'
    BY <1>0, <1>2 DEF Lock, Pending
  <2> QED
    BY <2>1, Unseen
<1>3. CASE Rotate(w)
  <2>1. /\ at[w] = "ask" /\ copy[w].token = valid /\ valid' = valid + 1
        /\ UNCHANGED <<row, lock, grants>>
        /\ at'[w] = "save" /\ \A v \in Workers \ {w} : at'[v] = at[v]
    BY <1>0, <1>3 DEF Rotate
  <2>2. lock \notin Pending
    BY <1>0, <2>1 DEF TokenInv, Saver, Unsaved, Pending
  <2>3. CASE lock = w
    BY <1>0, <2>1, <2>2, <2>3 DEF storeVars, current, Pending
  <2>4. CASE lock # w
    <3>1. row.token # valid
      BY <2>1, <2>4 DEF TokenInv, Asker
    <3>2. current = valid /\ current' = valid + 1
      BY <2>1, <2>2, <2>4 DEF current, Pending
    <3>3. Store!Lose
      BY <2>1, <3>1, <3>2 DEF Store!Lose, current
    <3> QED
      BY <3>3 DEF Store!Next
  <2> QED
    BY <2>3, <2>4
<1>4. CASE Save(w)
  <2>1. /\ row' = copy[w] /\ UNCHANGED <<valid, grants>> /\ at[w] = "save"
        /\ lock \in {w, None} /\ lock' = None
    BY <1>4 DEF Save, Merged
  <2>2. current' = valid /\ copy[w].fresh = TRUE
    BY <1>0, <2>1 DEF current, Pending, TokenInv, Bounds, Secret
  <2>3. CASE lock = w
    <3>1. current = valid - 1 /\ copy[w].token = valid /\ row.token = valid - 1 /\ ~row.fresh
      BY <2>1, <2>3 DEF current, Pending, TokenInv, Saver
    <3>2. Store!Refresh
      BY <1>0, <2>1, <2>2, <3>1 DEF Store!Refresh, current
    <3> QED
      BY <3>2 DEF Store!Next
  <2>4. CASE lock = None
    <3>1. current = valid /\ copy[w].token \in 1 .. valid /\ copy[w].token # row.token
      BY <1>0, <2>1, <2>4 DEF current, Pending, TokenInv, Bounds, Unsaved, Secret, Token
    <3>2. Store!Revive
      BY <2>1, <2>2, <3>1 DEF Store!Revive, current
    <3> QED
      BY <3>2 DEF Store!Next
  <2> QED
    BY <2>1, <2>3, <2>4
<1>5. CASE Crash(w) /\ lock = w /\ at[w] = "save"
  <2>1. UNCHANGED <<valid, row, grants>> /\ lock' = None
    BY <1>5 DEF Crash
  <2>2. current = valid - 1 /\ current' = valid /\ ~row.fresh
    BY <1>0, <1>5, <2>1 DEF current, Pending, TokenInv, Saver
  <2>3. Store!Lose
    BY <1>0, <2>1, <2>2 DEF Store!Lose, current
  <2> QED
    BY <2>3 DEF Store!Next
<1>6. CASE (Rejected(w) \/ Crash(w)) /\ ~(lock = w /\ at[w] = "save")
  <2>1. /\ UNCHANGED <<valid, row, grants>> /\ lock' = (IF lock = w THEN None ELSE lock)
        /\ at'[w] = "idle" /\ \A v \in Workers \ {w} : at'[v] = at[v]
    BY <1>0, <1>6 DEF Rejected, Crash
  <2>2. lock \in Pending => lock # w
    BY <1>6 DEF Pending
  <2>3. lock \in Pending <=> lock' \in Pending'
    BY <1>0, <2>1, <2>2 DEF Pending
  <2> QED
    BY <2>1, <2>3 DEF storeVars, current
<1>7. CASE LockToExpire(w)
  <2>1. UNCHANGED <<valid, row, grants>> /\ lock \notin Pending /\ lock' \notin Pending'
    BY <1>0, <1>7 DEF LockToExpire, Pending
  <2> QED
    BY <2>1, Unseen
<1>8. CASE ExpireToken(w)
  <2>1. /\ UNCHANGED <<valid, grants>> /\ at[w] = "expire" /\ lock = w /\ lock' = None
        /\ row'.token = row.token /\ row'.fresh = FALSE /\ row.token # 0
    BY <1>0, <1>8 DEF ExpireToken, TokenInv, LockHeld, Bounds, Secret
  <2>2. current = valid /\ current' = valid
    BY <1>0, <2>1 DEF current, Pending
  <2>3. CASE row.fresh
    BY <2>1, <2>2, <2>3 DEF Store!Expire, Store!Next, current
  <2>4. CASE ~row.fresh
    BY <1>0, <2>1, <2>2, <2>4 DEF storeVars, Secret
  <2> QED
    BY <2>3, <2>4
<1> QED
  BY <1>1, <1>2, <1>3, <1>4, <1>5, <1>6, <1>7, <1>8 DEF Work, Rejected

LEMMA UserRefines ==
  ASSUME TokenInv, TokenInv', Callback \/ Disconnect \/ Expire
  PROVE  Store!Next \/ UNCHANGED storeVars
<1>0. None \notin Workers /\ valid \in Nat /\ row \in Secret
  BY TokenAssumption DEF TokenInv, TokenTypeOK, Token
<1>1. CASE Callback
  <2>1. /\ valid' = valid + 1 /\ row'.token = valid' /\ row'.fresh = TRUE /\ grants' = grants + 1
        /\ lock = None /\ lock' = None
    BY <1>1 DEF Callback
  <2>2. current = valid /\ current' = valid'
    BY <1>0, <2>1 DEF current, Pending
  <2>3. Store!Connect
    BY <2>1, <2>2 DEF Store!Connect, current
  <2> QED
    BY <2>3 DEF Store!Next
<1>2. CASE Disconnect
  <2>1. /\ row # NoSecret /\ row' = NoSecret /\ lock = None /\ lock' = None /\ UNCHANGED <<valid, grants>>
    BY <1>2 DEF Disconnect
  <2>2. current = valid /\ current' = valid /\ row.token # 0
    BY <1>0, <2>1 DEF current, Pending, TokenInv, Bounds
  <2>3. Store!Disconnect
    BY <2>1, <2>2 DEF Store!Disconnect, current, NoSecret
  <2> QED
    BY <2>3 DEF Store!Next
<1>3. CASE Expire
  <2>1. /\ row.fresh /\ row'.token = row.token /\ row'.fresh = FALSE
        /\ UNCHANGED <<valid, lock, at, grants>>
    BY <1>0, <1>3 DEF Expire, Secret
  <2>2. row.token # 0 /\ current' = current
    BY <2>1 DEF TokenInv, Bounds, NoSecret, current, Pending
  <2>3. Store!Expire
    BY <2>1, <2>2 DEF Store!Expire, current
  <2> QED
    BY <2>3 DEF Store!Next
<1> QED
  BY <1>1, <1>2, <1>3

\* The protocol of locks, second looks, commits and crashes does what TokenStore says: one
\* refresh each time the token goes stale, and the store then holds its successor.
THEOREM RefreshesOnce == TokenSpec => RefreshedOnce
<1>1. TokenInit => Store!Init
  BY TokenAssumption DEF TokenInit, Store!Init, Pending
<1>2. TokenInv /\ TokenInv' /\ [TokenNext]_tokenVars => [Store!Next]_(Store!vars)
  <2> SUFFICES ASSUME TokenInv, TokenInv', [TokenNext]_tokenVars PROVE Store!Next \/ UNCHANGED storeVars
    BY DEF Store!vars, storeVars, current
  <2>1. CASE UNCHANGED tokenVars
    BY <2>1 DEF tokenVars, storeVars, current, Pending
  <2> QED
    BY <2>1, WorkerRefines, UserRefines DEF TokenNext
<1> QED
  BY <1>1, <1>2, TokenInvariance, PTL DEF TokenSpec, RefreshedOnce, Store!Spec

-----------------------------------------------------------------------------
(* Independent ratings *)

Slot == 1 .. MaxJobs

\* A job that will give the provider the rating as it is.
Current == {s \in Slot : jobs[s].kind = "entry" /\ ~Stale(jobs[s])}

\* The delivery in hand is of a job that is claimed, at a step its provider has; an entry's
\* job is as its entry, which is locked.
HandInv ==
    hand # Idle =>
        /\ Now # NoJob /\ Now.taken
        /\ Now.kind = "entry" => ~Stale(Now)
        /\ hand.step = "save" => target = "anilist" /\ Now.kind = "entry" /\ hand.seen \in Status
        /\ hand.step = "send" => target # "publicmetadb" /\ (target = "anilist" => Now.kind # "entry")
        /\ hand.step = "look" => target = "publicmetadb" \/ (target = "anilist" /\ Now.kind = "entry")
        /\ hand.step \in {"delete", "create"} => target = "publicmetadb"

KeyedEntries(box) == {s \in Slot : box[s].kind = "entry" /\ box[s].keyed}

\* Jobs of entries have one key, and only AniList has other jobs than ratings.
JobsInv ==
    /\ \A r, s \in KeyedEntries(jobs) : r = s
    /\ target # "anilist" => part = scope /\ \A s \in Slot : jobs[s].kind \in {"none", "entry", "rating"}

\* Until the provider has the rating a current job is left; also while a rating of the watch
\* that was begun before the entry is in hand.
SettlingInv ==
    Supported(scope) /\ entry # NoEntry =>
        /\ excuse = {} => remote.score = entry.rating \/ Current # {}
        /\ hand # Idle /\ Now.kind = "rating" /\ part = scope => Current # {}

\* AniList has no score of what it does not list.
ListInv ==
    target = "anilist" => (remote.status = "none" => remote.score = NoScore) /\ RatingsLeaveStatus

RatingInv == RatingTypeOK /\ HandInv /\ JobsInv /\ SettlingInv /\ ListInv

-----------------------------------------------------------------------------
(* Jobs. *)

Jobs == [Slot -> Job \cup {NoJob}]

LEMMA TypedJobs ==
  ASSUME RatingTypeOK
  PROVE  jobs \in Jobs /\ DOMAIN jobs = Slot
  BY DEF RatingTypeOK, Jobs, Slot

LEMMA JobFields ==
  /\ NoJob.kind = "none" /\ NoJob \notin Job
  /\ \A j \in Job \cup {NoJob} : j # NoJob <=> j.kind \in Kind
  /\ \A j \in Job : /\ j.kind \in Kind /\ j.rating \in Score /\ j.at \in Nat
                    /\ j.attempts \in 0 .. MaxAttempts /\ j.taken \in BOOLEAN /\ j.keyed \in BOOLEAN
  BY DEF NoJob, Job, Kind

\* A new job of a kind.
Fresh(kind, rating, moment, keyed) ==
    [kind |-> kind, rating |-> rating, at |-> moment, attempts |-> 0, taken |-> FALSE, keyed |-> keyed]

\* A job that takes a new payload.
Repaid(job, rating, moment) == [job EXCEPT !.rating = rating, !.at = moment]

\* The jobs once those that wait took a payload, or another was inserted.
Coalesced(box, kind, rating, moment) ==
    [s \in Slot |-> IF s \in Waiting(kind) THEN Repaid(box[s], rating, moment) ELSE box[s]]
Inserted(box, s, job) == [box EXCEPT ![s] = job]

InsertedAs(new, box, kind, rating, moment, s, keyed) ==
    /\ box[s] = NoJob /\ new = Inserted(box, s, Fresh(kind, rating, moment, keyed))
    /\ keyed = FALSE \/ kind # "entry" \/ Keyed(kind) = {}

LEMMA FreshIsJob ==
  ASSUME NEW kind \in Kind, NEW rating \in Score, NEW moment \in Nat, NEW keyed \in BOOLEAN
  PROVE  /\ Fresh(kind, rating, moment, keyed) \in Job
         /\ Fresh(kind, rating, moment, keyed).kind = kind /\ Fresh(kind, rating, moment, keyed).rating = rating
         /\ Fresh(kind, rating, moment, keyed).at = moment
  BY RatingBounds DEF Fresh, Job

LEMMA RepaidIsJob ==
  ASSUME NEW job \in Job, NEW rating \in Score, NEW moment \in Nat
  PROVE  /\ Repaid(job, rating, moment) \in Job
         /\ Repaid(job, rating, moment).kind = job.kind /\ Repaid(job, rating, moment).rating = rating
         /\ Repaid(job, rating, moment).at = moment
  BY DEF Repaid, Job

\* enqueue_outbox_job replaces what waits, inserts, or leaves what is in flight.
LEMMA EnqueuedCases ==
  ASSUME RatingTypeOK, NEW box \in Jobs, NEW kind, NEW rating, NEW moment,
         NEW new \in Enqueued(box, kind, rating, moment)
  PROVE  \/ Waiting(kind) # {} /\ new = Coalesced(box, kind, rating, moment)
         \/ \E s \in Slot, keyed \in BOOLEAN : InsertedAs(new, box, kind, rating, moment, s, keyed)
         \/ new = box /\ kind # "entry"
<1> DEFINE Insertions(keyed) ==
            {Inserted(box, s, Fresh(kind, rating, moment, keyed)) :
                s \in {f \in FreeSlots(box) : \A g \in FreeSlots(box) : f <= g}}
<1>1. DOMAIN box = Slot
  BY DEF Jobs
<1>2. \A keyed \in BOOLEAN : \A b \in Insertions(keyed) :
          \E s \in Slot : box[s] = NoJob /\ b = Inserted(box, s, Fresh(kind, rating, moment, keyed))
  BY <1>1 DEF FreeSlots
<1>3. Enqueued(box, kind, rating, moment) =
        IF Waiting(kind) # {} THEN {[s \in DOMAIN box |->
            IF s \in Waiting(kind) THEN Repaid(box[s], rating, moment) ELSE box[s]]}
        ELSE IF Keyed(kind) = {} THEN Insertions(TRUE)
        ELSE IF kind = "entry" THEN Insertions(FALSE)
        ELSE IF kind # "rating" \/ \E s \in Keyed(kind) : jobs[s].rating = rating THEN {box}
        ELSE Insertions(TRUE)
  BY DEF Enqueued, Fresh, Repaid, Inserted
<1> HIDE DEF Insertions
<1>4. CASE Waiting(kind) # {}
  BY <1>1, <1>3, <1>4 DEF Coalesced
<1>5. CASE new \in Insertions(TRUE) /\ (kind # "entry" \/ Keyed(kind) = {})
  BY <1>2, <1>5 DEF InsertedAs
<1>6. CASE new \in Insertions(FALSE)
  BY <1>2, <1>6 DEF InsertedAs
<1>7. CASE new = box /\ kind # "entry"
  BY <1>7
<1> QED
  BY <1>3, <1>4, <1>5, <1>6, <1>7

\* What it does to the jobs: those of its kind that wait may change, and an entry gets its job.
LEMMA EnqueuedFacts ==
  ASSUME RatingTypeOK, JobsInv, NEW box \in Jobs, NEW kind \in Kind, NEW rating \in Score, NEW moment \in Nat,
         \A s \in Slot : box[s].kind = kind \/ jobs[s].kind = kind => box[s] = jobs[s],
         NEW new \in Enqueued(box, kind, rating, moment)
  PROVE  /\ new \in Jobs
         /\ \A s \in Slot : \/ new[s] = box[s]
                            \/ new[s].kind = kind /\ (box[s] = NoJob \/ (box[s].kind = kind /\ ~box[s].taken))
         /\ kind = "entry" =>
               /\ \E s \in Slot : new[s].kind = "entry" /\ new[s].at = moment /\ new[s].rating = rating
               /\ \A r, s \in KeyedEntries(new) : r = s
<1>1. CASE /\ Waiting(kind) # {}
           /\ new = Coalesced(box, kind, rating, moment)
  <2>1. \A s \in Waiting(kind) : /\ s \in Slot /\ box[s] \in Job /\ box[s].kind = kind /\ ~box[s].taken
                                 /\ s \in Keyed(kind)
    BY TypedJobs, JobFields DEF Waiting, Keyed, Active, Jobs
  <2>2. \A s \in Waiting(kind) : /\ new[s] \in Job /\ new[s].kind = kind /\ new[s].at = moment
                                 /\ new[s].rating = rating
    BY <1>1, <2>1, RepaidIsJob DEF Coalesced
  <2>3. \A s \in Slot \ Waiting(kind) : new[s] = box[s]
    BY <1>1 DEF Coalesced
  <2>4. new \in Jobs
    BY <1>1, <2>1, RepaidIsJob DEF Jobs, Coalesced
  <2>5. kind = "entry" => KeyedEntries(new) \subseteq KeyedEntries(jobs)
    BY <2>1, <2>3 DEF KeyedEntries, Keyed, Active
  <2>6. kind = "entry" => \E s \in Slot : new[s].kind = "entry" /\ new[s].at = moment /\ new[s].rating = rating
    BY <1>1, <2>1, <2>2
  <2>7. \A s \in Slot : \/ new[s] = box[s]
                        \/ new[s].kind = kind /\ box[s].kind = kind /\ ~box[s].taken
    BY <2>1, <2>2, <2>3
  <2> QED
    BY <2>4, <2>5, <2>6, <2>7 DEF JobsInv
<1>2. ASSUME NEW f \in Slot, NEW keyed \in BOOLEAN, box[f] = NoJob,
             new = Inserted(box, f, Fresh(kind, rating, moment, keyed)),
             keyed = FALSE \/ kind # "entry" \/ Keyed(kind) = {}
      PROVE  /\ new \in Jobs
             /\ \A s \in Slot : \/ new[s] = box[s]
                                \/ new[s].kind = kind /\ box[s] = NoJob
             /\ kind = "entry" =>
                   /\ \E s \in Slot : new[s].kind = "entry" /\ new[s].at = moment /\ new[s].rating = rating
                   /\ \A r, s \in KeyedEntries(new) : r = s
  <2>1. /\ new[f] \in Job /\ new[f].kind = kind /\ new[f].at = moment /\ new[f].rating = rating
        /\ new[f] = Fresh(kind, rating, moment, keyed)
        /\ \A s \in Slot \ {f} : new[s] = box[s]
    BY <1>2, FreshIsJob DEF Jobs, Inserted
  <2>2. new \in Jobs
    BY <1>2, <2>1 DEF Jobs, Inserted
  <2>3. kind = "entry" => KeyedEntries(new) \ {f} \subseteq Keyed("entry") \cap KeyedEntries(jobs)
    BY <2>1, TypedJobs DEF KeyedEntries, Keyed, Active
  <2>4. keyed = FALSE => f \notin KeyedEntries(new)
    BY <2>1 DEF Fresh, KeyedEntries
  <2>5. kind = "entry" => \A r, s \in KeyedEntries(new) : r = s
    <3>1. CASE Keyed(kind) = {}
      BY <2>3, <3>1
    <3>2. CASE keyed = FALSE
      BY <2>3, <2>4, <3>2 DEF JobsInv
    <3> QED
      BY <1>2, <3>1, <3>2
  <2> QED
    BY <1>2, <2>1, <2>2, <2>5
<1>3. CASE new = box /\ kind # "entry"
  BY <1>3
<1>4. CASE \E s \in Slot, keyed \in BOOLEAN : InsertedAs(new, box, kind, rating, moment, s, keyed)
  <2>1. PICK f \in Slot, keyed \in BOOLEAN : InsertedAs(new, box, kind, rating, moment, f, keyed)
    BY <1>4
  <2> HIDE <1>4
  <2> QED
    BY <1>2, <2>1 DEF InsertedAs
<1>5. \/ Waiting(kind) # {} /\ new = Coalesced(box, kind, rating, moment)
      \/ \E s \in Slot, keyed \in BOOLEAN : InsertedAs(new, box, kind, rating, moment, s, keyed)
      \/ new = box /\ kind # "entry"
  BY EnqueuedCases
<1> QED
  BY <1>1, <1>3, <1>4, <1>5

-----------------------------------------------------------------------------
(* What becomes of the job in hand. *)

Excuses == {"refused", "overwritten", "edited"}

\* Only the claim and the attempts of a job differ.
SameJob(new, old) ==
    new.kind = old.kind /\ new.rating = old.rating /\ new.at = old.at /\ new.keyed = old.keyed

\* The delivery in hand has ended, and its job is gone or waits again.
Ended ==
    /\ jobs' \in Jobs /\ hand' = Idle
    /\ \A s \in Slot \ {hand.job} : jobs'[s] = jobs[s]
    /\ jobs'[hand.job] = NoJob \/ SameJob(jobs'[hand.job], jobs[hand.job])

\* The job in hand after a retry, and after the death of its worker.
Again(job, attempts) == [job EXCEPT !.taken = FALSE, !.attempts = attempts]
Released(job) == [job EXCEPT !.taken = FALSE]

LEMMA SameAgain ==
  ASSUME NEW job \in Job, NEW attempts \in 0 .. MaxAttempts
  PROVE  /\ Again(job, attempts) \in Job /\ SameJob(Again(job, attempts), job)
         /\ Released(job) \in Job /\ SameJob(Released(job), job)
  BY DEF Again, Released, SameJob, Job

LEMMA HandJob ==
  ASSUME RatingTypeOK, HandInv, hand # Idle
  PROVE  /\ hand.job \in Slot /\ Now \in Job /\ Now = jobs[hand.job]
         /\ Now.kind \in Kind /\ Now.attempts \in 0 .. MaxAttempts
  <1>1. hand.job \in Slot
    BY DEF RatingTypeOK, Slot
  <1>2. Now \in Job
    BY <1>1, TypedJobs DEF HandInv, Now, Jobs
  <1> QED
    BY <1>1, <1>2, JobFields DEF Now

\* _finalize_job of a job that is done, or given up.
LEMMA FinishEnds ==
  ASSUME RatingTypeOK, HandInv, hand # Idle, NEW E, Finish(E)
  PROVE  Ended /\ excuse' = E
  <1>1. hand.job \in Slot /\ jobs \in Jobs
    BY HandJob, TypedJobs
  <1> QED
    BY <1>1 DEF Finish, Ended, Jobs

LEMMA GivesUpEnds ==
  ASSUME RatingTypeOK, HandInv, hand # Idle, NEW E, GivesUp(E)
  PROVE  /\ Ended /\ excuse' \in {E, E \cup {"refused"}}
         /\ Now.kind = "entry" => excuse' # {}
  <1>1. CASE Now.kind = "entry"
    <2>1. Finish(E \cup {"refused"})
      BY <1>1 DEF GivesUp
    <2> QED
      BY <2>1, FinishEnds
  <1>2. CASE Now.kind # "entry"
    <2>1. Finish(E)
      BY <1>2 DEF GivesUp
    <2> QED
      BY <1>2, <2>1, FinishEnds
  <1> QED
    BY <1>1, <1>2

\* The jobs of an entry have one key, so that a retry never drops the one in hand.
LEMMA EntryIsKept ==
  ASSUME RatingTypeOK, HandInv, JobsInv, hand # Idle, Now.kind = "entry", hand.job \in Keyed("entry")
  PROVE  Waiting("entry") = {}
  <1>1. hand.job \in Slot /\ Now = jobs[hand.job] /\ Now.taken /\ jobs \in Jobs /\ DOMAIN jobs = Slot
    BY HandJob, TypedJobs DEF HandInv
  <1>2. \A s \in Keyed("entry") : s \in KeyedEntries(jobs)
    BY <1>1 DEF Keyed, Active, KeyedEntries
  <1>3. \A s \in Waiting("entry") : s = hand.job
    BY <1>2 DEF JobsInv, Waiting
  <1> QED
    BY <1>1, <1>3 DEF Waiting

LEMMA RetryEnds ==
  ASSUME RatingTypeOK, HandInv, JobsInv, hand # Idle, NEW attempts \in Nat, NEW E, Retry(attempts, E)
  PROVE  /\ Ended /\ excuse' \in {E, E \cup {"refused"}}
         /\ Now.kind = "entry" => excuse' # {} \/ SameJob(jobs'[hand.job], Now)
  <1>1. /\ hand.job \in Slot /\ Now \in Job /\ Now = jobs[hand.job] /\ jobs \in Jobs
        /\ DOMAIN jobs = Slot
    BY HandJob, TypedJobs
  <1>2. CASE attempts >= MaxAttempts
    BY <1>2, GivesUpEnds DEF Retry
  <1>3. CASE attempts < MaxAttempts
    <2> DEFINE dropped == Now.keyed /\ Waiting(Now.kind) # {}
    <2>1. attempts \in 0 .. MaxAttempts
      BY <1>3, RatingBounds
    <2>2. /\ hand' = Idle /\ excuse' = E
          /\ jobs' = [jobs EXCEPT ![hand.job] = IF dropped THEN NoJob ELSE Again(jobs[hand.job], attempts)]
      BY <1>1, <1>3, <2>1, RatingBounds DEF Retry, Again, Jobs
    <2> HIDE DEF dropped
    <2>3. CASE ~dropped
      <3>1. jobs' = [jobs EXCEPT ![hand.job] = Again(jobs[hand.job], attempts)]
        BY <2>2, <2>3
      <3>2. Again(jobs[hand.job], attempts) \in Job /\ SameJob(Again(jobs[hand.job], attempts), Now)
        BY <1>1, <2>1, SameAgain
      <3> QED
        BY <1>1, <2>2, <3>1, <3>2 DEF Ended, Jobs
    <2>4. CASE dropped
      <3>1. jobs' = [jobs EXCEPT ![hand.job] = NoJob]
        BY <2>2, <2>4
      <3>2. Now.kind = "entry" => hand.job \in Keyed("entry") /\ Waiting("entry") # {}
        BY <1>1, <2>4 DEF dropped, Keyed, Active
      <3>3. Now.kind # "entry"
        BY <3>2, EntryIsKept
      <3> QED
        BY <1>1, <2>2, <3>1, <3>3 DEF Ended, Jobs
    <2> QED
      BY <2>3, <2>4
  <1>4. MaxAttempts \in Nat
    BY RatingBounds
  <1> QED
    BY <1>2, <1>3, <1>4

LEMMA DiesEnds ==
  ASSUME RatingTypeOK, HandInv, hand # Idle, Dies
  PROVE  Ended /\ SameJob(jobs'[hand.job], Now)
  <1>1. /\ hand.job \in Slot /\ Now \in Job /\ Now = jobs[hand.job] /\ jobs \in Jobs
    BY HandJob, TypedJobs
  <1>2. hand' = Idle /\ jobs' = [jobs EXCEPT ![hand.job] = Released(jobs[hand.job])]
    BY <1>1 DEF Dies, Released, Jobs
  <1>3. Released(jobs[hand.job]) \in Job /\ SameJob(Released(jobs[hand.job]), Now)
    <2>1. 0 \in 0 .. MaxAttempts
      BY RatingBounds
    <2> QED
      BY <1>1, <2>1, SameAgain
  <1> QED
    BY <1>1, <1>2, <1>3 DEF Ended, Jobs

LEMMA AnsweredEnds ==
  ASSUME RatingTypeOK, HandInv, JobsInv, hand # Idle, NEW E, Answered(E)
  PROVE  Ended /\ excuse' \in {E, E \cup {"refused"}}
  <1>1. Now.attempts + 1 \in Nat
    BY HandJob, RatingBounds
  <1>2. CASE Finish(E)
    BY <1>2, FinishEnds
  <1>3. CASE Retry(Now.attempts + 1, E)
    BY <1>1, <1>3, RetryEnds
  <1>4. CASE Dies /\ excuse' = E
    BY <1>4, DiesEnds
  <1> QED
    BY <1>2, <1>3, <1>4 DEF Answered

-----------------------------------------------------------------------------
(* What keeps the parts of the invariant. *)

\* While it is in hand, the job of an entry is current, and that of a watch's rating is not
\* the last one.
LEMMA HandIsCurrent ==
  ASSUME RatingInv, hand # Idle, Supported(scope), entry # NoEntry
  PROVE  /\ Now.kind = "entry" => Now.rating = entry.rating /\ hand.job \in Current
         /\ Now.kind = "rating" /\ part = scope => Current # {}
  <1>1. hand.job \in Slot /\ Now = jobs[hand.job]
    BY HandJob DEF RatingInv
  <1> QED
    BY <1>1 DEF RatingInv, HandInv, SettlingInv, Current, Stale

LEMMA EndedKeeps ==
  ASSUME RatingInv, hand # Idle, Ended, UNCHANGED <<target, scope, part, entry>>
  PROVE  /\ HandInv' /\ JobsInv' /\ jobs' \in Jobs
         /\ Current \ {hand.job} \subseteq Current'
         /\ SameJob(jobs'[hand.job], Now) /\ hand.job \in Current => hand.job \in Current'
  <1>1. hand.job \in Slot /\ Now = jobs[hand.job]
    BY HandJob DEF RatingInv
  <1>2. HandInv'
    BY DEF HandInv, Ended
  <1>3. \A s \in Slot : jobs'[s].kind \in {jobs[s].kind, "none"}
    BY <1>1, JobFields DEF Ended, SameJob
  <1>4. KeyedEntries(jobs') \subseteq KeyedEntries(jobs)
    <2>1. hand.job \in KeyedEntries(jobs') => hand.job \in KeyedEntries(jobs)
      BY JobFields DEF Ended, SameJob, KeyedEntries
    <2>2. \A s \in Slot \ {hand.job} : s \in KeyedEntries(jobs') => s \in KeyedEntries(jobs)
      BY DEF Ended, KeyedEntries
    <2> QED
      BY <1>1, <2>1, <2>2 DEF KeyedEntries
  <1>5. JobsInv'
    <2>1. \A r, s \in KeyedEntries(jobs') : r = s
      BY <1>4 DEF RatingInv, JobsInv
    <2>2. target # "anilist" => part = scope /\ \A s \in Slot : jobs'[s].kind \in {"none", "entry", "rating"}
      BY <1>3 DEF RatingInv, JobsInv
    <2> QED
      BY <2>1, <2>2 DEF JobsInv, KeyedEntries, Slot
  <1>6. \A s \in Slot \ {hand.job} : s \in Current => s \in Current'
    BY DEF Ended, Current, Stale, Slot
  <1>7. SameJob(jobs'[hand.job], Now) /\ hand.job \in Current => hand.job \in Current'
    BY <1>1 DEF SameJob, Current, Stale, Slot
  <1> QED
    BY <1>2, <1>5, <1>6, <1>7 DEF Ended, Current

\* The end of a delivery leaves the rating at the provider, an excuse, or another job.
LEMMA EndedSettles ==
  ASSUME RatingInv, hand # Idle, Ended, UNCHANGED <<target, scope, part, entry>>,
         Supported(scope) /\ entry # NoEntry =>
            \/ excuse' # {} \/ remote'.score = entry.rating
            \/ Now.kind # "entry" /\ Current # {}
            \/ Now.kind = "entry" /\ SameJob(jobs'[hand.job], Now)
  PROVE  SettlingInv'
  <1> SUFFICES ASSUME Supported(scope), entry # NoEntry
               PROVE  excuse' = {} => remote'.score = entry.rating \/ Current' # {}
    BY DEF SettlingInv, Supported, Ended
  <1>1. \A s \in Current : s # hand.job => s \in Current'
    BY EndedKeeps
  <1>2. CASE Now.kind # "entry" /\ Current # {}
    <2>1. hand.job \notin Current
      BY <1>2 DEF Current, Now
    <2> QED
      BY <1>1, <1>2, <2>1
  <1>3. CASE Now.kind = "entry" /\ SameJob(jobs'[hand.job], Now)
    BY <1>3, EndedKeeps, HandIsCurrent
  <1> QED
    BY <1>2, <1>3

\* A request leaves the job in hand alone, and its entry.
LEMMA HandIsKept ==
  ASSUME HandInv, UNCHANGED <<target, hand>>, hand # Idle => jobs'[hand.job] = jobs[hand.job],
         EntryLocked => entry' = entry
  PROVE  HandInv'
  BY DEF HandInv, Now, EntryLocked, Stale

\* The jobs of entries are the same.
EntriesKept(box) == \A s \in Slot : box[s].kind = "entry" \/ jobs[s].kind = "entry" => box[s] = jobs[s]

LEMMA EntriesKeep ==
  ASSUME RatingInv, jobs' \in Jobs, EntriesKept(jobs'), UNCHANGED <<target, scope, part, entry>>,
         target # "anilist" => \A s \in Slot : jobs'[s].kind \in {"none", "entry", "rating"}
  PROVE  JobsInv' /\ Current' = Current
  <1>1. KeyedEntries(jobs') = KeyedEntries(jobs)
    BY DEF KeyedEntries, EntriesKept
  <1>2. \A r, s \in KeyedEntries(jobs') : r = s
    BY <1>1 DEF RatingInv, JobsInv
  <1>3. JobsInv'
    BY <1>2 DEF RatingInv, JobsInv, KeyedEntries, Slot
  <1>4. Current' = Current
    BY DEF Current, EntriesKept, Stale, Slot
  <1> QED
    BY <1>3, <1>4

\* Requests for a watch.
LEMMA OtherEnqueued ==
  ASSUME RatingInv, NEW box \in Jobs, EntriesKept(box), NEW kind \in Kind \ {"entry"}, NEW rating \in Score,
         \A s \in Slot : box[s].kind = kind \/ jobs[s].kind = kind => box[s] = jobs[s],
         hand # Idle => box[hand.job] = jobs[hand.job],
         target # "anilist" => kind = "rating" /\ \A s \in Slot : box[s].kind \in {"none", "entry", "rating"},
         NEW new \in Enqueued(box, kind, rating, 0)
  PROVE  /\ new \in Jobs /\ EntriesKept(new) /\ (hand # Idle => new[hand.job] = jobs[hand.job])
         /\ target # "anilist" => \A s \in Slot : new[s].kind \in {"none", "entry", "rating"}
  <1>1. /\ new \in Jobs
        /\ \A s \in Slot : \/ new[s] = box[s]
                           \/ new[s].kind = kind /\ (box[s] = NoJob \/ (box[s].kind = kind /\ ~box[s].taken))
    BY EnqueuedFacts DEF RatingInv
  <1>2. EntriesKept(new)
    BY <1>1, JobFields DEF EntriesKept
  <1>3. hand # Idle => hand.job \in Slot /\ jobs[hand.job] # NoJob /\ jobs[hand.job].taken
    BY HandJob DEF RatingInv, HandInv, Now
  <1>4. hand # Idle => new[hand.job] = jobs[hand.job]
    BY <1>1, <1>3
  <1> QED
    BY <1>1, <1>2, <1>4

\* Requests that write the entry.
LEMMA EntryEntered ==
  ASSUME RatingInv, NEW rating \in Score, NEW moment \in Nat, Enter(rating, moment),
         NEW new \in Entered(jobs, rating, moment)
  PROVE  /\ new \in Jobs
         /\ \A s \in Slot : new[s] = jobs[s] \/ (new[s].kind = "entry" /\ jobs[s].kind \in {"none", "entry"})
         /\ \A r, s \in KeyedEntries(new) : r = s
         /\ hand # Idle => new[hand.job] = jobs[hand.job]
         /\ Supported(scope) =>
               \E s \in Slot : new[s].kind = "entry" /\ new[s].at = moment /\ new[s].rating = rating
  <1>1. jobs \in Jobs /\ JobsInv
    BY TypedJobs DEF RatingInv
  <1>2. CASE Supported(scope)
    <2>1. new \in Enqueued(jobs, "entry", rating, moment) /\ "entry" \in Kind
      BY <1>2 DEF Entered, Kind
    <2>2. /\ new \in Jobs
          /\ \A s \in Slot : \/ new[s] = jobs[s]
                             \/ new[s].kind = "entry" /\ (jobs[s] = NoJob \/ (jobs[s].kind = "entry" /\ ~jobs[s].taken))
          /\ \E s \in Slot : new[s].kind = "entry" /\ new[s].at = moment /\ new[s].rating = rating
          /\ \A r, s \in KeyedEntries(new) : r = s
      BY <1>1, <2>1, EnqueuedFacts DEF RatingInv
    <2>3. hand # Idle => hand.job \in Slot /\ jobs[hand.job] # NoJob /\ jobs[hand.job].taken
      BY HandJob DEF RatingInv, HandInv, Now
    <2> QED
      BY <2>2, <2>3, JobFields
  <1>3. CASE ~Supported(scope)
    BY <1>1, <1>3 DEF Entered, JobsInv
  <1> QED
    BY <1>2, <1>3

-----------------------------------------------------------------------------
(* Requests preserve the invariant. *)

LEMMA RateSafe ==
  ASSUME RatingInv, NEW rating \in Score, NEW moment \in Nat, Rate(rating, moment)
  PROVE  RatingInv'
  <1>1. /\ Enter(rating, moment) /\ jobs' \in Entered(jobs, rating, moment) /\ Event
        /\ entry' = [at |-> moment, rating |-> rating] /\ excuse' = {} /\ ~EntryLocked
        /\ UNCHANGED <<target, scope, part, watch, hand, remote, shown>>
    BY DEF Rate, Enter
  <1>2. /\ jobs' \in Jobs
        /\ \A s \in Slot : jobs'[s] = jobs[s] \/ (jobs'[s].kind = "entry" /\ jobs[s].kind \in {"none", "entry"})
        /\ \A r, s \in KeyedEntries(jobs') : r = s
        /\ hand # Idle => jobs'[hand.job] = jobs[hand.job]
        /\ Supported(scope) =>
              \E s \in Slot : jobs'[s].kind = "entry" /\ jobs'[s].at = moment /\ jobs'[s].rating = rating
    BY <1>1, EntryEntered
  <1>3. RatingTypeOK'
    BY <1>1, <1>2, RatingBounds DEF RatingInv, RatingTypeOK, Jobs, Slot, Event
  <1>4. HandInv'
    BY <1>1, <1>2, HandIsKept DEF RatingInv
  <1>5. JobsInv'
    BY <1>1, <1>2 DEF RatingInv, JobsInv, KeyedEntries, Slot
  <1>6. SettlingInv'
    <2>1. Supported(scope) => Current' # {}
      BY <1>1, <1>2 DEF Current, Stale, Slot
    <2> QED
      BY <1>1, <2>1 DEF SettlingInv, Supported
  <1>7. ListInv'
    BY <1>1 DEF RatingInv, ListInv, RatingsLeaveStatus
  <1> QED
    BY <1>3, <1>4, <1>5, <1>6, <1>7 DEF RatingInv

\* Requests that leave the entry and the provider alone.
LEMMA RequestSafe ==
  ASSUME RatingInv, Event, UNCHANGED <<target, scope, part, entry, hand, remote, excuse, shown>>,
         watch' \in [there : BOOLEAN, rating : Score, known : BOOLEAN],
         jobs' \in Jobs, EntriesKept(jobs'), hand # Idle => jobs'[hand.job] = jobs[hand.job],
         target # "anilist" => \A s \in Slot : jobs'[s].kind \in {"none", "entry", "rating"}
  PROVE  RatingInv'
  <1>1. RatingTypeOK'
    BY RatingBounds DEF RatingInv, RatingTypeOK, Jobs, Slot, Event
  <1>2. HandInv'
    BY HandIsKept DEF RatingInv
  <1>3. JobsInv' /\ Current' = Current
    BY EntriesKeep
  <1>4. SettlingInv'
    BY <1>3 DEF RatingInv, SettlingInv, Supported, Now
  <1>5. ListInv'
    BY DEF RatingInv, ListInv, RatingsLeaveStatus
  <1> QED
    BY <1>1, <1>2, <1>3, <1>4, <1>5 DEF RatingInv

\* The jobs as they are, for the lemmas on Enqueued.
LEMMA OwnJobs ==
  ASSUME RatingInv
  PROVE  /\ jobs \in Jobs /\ DOMAIN jobs = Slot /\ EntriesKept(jobs)
         /\ target # "anilist" => \A s \in Slot : jobs[s].kind \in {"none", "entry", "rating"}
  BY TypedJobs DEF RatingInv, JobsInv, EntriesKept

LEMMA ImportSafe ==
  ASSUME RatingInv, NEW rating \in Score, Import(rating)
  PROVE  RatingInv'
  <1>1. /\ Event /\ UNCHANGED <<target, scope, part, entry, hand, remote, excuse, shown>>
        /\ watch' = [there |-> TRUE, rating |-> rating, known |-> FALSE]
        /\ jobs' \in IF target = "anilist" THEN Enqueued(jobs, "watch", rating, 0)
                     ELSE IF rating # NoScore THEN Enqueued(jobs, "rating", rating, 0) ELSE {jobs}
    BY DEF Import
  <1>2. watch' \in [there : BOOLEAN, rating : Score, known : BOOLEAN]
    BY <1>1
  <1>3. CASE jobs' = jobs
    BY <1>1, <1>2, <1>3, OwnJobs, RequestSafe
  <1>4. CASE target = "anilist" /\ jobs' \in Enqueued(jobs, "watch", rating, 0)
    <2>1. "watch" \in Kind \ {"entry"}
      BY DEF Kind
    <2>2. /\ jobs' \in Jobs /\ EntriesKept(jobs') /\ (hand # Idle => jobs'[hand.job] = jobs[hand.job])
      BY <1>4, <2>1, OwnJobs, OtherEnqueued
    <2> QED
      BY <1>1, <1>2, <1>4, <2>2, RequestSafe
  <1>5. CASE jobs' \in Enqueued(jobs, "rating", rating, 0)
    <2>1. "rating" \in Kind \ {"entry"}
      BY DEF Kind
    <2>2. /\ jobs' \in Jobs /\ EntriesKept(jobs') /\ (hand # Idle => jobs'[hand.job] = jobs[hand.job])
          /\ target # "anilist" => \A s \in Slot : jobs'[s].kind \in {"none", "entry", "rating"}
      BY <1>5, <2>1, OwnJobs, OtherEnqueued
    <2> QED
      BY <1>1, <1>2, <2>2, RequestSafe
  <1> QED
    BY <1>1, <1>3, <1>4, <1>5

LEMMA EditPartSafe ==
  ASSUME RatingInv, NEW rating \in Score, EditPart(rating)
  PROVE  RatingInv'
  <1>1. /\ Event /\ UNCHANGED <<target, scope, part, entry, hand, remote, excuse, shown>>
        /\ watch' = [watch EXCEPT !.rating = rating]
        /\ jobs' \in Enqueued(jobs, "rating", rating, 0)
    BY DEF EditPart
  <1>2. watch' \in [there : BOOLEAN, rating : Score, known : BOOLEAN]
    BY <1>1 DEF RatingInv, RatingTypeOK
  <1>3. "rating" \in Kind \ {"entry"}
    BY DEF Kind
  <1>4. /\ jobs' \in Jobs /\ EntriesKept(jobs') /\ (hand # Idle => jobs'[hand.job] = jobs[hand.job])
        /\ target # "anilist" => \A s \in Slot : jobs'[s].kind \in {"none", "entry", "rating"}
    BY <1>1, <1>3, OwnJobs, OtherEnqueued
  <1> QED
    BY <1>1, <1>2, <1>4, RequestSafe

LEMMA DeleteSafe ==
  ASSUME RatingInv, Delete
  PROVE  RatingInv'
  <1> DEFINE box == [s \in DOMAIN jobs |-> IF jobs[s].kind \in {"rating", "watch"} THEN NoJob ELSE jobs[s]]
  <1>1. /\ Event /\ UNCHANGED <<target, scope, part, entry, hand, remote, excuse, shown>>
        /\ watch' = NoWatch /\ (hand # Idle => jobs[hand.job].kind \in {"entry", "removal"})
        /\ jobs' \in {box} \cup IF target = "anilist" THEN Enqueued(box, "removal", NoScore, 0) ELSE {}
    BY DEF Delete
  <1>2. watch' \in [there : BOOLEAN, rating : Score, known : BOOLEAN]
    BY <1>1 DEF NoWatch, Score
  <1>3. /\ box \in Jobs
        /\ \A s \in Slot : box[s] = IF jobs[s].kind \in {"rating", "watch"} THEN NoJob ELSE jobs[s]
    BY OwnJobs DEF Jobs
  <1> HIDE DEF box
  <1>4. EntriesKept(box) /\ \A s \in Slot : box[s].kind = "removal" \/ jobs[s].kind = "removal" => box[s] = jobs[s]
    BY <1>3, JobFields DEF EntriesKept
  <1>5. target # "anilist" => \A s \in Slot : box[s].kind \in {"none", "entry", "rating"}
    BY <1>3, OwnJobs, JobFields
  <1>6. hand # Idle => box[hand.job] = jobs[hand.job]
    BY <1>1, <1>3, HandJob DEF RatingInv
  <1>7. CASE jobs' = box
    BY <1>1, <1>2, <1>3, <1>4, <1>5, <1>6, <1>7, RequestSafe
  <1>8. CASE target = "anilist" /\ jobs' \in Enqueued(box, "removal", NoScore, 0)
    <2>1. "removal" \in Kind \ {"entry"} /\ NoScore \in Score
      BY DEF Kind, Score
    <2>2. /\ jobs' \in Jobs /\ EntriesKept(jobs') /\ (hand # Idle => jobs'[hand.job] = jobs[hand.job])
      BY <1>3, <1>4, <1>6, <1>8, <2>1, OtherEnqueued
    <2> QED
      BY <1>1, <1>2, <1>8, <2>2, RequestSafe
  <1> QED
    BY <1>1, <1>7, <1>8

\* update_watched_item: the entry's request, then the watch's.
LEMMA EditSafe ==
  ASSUME RatingInv, NEW rating \in Score, NEW moment \in Nat, Edit(rating, moment)
  PROVE  RatingInv'
  <1>1. /\ Enter(rating, moment) /\ Event /\ entry' = [at |-> moment, rating |-> rating] /\ excuse' = {}
        /\ ~EntryLocked /\ watch' = [watch EXCEPT !.rating = rating]
        /\ UNCHANGED <<target, scope, part, hand, remote, shown>>
    BY DEF Edit, Enter
  <1>2. PICK box \in Entered(jobs, rating, moment) :
          jobs' = box \/ jobs' \in Enqueued(box, "rating", rating, 0)
    BY DEF Edit
  <1>3. /\ box \in Jobs
        /\ \A s \in Slot : box[s] = jobs[s] \/ (box[s].kind = "entry" /\ jobs[s].kind \in {"none", "entry"})
        /\ \A r, s \in KeyedEntries(box) : r = s
        /\ hand # Idle => box[hand.job] = jobs[hand.job]
        /\ Supported(scope) =>
              \E s \in Slot : box[s].kind = "entry" /\ box[s].at = moment /\ box[s].rating = rating
    BY <1>1, EntryEntered
  <1>4. /\ jobs' \in Jobs
        /\ \A s \in Slot : \/ jobs'[s] = box[s]
                           \/ jobs'[s].kind = "rating"
                              /\ (box[s] = NoJob \/ (box[s].kind = "rating" /\ ~box[s].taken))
    <2>1. CASE jobs' = box
      BY <1>3, <2>1
    <2>2. CASE jobs' \in Enqueued(box, "rating", rating, 0)
      <3>1. "rating" \in Kind /\ "rating" # "entry"
        BY DEF Kind
      <3>2. \A s \in Slot : box[s].kind = "rating" \/ jobs[s].kind = "rating" => box[s] = jobs[s]
        BY <1>3
      <3> QED
        BY <1>3, <2>2, <3>1, <3>2, EnqueuedFacts DEF RatingInv
    <2> QED
      BY <1>2, <2>1, <2>2
  <1>5. \A s \in Slot : jobs'[s].kind = "entry" \/ box[s].kind = "entry" => jobs'[s] = box[s]
    BY <1>4, JobFields
  <1>6. hand # Idle => jobs'[hand.job] = jobs[hand.job]
    <2>1. hand # Idle => hand.job \in Slot /\ jobs[hand.job] # NoJob /\ jobs[hand.job].taken
      BY HandJob DEF RatingInv, HandInv, Now
    <2> QED
      BY <1>3, <1>4, <2>1
  <1>7. RatingTypeOK'
    <2>1. entry' \in [at : Nat, rating : Score] /\ count' \in 0 .. MaxEvents
      BY <1>1, RatingBounds DEF RatingInv, RatingTypeOK, Event
    <2>2. watch' \in [there : BOOLEAN, rating : Score, known : BOOLEAN]
      BY <1>1 DEF RatingInv, RatingTypeOK
    <2> QED
      BY <1>1, <1>4, <2>1, <2>2 DEF RatingInv, RatingTypeOK, Jobs, Slot
  <1>8. HandInv'
    BY <1>1, <1>6, HandIsKept DEF RatingInv
  <1>9. JobsInv'
    <2>1. KeyedEntries(jobs') = KeyedEntries(box)
      BY <1>5 DEF KeyedEntries
    <2>2. \A r, s \in KeyedEntries(jobs') : r = s
      BY <1>3, <2>1
    <2>3. target # "anilist" => \A s \in Slot : jobs'[s].kind \in {"none", "entry", "rating"}
      BY <1>3, <1>4, OwnJobs
    <2> QED
      BY <1>1, <2>2, <2>3 DEF RatingInv, JobsInv, KeyedEntries, Slot
  <1>10. SettlingInv'
    <2>1. Supported(scope) => Current' # {}
      BY <1>1, <1>3, <1>5 DEF Current, Stale, Slot
    <2> QED
      BY <1>1, <2>1 DEF SettlingInv, Supported
  <1>11. ListInv'
    BY <1>1 DEF RatingInv, ListInv, RatingsLeaveStatus
  <1> QED
    BY <1>7, <1>8, <1>9, <1>10, <1>11 DEF RatingInv

\* At the provider's site.
LEMMA SiteSafe ==
  ASSUME RatingInv, (\E rating \in Rating : SiteRates(rating)) \/ SitePauses
  PROVE  RatingInv'
  <1>1. /\ UNCHANGED <<target, scope, part, entry, watch, jobs, hand>>
        /\ Event /\ excuse' \subseteq {"refused", "overwritten", "edited"}
        /\ remote' \in [score : Score, status : Status] /\ shown' \in Status
        /\ target = "anilist" => remote'.status = shown' /\ remote'.status # "none"
        /\ excuse' = {} => excuse = {} /\ remote'.score = remote.score
    BY DEF SiteRates, SitePauses, RatingInv, RatingTypeOK, Score, Status
  <1>2. RatingTypeOK'
    BY <1>1, RatingBounds DEF RatingInv, RatingTypeOK, Event
  <1>3. HandInv' /\ JobsInv'
    BY <1>1, OwnJobs DEF RatingInv, HandInv, JobsInv, Now, Stale, KeyedEntries, Slot
  <1>4. SettlingInv'
    BY <1>1 DEF RatingInv, SettlingInv, Supported, Current, Stale, Now, Slot
  <1>5. ListInv'
    BY <1>1 DEF ListInv, RatingsLeaveStatus
  <1> QED
    BY <1>2, <1>3, <1>4, <1>5 DEF RatingInv

-----------------------------------------------------------------------------
(* So do the steps of a delivery. *)

LEMMA ClaimSafe ==
  ASSUME RatingInv, NEW s \in DOMAIN jobs, Claim(s)
  PROVE  RatingInv'
  <1> DEFINE claimed == [jobs[s] EXCEPT !.taken = TRUE]
  <1>1. /\ s \in Slot /\ jobs[s] \in Job /\ jobs \in Jobs
        /\ UNCHANGED <<target, scope, part, entry, watch, hand, remote, excuse, shown, count>>
    BY OwnJobs, JobFields DEF Claim, Jobs
  <1>2. jobs' = [jobs EXCEPT ![s] = claimed]
    BY <1>1 DEF Claim, Jobs
  <1>3. claimed \in Job /\ SameJob(claimed, jobs[s])
    BY <1>1 DEF Job, SameJob
  <1> HIDE DEF claimed
  <1>4. jobs' \in Jobs /\ jobs'[s] = claimed /\ \A r \in Slot \ {s} : jobs'[r] = jobs[r]
    BY <1>1, <1>2, <1>3 DEF Jobs
  <1>5. RatingTypeOK'
    BY <1>1, <1>4 DEF RatingInv, RatingTypeOK, Jobs, Slot
  <1>6. HandInv'
    <2>1. hand # Idle => hand.job \in Slot /\ hand.job # s
      BY HandJob DEF RatingInv, HandInv, Claim, Now
    <2> QED
      BY <1>1, <1>4, <2>1, HandIsKept DEF RatingInv, EntryLocked
  <1>7. \A r \in Slot : SameJob(jobs'[r], jobs[r])
    BY <1>3, <1>4 DEF SameJob
  <1>8. JobsInv'
    <2>1. s \in KeyedEntries(jobs') => s \in KeyedEntries(jobs)
      BY <1>1, <1>3, <1>4 DEF KeyedEntries, SameJob
    <2>2. KeyedEntries(jobs') \subseteq KeyedEntries(jobs)
      BY <1>4, <2>1 DEF KeyedEntries
    <2>3. \A r, q \in KeyedEntries(jobs') : r = q
      BY <2>2 DEF RatingInv, JobsInv
    <2>4. target # "anilist" => \A r \in Slot : jobs'[r].kind \in {"none", "entry", "rating"}
      BY <1>7, OwnJobs DEF SameJob
    <2> QED
      BY <1>1, <2>3, <2>4 DEF RatingInv, JobsInv, KeyedEntries, Slot
  <1>9. SettlingInv'
    <2>1. Current' = Current
      BY <1>1, <1>7 DEF Current, SameJob, Stale, Slot
    <2>2. hand # Idle => Now'.kind = Now.kind
      BY <1>1, <1>7, HandJob DEF RatingInv, SameJob, Now
    <2> QED
      BY <1>1, <2>1, <2>2 DEF RatingInv, SettlingInv, Supported
  <1>10. ListInv'
    BY <1>1 DEF RatingInv, ListInv, RatingsLeaveStatus
  <1> QED
    BY <1>5, <1>6, <1>8, <1>9, <1>10 DEF RatingInv

\* A delivery begins unless its job is stale or its rating superseded.
LEMMA BeginSafe ==
  ASSUME RatingInv, NEW s \in DOMAIN jobs, Begin(s)
  PROVE  RatingInv'
  <1>1. /\ s \in Slot /\ jobs[s] \in Job /\ jobs \in Jobs /\ hand = Idle /\ jobs[s].taken /\ jobs[s] # NoJob
        /\ UNCHANGED <<target, scope, part, entry, watch, remote, excuse, shown, count>>
    BY OwnJobs, JobFields DEF Begin, Jobs
  <1>2. ListInv'
    BY <1>1 DEF RatingInv, ListInv, RatingsLeaveStatus
  <1>3. CASE Skipped(jobs[s])
    <2>1. jobs' = [jobs EXCEPT ![s] = NoJob] /\ UNCHANGED hand
      BY <1>3 DEF Begin
    <2>2. jobs' \in Jobs /\ jobs'[s] = NoJob /\ \A r \in Slot \ {s} : jobs'[r] = jobs[r]
      BY <1>1, <2>1 DEF Jobs
    <2>3. RatingTypeOK' /\ HandInv'
      BY <1>1, <2>1, <2>2 DEF RatingInv, RatingTypeOK, HandInv, Jobs, Slot
    <2>4. KeyedEntries(jobs') \subseteq KeyedEntries(jobs)
      BY <2>2, JobFields DEF KeyedEntries
    <2>5. \A r, q \in KeyedEntries(jobs') : r = q
      BY <2>4 DEF RatingInv, JobsInv
    <2>6. target # "anilist" => \A r \in Slot : jobs'[r].kind \in {"none", "entry", "rating"}
      BY <2>2, OwnJobs, JobFields
    <2>7. JobsInv'
      BY <1>1, <2>5, <2>6 DEF RatingInv, JobsInv, KeyedEntries, Slot
    <2>8. s \notin Current
      BY <1>3 DEF Current, Skipped
    <2>9. Current \subseteq Current'
      BY <1>1, <2>2, <2>8 DEF Current, Stale, Slot
    <2>10. SettlingInv'
      BY <1>1, <2>1, <2>9 DEF RatingInv, SettlingInv, Supported
    <2> QED
      BY <1>2, <2>3, <2>7, <2>10 DEF RatingInv
  <1>4. CASE ~Skipped(jobs[s])
    <2>1. hand' = [step |-> FirstStep(jobs[s].kind), job |-> s, seen |-> NoScore] /\ UNCHANGED jobs
      BY <1>4 DEF Begin
    <2>2. hand'.step = FirstStep(jobs[s].kind) /\ hand'.job = s /\ Now' = jobs[s]
      BY <2>1 DEF Now
    <2>3. RatingTypeOK'
      BY <1>1, <2>1 DEF RatingInv, RatingTypeOK, FirstStep, Slot, Score
    <2>4. HandInv'
      <3>1. jobs[s].kind = "entry" => ~Stale(jobs[s])
        BY <1>4 DEF Skipped
      <3>2. jobs[s].kind = "entry" => ~Stale(Now)'
        BY <1>1, <2>2, <3>1 DEF Stale
      <3> QED
        BY <1>1, <2>2, <3>2 DEF HandInv, FirstStep
    <2>5. JobsInv'
      BY <1>1, <2>1 DEF RatingInv, JobsInv, KeyedEntries, Slot
    <2>6. SettlingInv'
      <3>1. Current' = Current
        BY <1>1, <2>1 DEF Current, Stale, Slot
      <3>2. Supported(scope) /\ entry # NoEntry => ~(jobs[s].kind = "rating" /\ part = scope)
        BY <1>4 DEF Skipped, Superseded, Supported
      <3> QED
        BY <1>1, <2>2, <3>1, <3>2 DEF RatingInv, SettlingInv, Supported
    <2> QED
      BY <1>2, <2>3, <2>4, <2>5, <2>6 DEF RatingInv
  <1> QED
    BY <1>3, <1>4

\* The end of a delivery, whatever it was.
LEMMA EndSafe ==
  ASSUME RatingInv, hand # Idle, Ended, UNCHANGED <<target, scope, part, entry, count>>,
         watch' \in [there : BOOLEAN, rating : Score, known : BOOLEAN],
         remote' \in [score : Score, status : Status], shown' \in Status,
         excuse' \subseteq {"refused", "overwritten", "edited"},
         Supported(scope) /\ entry # NoEntry =>
            \/ excuse' # {} \/ remote'.score = entry.rating
            \/ Now.kind # "entry" /\ Current # {}
            \/ Now.kind = "entry" /\ SameJob(jobs'[hand.job], Now),
         ListInv'
  PROVE  RatingInv'
  <1>1. HandInv' /\ JobsInv' /\ jobs' \in Jobs
    BY EndedKeeps
  <1>2. SettlingInv'
    BY EndedSettles
  <1>3. RatingTypeOK'
    BY <1>1 DEF RatingInv, RatingTypeOK, Ended, Jobs, Slot
  <1> QED
    BY <1>1, <1>2, <1>3 DEF RatingInv

\* What the parts of the invariant say of what the provider has.
LEMMA TypedRest ==
  ASSUME RatingInv
  PROVE  /\ watch \in [there : BOOLEAN, rating : Score, known : BOOLEAN]
         /\ remote \in [score : Score, status : Status] /\ shown \in Status
         /\ excuse \subseteq {"refused", "overwritten", "edited"}
         /\ excuse \cup {"refused"} \subseteq {"refused", "overwritten", "edited"}
  BY DEF RatingInv, RatingTypeOK

\* Errors before anything happened, and the death of the worker.
LEMMA NothingDone ==
  ASSUME RatingInv, hand # Idle, UNCHANGED <<target, scope, part, entry, watch, remote, shown, count>>,
         \/ \E attempts \in Nat : Retry(attempts, excuse)
         \/ GivesUp(excuse)
         \/ Dies /\ excuse' = excuse
  PROVE  RatingInv'
  <1>1. /\ Ended /\ excuse' \in {excuse, excuse \cup {"refused"}}
        /\ Now.kind = "entry" => excuse' # {} \/ SameJob(jobs'[hand.job], Now)
    <2>1. CASE \E attempts \in Nat : Retry(attempts, excuse)
      BY <2>1, RetryEnds DEF RatingInv
    <2>2. CASE GivesUp(excuse)
      BY <2>2, GivesUpEnds DEF RatingInv
    <2>3. CASE Dies /\ excuse' = excuse
      BY <2>3, DiesEnds DEF RatingInv
    <2> QED
      BY <2>1, <2>2, <2>3
  <1>2. Supported(scope) /\ entry # NoEntry =>
            \/ excuse' # {} \/ remote'.score = entry.rating
            \/ Now.kind # "entry" /\ Current # {}
            \/ Now.kind = "entry" /\ SameJob(jobs'[hand.job], Now)
    <2>1. excuse' = {} => excuse = {}
      BY <1>1
    <2> QED
      BY <1>1, <2>1 DEF RatingInv, SettlingInv
  <1>3. ListInv'
    BY DEF RatingInv, ListInv, RatingsLeaveStatus
  <1> QED
    BY <1>1, <1>2, <1>3, TypedRest, EndSafe

LEMMA RefusedSafe ==
  ASSUME RatingInv, RefusedAtOnce \/ WorkerCrash
  PROVE  RatingInv'
  <1>1. CASE RefusedAtOnce
    <2>1. hand # Idle /\ Now.attempts \in Nat /\ Now.attempts + 1 \in Nat
      BY <1>1, HandJob, RatingBounds DEF RefusedAtOnce, RatingInv
    <2> QED
      BY <1>1, <2>1, NothingDone DEF RefusedAtOnce
  <1>2. CASE WorkerCrash
    BY <1>2, NothingDone DEF WorkerCrash
  <1> QED
    BY <1>1, <1>2

\* A delivery that goes on with another step.
LEMMA GoesOn ==
  ASSUME RatingInv, hand # Idle, UNCHANGED <<target, scope, part, entry, watch, jobs, excuse, shown, count>>,
         hand' \in [step : {"send", "look", "delete", "create", "save"}, job : Slot, seen : Score \cup Status],
         hand'.job = hand.job, remote' \in [score : Score, status : Status],
         remote'.score = remote.score \/ target = "publicmetadb", remote'.status = remote.status,
         hand'.step = "save" => target = "anilist" /\ Now.kind = "entry" /\ hand'.seen \in Status,
         hand'.step \notin {"send", "look"}, hand'.step \in {"delete", "create"} => target = "publicmetadb"
  PROVE  RatingInv'
  <1>1. Now' = Now /\ Now \in Job
    BY HandJob DEF RatingInv, Now
  <1>2. RatingTypeOK'
    BY DEF RatingInv, RatingTypeOK, Slot
  <1>3. HandInv'
    BY <1>1 DEF RatingInv, HandInv, Stale
  <1>4. JobsInv' /\ Current' = Current
    BY DEF RatingInv, JobsInv, KeyedEntries, Current, Stale, Slot
  <1>5. SettlingInv'
    <2> SUFFICES ASSUME Supported(scope), entry # NoEntry
                 PROVE  /\ excuse = {} => remote'.score = entry.rating \/ Current # {}
                        /\ Now.kind = "rating" /\ part = scope => Current # {}
      BY <1>1, <1>4 DEF SettlingInv, Supported
    <2>1. CASE remote'.score = remote.score
      BY <2>1 DEF RatingInv, SettlingInv
    <2>2. CASE target = "publicmetadb"
      <3>1. Now.kind \in {"entry", "rating"} /\ part = scope
        BY <2>2, HandJob, JobFields DEF RatingInv, JobsInv
      <3> QED
        BY <3>1, HandIsCurrent
    <2> QED
      BY <2>1, <2>2
  <1>6. ListInv'
    BY DEF RatingInv, ListInv, RatingsLeaveStatus
  <1> QED
    BY <1>2, <1>3, <1>4, <1>5, <1>6 DEF RatingInv

LEMMA LookUpSafe ==
  ASSUME RatingInv, LookUp
  PROVE  RatingInv'
  <1>1. /\ hand # Idle /\ hand.step = "look"
        /\ UNCHANGED <<target, scope, part, entry, watch, remote, shown, count>>
        /\ target = "publicmetadb" \/ (target = "anilist" /\ Now.kind = "entry")
    BY DEF LookUp, RatingInv, HandInv
  <1>2. CASE Found = "none" /\ Now.rating = NoScore
    <2>1. Finish({})
      BY <1>2 DEF LookUp
    <2>2. Ended /\ excuse' = {}
      BY <1>1, <2>1, FinishEnds DEF RatingInv
    <2>3. Supported(scope) /\ entry # NoEntry =>
             remote'.score = entry.rating \/ (Now.kind # "entry" /\ Current # {})
      <3> SUFFICES ASSUME Supported(scope), entry # NoEntry
                   PROVE  remote.score = entry.rating \/ (Now.kind # "entry" /\ Current # {})
        BY <1>1
      <3>1. CASE Now.kind = "entry"
        <4>1. entry.rating = NoScore
          BY <1>1, <1>2, <3>1, HandIsCurrent
        <4>2. remote.score = NoScore
          BY <1>1, <1>2 DEF Found, NoScore, RatingInv, ListInv
        <4> QED
          BY <4>1, <4>2
      <3>2. CASE Now.kind # "entry"
        <4>1. Now.kind = "rating" /\ part = scope
          BY <1>1, <3>2, HandJob, JobFields DEF RatingInv, JobsInv, Kind
        <4> QED
          BY <1>1, <3>2, <4>1, HandIsCurrent
      <3> QED
        BY <3>1, <3>2
    <2>4. ListInv'
      BY <1>1 DEF RatingInv, ListInv, RatingsLeaveStatus
    <2> QED
      BY <1>1, <2>2, <2>3, <2>4, TypedRest, EndSafe
  <1>3. CASE ~(Found = "none" /\ Now.rating = NoScore)
    <2> DEFINE step == IF target = "anilist" THEN "save" ELSE IF Found = "none" THEN "create" ELSE "delete"
    <2>1. /\ hand' = [hand EXCEPT !.seen = Found, !.step = step]
          /\ UNCHANGED <<jobs, excuse>>
      BY <1>3 DEF LookUp
    <2>2. hand \in [step : {"send", "look", "delete", "create", "save"}, job : Slot, seen : Score \cup Status]
      BY <1>1 DEF RatingInv, RatingTypeOK, Slot
    <2>3. Found \in Score \cup Status /\ (target = "anilist" => Found \in Status)
      BY TypedRest DEF Found
    <2>4. step \in {"delete", "create", "save"}
      OBVIOUS
    <2>5. (step = "save" => target = "anilist") /\ (step \in {"delete", "create"} => target # "anilist")
      OBVIOUS
    <2> HIDE DEF step
    <2>6. /\ hand' \in [step : {"send", "look", "delete", "create", "save"}, job : Slot, seen : Score \cup Status]
          /\ hand'.job = hand.job /\ hand'.step = step /\ hand'.seen = Found
      BY <2>1, <2>2, <2>3, <2>4
    <2> QED
      BY <1>1, <2>1, <2>3, <2>4, <2>5, <2>6, TypedRest, GoesOn
  <1> QED
    BY <1>2, <1>3

\* At PublicMetaDB only ratings of entries and of the watch are in hand.
LEMMA AtPublicMetaDB ==
  ASSUME RatingInv, hand # Idle, target = "publicmetadb", Supported(scope), entry # NoEntry
  PROVE  /\ Now.kind = "entry" => Now.rating = entry.rating
         /\ Now.kind # "entry" => Current # {}
  <1>1. Now.kind # "entry" => Now.kind = "rating" /\ part = scope
    BY HandJob, JobFields DEF RatingInv, JobsInv, Kind
  <1> QED
    BY <1>1, HandIsCurrent

LEMMA RemoveSafe ==
  ASSUME RatingInv, Remove
  PROVE  RatingInv'
  <1>1. /\ hand # Idle /\ hand.step = "delete" /\ target = "publicmetadb"
        /\ UNCHANGED <<target, scope, part, entry, watch, shown, count>>
        /\ remote' = [remote EXCEPT !.score = NoScore]
    BY DEF Remove, RatingInv, HandInv
  <1>2. remote' \in [score : Score, status : Status] /\ remote'.score = NoScore /\ remote'.status = remote.status
    BY <1>1, TypedRest DEF Score
  <1>3. ListInv'
    BY <1>1 DEF ListInv
  <1>4. CASE Now.rating = NoScore
    <2>1. Answered({})
      BY <1>4 DEF Remove
    <2>2. Ended /\ excuse' \in {{}, {} \cup {"refused"}}
      BY <1>1, <2>1, AnsweredEnds DEF RatingInv
    <2> QED
      BY <1>1, <1>2, <1>3, <1>4, <2>2, TypedRest, AtPublicMetaDB, EndSafe
  <1>5. CASE Retry(Now.attempts + 1, excuse)
    <2>1. Now.attempts + 1 \in Nat
      BY <1>1, HandJob, RatingBounds DEF RatingInv
    <2>2. /\ Ended /\ excuse' \in {excuse, excuse \cup {"refused"}}
          /\ Now.kind = "entry" => excuse' # {} \/ SameJob(jobs'[hand.job], Now)
      BY <1>1, <1>5, <2>1, RetryEnds DEF RatingInv
    <2> QED
      BY <1>1, <1>2, <1>3, <2>2, TypedRest, AtPublicMetaDB, EndSafe
  <1>6. CASE hand' = [hand EXCEPT !.step = "create"] /\ UNCHANGED <<jobs, excuse>>
    <2>1. hand \in [step : {"send", "look", "delete", "create", "save"}, job : Slot, seen : Score \cup Status]
      BY <1>1 DEF RatingInv, RatingTypeOK, Slot
    <2>2. /\ hand' \in [step : {"send", "look", "delete", "create", "save"}, job : Slot, seen : Score \cup Status]
          /\ hand'.job = hand.job /\ hand'.step = "create"
      BY <1>6, <2>1
    <2> QED
      BY <1>1, <1>2, <1>6, <2>2, GoesOn
  <1> QED
    BY <1>4, <1>5, <1>6 DEF Remove

LEMMA CreateSafe ==
  ASSUME RatingInv, Create
  PROVE  RatingInv'
  <1>1. /\ hand # Idle /\ hand.step = "create" /\ target = "publicmetadb"
        /\ UNCHANGED <<target, scope, part, entry, watch, shown, count>>
    BY DEF Create, RatingInv, HandInv
  <1>2. ListInv'
    BY <1>1 DEF ListInv
  <1>3. CASE remote.score # NoScore
    <2>1. GivesUp(excuse) /\ UNCHANGED remote
      BY <1>3 DEF Create
    <2> QED
      BY <1>1, <2>1, NothingDone
  <1>4. CASE remote.score = NoScore
    <2>1. remote' = [remote EXCEPT !.score = Now.rating] /\ Answered(Written)
      BY <1>4 DEF Create
    <2>2. remote' \in [score : Score, status : Status] /\ remote'.score = Now.rating
      BY <1>1, <2>1, HandJob, JobFields, TypedRest DEF RatingInv
    <2>3. Ended /\ excuse' \in {Written, Written \cup {"refused"}}
      BY <1>1, <2>1, AnsweredEnds DEF RatingInv
    <2>4. excuse' \subseteq {"refused", "overwritten", "edited"}
      BY <2>3, TypedRest DEF Written
    <2> QED
      BY <1>1, <1>2, <2>2, <2>3, <2>4, TypedRest, AtPublicMetaDB, EndSafe
  <1> QED
    BY <1>3, <1>4

LEMMA SaveEntrySafe ==
  ASSUME RatingInv, SaveEntry
  PROVE  RatingInv'
  <1>1. /\ hand # Idle /\ hand.step = "save" /\ target = "anilist"
        /\ Now.kind = "entry" /\ hand.seen \in Status
        /\ remote' = [score |-> Now.rating, status |-> Saved] /\ Answered({})
        /\ shown' = IF remote.status = hand.seen THEN shown ELSE hand.seen
        /\ UNCHANGED <<target, scope, part, entry, watch, count>>
    BY DEF SaveEntry, RatingInv, HandInv
  <1>2. remote' \in [score : Score, status : Status] /\ shown' \in Status
    BY <1>1, HandJob, JobFields, TypedRest DEF RatingInv, Saved, Status
  <1>3. Ended /\ excuse' \in {{}, {} \cup {"refused"}}
    BY <1>1, AnsweredEnds DEF RatingInv
  <1>4. ListInv'
    <2>1. remote'.status = Saved /\ Saved # "none"
      BY <1>1 DEF Saved
    <2>2. RatingsLeaveStatus /\ (remote.status = "none" => shown = "none")
      BY <1>1 DEF RatingInv, ListInv, RatingsLeaveStatus
    <2>3. remote'.status = shown' \/ (shown' = "none" /\ remote'.status = "PLANNING")
      BY <1>1, <2>1, <2>2 DEF Saved, RatingsLeaveStatus
    <2> QED
      BY <2>1, <2>3 DEF ListInv, RatingsLeaveStatus
  <1>5. Supported(scope) /\ entry # NoEntry => remote'.score = entry.rating
    BY <1>1, HandIsCurrent
  <1> QED
    BY <1>1, <1>2, <1>3, <1>4, <1>5, TypedRest, EndSafe

LEMMA SendPushSafe ==
  ASSUME RatingInv, SendPush
  PROVE  RatingInv'
  <1>1. /\ hand # Idle /\ hand.step = "send" /\ target # "publicmetadb"
        /\ target = "anilist" => Now.kind # "entry"
        /\ UNCHANGED <<target, scope, part, entry, count>>
        /\ Now.kind \in Kind /\ Now.rating \in Score
    BY HandJob, JobFields DEF SendPush, RatingInv, HandInv
  <1>2. CASE target = "anilist"
    <2> DEFINE reason == IF Now.kind = "rating" /\ part = scope THEN {} ELSE {"overwritten"}
    <2>1. /\ remote' = AniListAfter /\ shown' = remote'.status
          /\ \/ Answered(excuse \cup reason) /\ UNCHANGED watch
             \/ Finish(excuse \cup reason) /\ watch' = [watch EXCEPT !.known = @ \/ Now.kind = "watch"]
      BY <1>2 DEF SendPush
    <2>2. /\ reason \subseteq {"overwritten"}
          /\ reason = {} => Now.kind = "rating" /\ part = scope
      OBVIOUS
    <2> HIDE DEF reason
    <2>3. Ended /\ excuse' \in {excuse \cup reason, (excuse \cup reason) \cup {"refused"}}
      BY <1>1, <2>1, AnsweredEnds, FinishEnds DEF RatingInv
    <2>4. watch' \in [there : BOOLEAN, rating : Score, known : BOOLEAN]
      BY <2>1, TypedRest
    <2>5. /\ remote' \in [score : Score, status : Status] /\ shown' \in Status
          /\ remote'.status = "none" => remote'.score = NoScore
      BY <1>1, <2>1, TypedRest DEF AniListAfter, Status, Score
    <2>6. excuse' \subseteq {"refused", "overwritten", "edited"}
      BY <2>2, <2>3, TypedRest
    <2>7. excuse' = {} => Now.kind = "rating" /\ part = scope
      BY <2>2, <2>3
    <2>8. Supported(scope) /\ entry # NoEntry => excuse' # {} \/ (Now.kind # "entry" /\ Current # {})
      BY <1>1, <2>7, HandIsCurrent
    <2>9. ListInv'
      BY <2>1, <2>5 DEF ListInv, RatingsLeaveStatus
    <2> QED
      BY <1>1, <2>3, <2>4, <2>5, <2>6, <2>8, <2>9, EndSafe
  <1>3. CASE target # "anilist"
    <2>1. /\ remote' = [remote EXCEPT !.score = Now.rating] /\ Answered(Written) /\ UNCHANGED <<shown, watch>>
      BY <1>3 DEF SendPush
    <2>2. remote' \in [score : Score, status : Status] /\ remote'.score = Now.rating
      BY <1>1, <2>1, TypedRest
    <2>3. Ended /\ excuse' \in {Written, Written \cup {"refused"}}
      BY <1>1, <2>1, AnsweredEnds DEF RatingInv
    <2>4. excuse' \subseteq {"refused", "overwritten", "edited"}
      BY <2>3, TypedRest DEF Written
    <2>5. Now.kind # "entry" => Now.kind = "rating" /\ part = scope
      BY <1>1, <1>3, HandJob, JobFields DEF RatingInv, JobsInv, Kind
    <2>6. Supported(scope) /\ entry # NoEntry =>
             remote'.score = entry.rating \/ (Now.kind # "entry" /\ Current # {})
      BY <1>1, <2>2, <2>5, HandIsCurrent
    <2>7. ListInv'
      BY <1>1, <1>3 DEF ListInv
    <2> QED
      BY <1>1, <2>1, <2>2, <2>3, <2>4, <2>6, <2>7, TypedRest, EndSafe
  <1> QED
    BY <1>2, <1>3

-----------------------------------------------------------------------------
(* The theorems. *)

LEMMA RatingStarts == RatingInit => RatingInv
  <1> SUFFICES ASSUME RatingInit PROVE RatingInv
    OBVIOUS
  <1>1. jobs = [s \in 1 .. MaxJobs |-> NoJob] /\ hand = Idle /\ count = 0 /\ MaxEvents \in Nat
    BY RatingBounds DEF RatingInit
  <1>2. RatingTypeOK
    BY <1>1 DEF RatingInit, RatingTypeOK, NoEntry, NoWatch, Score, Status
  <1>3. HandInv
    BY <1>1 DEF HandInv
  <1>4. JobsInv
    <2>1. \A s \in Slot : jobs[s].kind = "none"
      BY <1>1, JobFields DEF Slot
    <2>2. target # "anilist" => part = scope
      BY DEF RatingInit
    <2> QED
      BY <2>1, <2>2 DEF JobsInv, KeyedEntries
  <1>5. SettlingInv
    BY DEF RatingInit, SettlingInv
  <1>6. ListInv
    BY DEF RatingInit, ListInv, RatingsLeaveStatus
  <1> QED
    BY <1>2, <1>3, <1>4, <1>5, <1>6 DEF RatingInv

LEMMA RatingSteps == RatingInv /\ [RatingNext]_ratingVars => RatingInv'
  <1> SUFFICES ASSUME RatingInv, [RatingNext]_ratingVars PROVE RatingInv'
    OBVIOUS
  <1>1. ASSUME NEW rating \in Score, Import(rating) \/ EditPart(rating)
        PROVE  RatingInv'
    BY <1>1, ImportSafe, EditPartSafe
  <1>2. ASSUME NEW rating \in Score, NEW moment \in {entry.at, entry.at + 1}, Rate(rating, moment) \/ Edit(rating, moment)
        PROVE  RatingInv'
    <2>1. moment \in Nat
      BY DEF RatingInv, RatingTypeOK
    <2> QED
      BY <1>2, <2>1, RateSafe, EditSafe
  <1>3. CASE (\E rating \in Rating : SiteRates(rating)) \/ SitePauses
    BY <1>3, SiteSafe
  <1>4. CASE Delete
    BY <1>4, DeleteSafe
  <1>5. ASSUME NEW s \in DOMAIN jobs, Claim(s) \/ Begin(s)
        PROVE  RatingInv'
    BY <1>5, ClaimSafe, BeginSafe
  <1>6. CASE RefusedAtOnce \/ WorkerCrash
    BY <1>6, RefusedSafe
  <1>7. CASE LookUp \/ Remove \/ Create \/ SaveEntry \/ SendPush
    BY <1>7, LookUpSafe, RemoveSafe, CreateSafe, SaveEntrySafe, SendPushSafe
  <1>8. CASE UNCHANGED ratingVars
    <2>1. UNCHANGED <<target, scope, part, entry, watch, jobs, hand, remote, excuse, shown, count>>
      BY <1>8 DEF ratingVars
    <2>2. RatingTypeOK' /\ HandInv' /\ JobsInv' /\ ListInv'
      BY <2>1 DEF RatingInv, RatingTypeOK, HandInv, JobsInv, KeyedEntries, ListInv, RatingsLeaveStatus, Now,
                  Stale, Slot
    <2>3. SettlingInv'
      BY <2>1 DEF RatingInv, SettlingInv, Supported, Current, Stale, Now, Slot
    <2> QED
      BY <2>2, <2>3 DEF RatingInv
  <1> QED
    BY <1>1, <1>2, <1>3, <1>4, <1>5, <1>6, <1>7, <1>8 DEF RatingNext

(* Type correctness: jobs, deliveries and the provider's list stay what    *)
(* enqueue_outbox_job, the worker and the provider make of them.           *)
THEOREM RatingTypeCorrect == RatingSpec => []RatingTypeOK
  <1>1. RatingInv => RatingTypeOK
    BY DEF RatingInv
  <1> QED
    BY <1>1, RatingStarts, RatingSteps, PTL DEF RatingSpec

(* Ratings settle: when the jobs of the independent rating are gone the    *)
(* provider has it, unless a job was refused or the title rated elsewhere  *)
(* since, and a rating leaves AniList's status of the title alone.  An     *)
(* entry is locked while its job is in hand, a retried job is dropped only *)
(* for another with the same key, and a rating of the watch is superseded  *)
(* once there is an entry: so a current job is left until the provider was *)
(* told (SettlingInv).                                                     *)
THEOREM RatingsReachProvider == RatingSpec => []RatingsSettle
  <1>1. RatingInv => RatingsSettle
    <2> SUFFICES ASSUME RatingInv PROVE RatingsSettle
      OBVIOUS
    <2>1. Active("entry") = {} => Current = {}
      BY OwnJobs DEF Active, Current
    <2> QED
      BY <2>1 DEF RatingInv, SettlingInv, ListInv, RatingsSettle, RatingSettles, RatingsLeaveStatus
  <1> QED
    BY <1>1, RatingStarts, RatingSteps, PTL DEF RatingSpec

-----------------------------------------------------------------------------
(* Lists read by the page *)

Lists == [PartNames -> Seq(Items)]

\* A title is on the list once.
Distinct(l) ==
    \A p, q \in PartNames : \A m \in DOMAIN l[p], n \in DOMAIN l[q] : l[p][m] = l[q][n] => p = q /\ m = n

\* All of a Letterboxd watchlist is in its only part.
InOnePart(l) == asked = "letterboxd" => \A p \in PartNames \ {Parts[1]} : l[p] = <<>>

ListOK == list \in Lists /\ Distinct(list) /\ InOnePart(list)
ReaderOK ==
    /\ asked \in Providers /\ turn \in 1 .. LastPart /\ page \in Nat
    /\ asked \in {"simkl", "simkl dropped"} => page \in {0, 1}
    /\ links \subseteq Items /\ read \subseteq Items /\ got \subseteq Items
    /\ complete \in BOOLEAN /\ shifted \in BOOLEAN
Listed == On(list)
SeenOK == Listed \subseteq Items /\ steady \subseteq Listed /\ away \subseteq Items /\ away \cap Listed = {}
ListingShape == ListOK /\ ReaderOK /\ SeenOK

\* On a page that is still to be fetched.
Passed == (page - 1) * PerPage
IsAhead(i) ==
    \/ \E n \in DOMAIN list[Parts[turn]] : n > Passed /\ list[Parts[turn]][n] = i
    \/ \E k \in turn + 1 .. LastPart : i \in Range(list[Parts[k]])

Fetching ==
    page # 0 =>
        /\ links = before /\ (got \cup read) \cap away = {}
        /\ (~shifted /\ complete /\ asked # "anilist") => \A i \in steady : i \in got \cup read \/ IsAhead(i)

ListingInv == ListingShape /\ Fetching /\ KeepsWhatIsListed

LEMMA PartsAre ==
  /\ Len(Parts) \in Nat \ {0} /\ LastPart \in 1 .. Len(Parts)
  /\ \A k \in 1 .. Len(Parts) : Parts[k] \in PartNames
  /\ LiveParts \subseteq PartNames
<1>1. Len(Parts) \in Nat \ {0} /\ DOMAIN Parts = 1 .. Len(Parts)
  BY PartsAssumption
<1>2. LastPart \in 1 .. Len(Parts)
  BY <1>1 DEF LastPart
<1> QED
  BY <1>1, <1>2 DEF PartNames, LiveParts, Range

LEMMA OnIs ==
  ASSUME NEW l, NEW i
  PROVE  i \in On(l) <=> \E p \in PartNames : \E m \in DOMAIN l[p] : l[p][m] = i
BY DEF On, Range

Added(l, p, i) == [l EXCEPT ![p] = <<i>> \o @]
Taken(l, p, n) == [l EXCEPT ![p] = Without(@, n)]

LEMMA WithoutIs ==
  ASSUME NEW S, NEW l \in Seq(S), NEW n \in DOMAIN l
  PROVE  /\ Without(l, n) \in Seq(S) /\ Len(Without(l, n)) = Len(l) - 1
         /\ \A m \in 1 .. Len(l) - 1 : Without(l, n)[m] = l[IF m < n THEN m ELSE m + 1]
<1>1. Len(l) \in Nat /\ n \in 1 .. Len(l)
  OBVIOUS
<1>2. /\ SubSeq(l, 1, n - 1) \in Seq(S) /\ Len(SubSeq(l, 1, n - 1)) = n - 1
      /\ \A m \in 1 .. n - 1 : SubSeq(l, 1, n - 1)[m] = l[m]
  BY <1>1
<1>3. /\ SubSeq(l, n + 1, Len(l)) \in Seq(S) /\ Len(SubSeq(l, n + 1, Len(l))) = Len(l) - n
      /\ \A m \in 1 .. Len(l) - n : SubSeq(l, n + 1, Len(l))[m] = l[n + m]
  BY <1>1
<1> DEFINE a == SubSeq(l, 1, n - 1)
           b == SubSeq(l, n + 1, Len(l))
<1>4. a \in Seq(S) /\ b \in Seq(S) /\ Len(a) = n - 1 /\ Len(b) = Len(l) - n
  BY <1>2, <1>3
<1> HIDE DEF a, b
<1>5. /\ a \o b \in Seq(S) /\ Len(a \o b) = Len(l) - 1
      /\ \A m \in 1 .. Len(l) - 1 : (a \o b)[m] = IF m < n THEN a[m] ELSE b[m - (n - 1)]
  BY <1>1, <1>4
<1>6. \A m \in 1 .. Len(l) - 1 : (a \o b)[m] = l[IF m < n THEN m ELSE m + 1]
  <2> SUFFICES ASSUME NEW m \in 1 .. Len(l) - 1
               PROVE  (a \o b)[m] = l[IF m < n THEN m ELSE m + 1]
    OBVIOUS
  <2>1. CASE m < n
    BY <1>1, <1>2, <1>5, <2>1 DEF a
  <2>2. CASE ~(m < n)
    <3>1. m - (n - 1) \in 1 .. Len(l) - n /\ n + (m - (n - 1)) = m + 1
      BY <1>1, <2>2
    <3> QED
      BY <1>3, <1>5, <2>2, <3>1 DEF b
  <2> QED
    BY <2>1, <2>2
<1> QED
  BY <1>5, <1>6 DEF Without, a, b

LEMMA AddKeeps ==
  ASSUME NEW l \in Lists, Distinct(l), NEW p \in PartNames, NEW i \in Items, i \notin On(l)
  PROVE  /\ Added(l, p, i) \in Lists /\ Distinct(Added(l, p, i))
         /\ Len(Added(l, p, i)[p]) = Len(l[p]) + 1 /\ Added(l, p, i)[p][1] = i
         /\ \A m \in 1 .. Len(l[p]) : Added(l, p, i)[p][m + 1] = l[p][m]
<1> DEFINE new == Added(l, p, i)
<1>1. /\ l[p] \in Seq(Items) /\ new[p] = <<i>> \o l[p] /\ new \in Lists
      /\ \A q \in PartNames \ {p} : new[q] = l[q]
  BY DEF Lists, Added
<1> HIDE DEF new
<1>2. Len(new[p]) = Len(l[p]) + 1 /\ new[p][1] = i /\ \A m \in 1 .. Len(l[p]) : new[p][m + 1] = l[p][m]
  BY <1>1
<1>3. \A q \in PartNames : \A m \in DOMAIN l[q] : l[q][m] # i
  BY OnIs
<1>7. \A q \in PartNames : DOMAIN new[q] = 1 .. Len(new[q]) /\ DOMAIN l[q] = 1 .. Len(l[q]) /\ Len(l[q]) \in Nat
  BY <1>1 DEF Lists
<1>4. \A q \in PartNames, m \in Nat :
          m \in DOMAIN new[q] => IF q = p THEN m = 1 \/ (m - 1 \in DOMAIN l[p] /\ new[p][m] = l[p][m - 1])
                                 ELSE m \in DOMAIN l[q] /\ new[q][m] = l[q][m]
  <2> SUFFICES ASSUME NEW q \in PartNames, NEW m \in Nat, m \in DOMAIN new[q]
               PROVE  IF q = p THEN m = 1 \/ (m - 1 \in DOMAIN l[p] /\ new[p][m] = l[p][m - 1])
                      ELSE m \in DOMAIN l[q] /\ new[q][m] = l[q][m]
    OBVIOUS
  <2>1. CASE q = p /\ m # 1
    <3>1. m - 1 \in 1 .. Len(l[p]) /\ (m - 1) + 1 = m
      BY <1>2, <1>7, <2>1
    <3> QED
      BY <1>2, <1>7, <2>1, <3>1
  <2>2. CASE q # p
    BY <1>1, <1>7, <2>2
  <2> QED
    BY <2>1, <2>2
<1>5. \A q \in PartNames : DOMAIN new[q] \subseteq Nat
  BY <1>7
<1>6. Distinct(new)
  <2> SUFFICES ASSUME NEW q \in PartNames, NEW r \in PartNames, NEW m \in DOMAIN new[q], NEW n \in DOMAIN new[r],
                      new[q][m] = new[r][n]
               PROVE  q = r /\ m = n
    BY DEF Distinct
  <2>1. m \in Nat /\ n \in Nat
    BY <1>5
  <2>2. CASE q = p /\ m = 1
    BY <1>2, <1>3, <1>4, <2>1, <2>2
  <2>3. CASE r = p /\ n = 1
    BY <1>2, <1>3, <1>4, <2>1, <2>3
  <2>4. CASE ~(q = p /\ m = 1) /\ ~(r = p /\ n = 1)
    BY <1>4, <2>1, <2>4 DEF Distinct
  <2> QED
    BY <2>2, <2>3, <2>4
<1> QED
  BY <1>1, <1>2, <1>6 DEF new

LEMMA RemoveKeeps ==
  ASSUME NEW l \in Lists, Distinct(l), NEW p \in PartNames, NEW n \in DOMAIN l[p]
  PROVE  /\ Taken(l, p, n) \in Lists /\ Distinct(Taken(l, p, n)) /\ l[p][n] \in Items /\ l[p][n] \notin On(Taken(l, p, n))
         /\ \A m \in DOMAIN l[p] : m # n =>
                IF m < n THEN m \in DOMAIN Taken(l, p, n)[p] /\ Taken(l, p, n)[p][m] = l[p][m]
                ELSE m - 1 \in DOMAIN Taken(l, p, n)[p] /\ Taken(l, p, n)[p][m - 1] = l[p][m]
<1> DEFINE new == Taken(l, p, n)
<1>1. /\ l[p] \in Seq(Items) /\ new[p] = Without(l[p], n) /\ n \in 1 .. Len(l[p]) /\ Len(l[p]) \in Nat
      /\ \A q \in PartNames \ {p} : new[q] = l[q]
  BY DEF Lists, Taken
<1>9. /\ Without(l[p], n) \in Seq(Items) /\ Len(Without(l[p], n)) = Len(l[p]) - 1
      /\ \A m \in 1 .. Len(l[p]) - 1 : Without(l[p], n)[m] = l[p][IF m < n THEN m ELSE m + 1]
  BY <1>1, WithoutIs
<1>3. new \in Lists
  BY <1>9 DEF Lists, Taken
<1> HIDE DEF new
<1>2. /\ new[p] \in Seq(Items) /\ Len(new[p]) = Len(l[p]) - 1
      /\ \A m \in 1 .. Len(l[p]) - 1 : new[p][m] = l[p][IF m < n THEN m ELSE m + 1]
  BY <1>1, <1>9
<1>4. \A q \in PartNames : DOMAIN new[q] = 1 .. Len(new[q]) /\ Len(new[q]) \in Nat
  BY <1>3 DEF Lists
<1>5. \A q \in PartNames, m \in Nat : m \in DOMAIN new[q] =>
          IF q = p /\ m >= n THEN m + 1 \in DOMAIN l[p] /\ new[p][m] = l[p][m + 1]
          ELSE m \in DOMAIN l[q] /\ new[q][m] = l[q][m] /\ ~(q = p /\ m = n)
  <2> SUFFICES ASSUME NEW q \in PartNames, NEW m \in Nat, m \in DOMAIN new[q]
               PROVE  IF q = p /\ m >= n THEN m + 1 \in DOMAIN l[p] /\ new[p][m] = l[p][m + 1]
                      ELSE m \in DOMAIN l[q] /\ new[q][m] = l[q][m] /\ ~(q = p /\ m = n)
    OBVIOUS
  <2>1. CASE q = p
    BY <1>1, <1>2, <1>4, <2>1
  <2>2. CASE q # p
    BY <1>1, <2>2
  <2> QED
    BY <2>1, <2>2
<1>6. Distinct(new)
  <2> SUFFICES ASSUME NEW q \in PartNames, NEW r \in PartNames, NEW m \in DOMAIN new[q], NEW k \in DOMAIN new[r],
                      new[q][m] = new[r][k]
               PROVE  q = r /\ m = k
    BY DEF Distinct
  <2>1. m \in Nat /\ k \in Nat
    BY <1>4
  <2>2. CASE (q = p /\ m >= n) /\ (r = p /\ k >= n)
    BY <1>5, <2>1, <2>2 DEF Distinct
  <2>3. CASE (q = p /\ m >= n) /\ ~(r = p /\ k >= n)
    BY <1>1, <1>5, <2>1, <2>3 DEF Distinct
  <2>4. CASE ~(q = p /\ m >= n) /\ (r = p /\ k >= n)
    BY <1>1, <1>5, <2>1, <2>4 DEF Distinct
  <2>5. CASE ~(q = p /\ m >= n) /\ ~(r = p /\ k >= n)
    BY <1>5, <2>1, <2>5 DEF Distinct
  <2> QED
    BY <2>2, <2>3, <2>4, <2>5
<1>7. l[p][n] \notin On(new)
  <2> SUFFICES ASSUME NEW q \in PartNames, NEW m \in DOMAIN new[q], new[q][m] = l[p][n]
               PROVE  FALSE
    BY OnIs
  <2>1. m \in Nat
    BY <1>4
  <2> QED
    BY <1>1, <1>5, <2>1 DEF Distinct
<1>8. \A m \in DOMAIN l[p] : m # n => IF m < n THEN m \in DOMAIN new[p] /\ new[p][m] = l[p][m]
                                      ELSE m - 1 \in DOMAIN new[p] /\ new[p][m - 1] = l[p][m]
  <2> SUFFICES ASSUME NEW m \in DOMAIN l[p], m # n
               PROVE  IF m < n THEN m \in DOMAIN new[p] /\ new[p][m] = l[p][m]
                      ELSE m - 1 \in DOMAIN new[p] /\ new[p][m - 1] = l[p][m]
    OBVIOUS
  <2>1. m \in 1 .. Len(l[p]) /\ DOMAIN new[p] = 1 .. Len(l[p]) - 1
    BY <1>1, <1>2, <1>4
  <2>2. CASE m < n
    BY <1>1, <1>2, <2>1, <2>2
  <2>3. CASE ~(m < n)
    <3>1. m - 1 \in 1 .. Len(l[p]) - 1 /\ ~(m - 1 < n) /\ (m - 1) + 1 = m
      BY <1>1, <2>1, <2>3
    <3> QED
      BY <1>2, <2>1, <2>3, <3>1
  <2> QED
    BY <2>2, <2>3
<1> QED
  BY <1>1, <1>3, <1>4, <1>6, <1>7, <1>8 DEF new

-----------------------------------------------------------------------------

LEMMA ListedAre ==
  ASSUME NEW l \in Lists
  PROVE  On(l) \subseteq Items
<1>1. \A q \in PartNames : \A i : i \in Range(l[q]) => i \in Items
  BY DEF Lists, Range
<1> QED
  BY <1>1 DEF On

LEMMA SameList ==
  ASSUME UNCHANGED <<asked, list>>
  PROVE  ListOK' = ListOK /\ Listed' = Listed /\ LastPart' = LastPart
BY DEF ListOK, Listed, On, PartNames, InOnePart, Distinct, Lists, LastPart

LEMMA MovedHolds ==
  ASSUME ListingInv, NEW new \in Lists, Distinct(new), InOnePart(new), NEW moved \in BOOLEAN, Moved(new, moved),
         page # 0 /\ ~moved => \A i \in steady : i \in On(new) /\ IsAhead(i) => IsAhead(i)'
  PROVE  ListingInv'
<1>1. /\ list' = new /\ steady' = steady \cap On(new) /\ away' = away \ On(new)
      /\ shifted' = (shifted \/ (page # 0 /\ moved))
      /\ UNCHANGED <<asked, links, turn, page, read, got, complete, before>>
  BY DEF Moved
<1>2. LastPart' = LastPart /\ Listed' = On(new)
  BY <1>1 DEF LastPart, Listed, On, PartNames
<1>3. ListingShape'
  <2>1. ListOK'
    BY <1>1 DEF ListOK, InOnePart, Distinct, Lists, PartNames
  <2>2. ReaderOK'
    BY <1>1, <1>2 DEF ListingInv, ListingShape, ReaderOK
  <2>3. On(new) \subseteq Items
    BY ListedAre
  <2>4. SeenOK'
    BY <1>1, <1>2, <2>3 DEF ListingInv, ListingShape, SeenOK
  <2> QED
    BY <2>1, <2>2, <2>4 DEF ListingShape
<1>4. Fetching'
  BY <1>1 DEF ListingInv, Fetching, ListingShape, ReaderOK
<1>5. KeepsWhatIsListed'
  BY <1>1 DEF ListingInv, KeepsWhatIsListed, ListedStays, GoneIsDropped, ListingShape, ReaderOK
<1> QED
  BY <1>3, <1>4, <1>5 DEF ListingInv

LEMMA PassedIs ==
  ASSUME ListingShape, page # 0
  PROVE  Passed \in Nat /\ page * PerPage = Passed + PerPage /\ PerPage \in Nat \ {0}
<1>1. page \in Nat \ {0} /\ PerPage \in Nat \ {0}
  BY PagesAssumption DEF ListingShape, ReaderOK
<1>2. page - 1 \in Nat /\ page = (page - 1) + 1
  BY <1>1
<1>3. \A n, k \in Nat : n * k \in Nat /\ (n + 1) * k = n * k + k
  OBVIOUS
<1> QED
  BY <1>1, <1>2, <1>3 DEF Passed

LEMMA PartsOfList ==
  ASSUME ListingInv
  PROVE  /\ list \in Lists /\ Distinct(list) /\ InOnePart(list)
         /\ turn \in 1 .. Len(Parts) /\ \A k \in 1 .. Len(Parts) : Parts[k] \in PartNames
<1>1. list \in Lists /\ Distinct(list) /\ InOnePart(list) /\ turn \in 1 .. LastPart
  BY DEF ListingInv, ListingShape, ListOK, ReaderOK
<1> QED
  BY <1>1, PartsAre

\* An entry that is ahead stays so if it does not come nearer than the place that was passed.
LEMMA AheadIs ==
  ASSUME ListingInv, NEW new \in Lists, page # 0, NEW moved, Moved(new, moved), NEW i, IsAhead(i),
         \A k \in turn + 1 .. LastPart : i \in Range(list[Parts[k]]) => i \in Range(new[Parts[k]]),
         \A n \in DOMAIN list[Parts[turn]] : (n > Passed /\ list[Parts[turn]][n] = i) =>
             \E m \in DOMAIN new[Parts[turn]] : m > Passed /\ new[Parts[turn]][m] = i
  PROVE  IsAhead(i)'
<1>1. list' = new /\ turn' = turn /\ page' = page /\ LastPart' = LastPart /\ Passed' = Passed
  BY DEF Moved, LastPart, Passed
<1> QED
  BY <1>1 DEF IsAhead

LEMMA AddHolds ==
  ASSUME ListingInv, NEW i \in Items, NEW p \in LiveParts, AddEntry(i, p)
  PROVE  ListingInv'
<1> DEFINE new == Added(list, p, i)
<1>1. /\ i \notin On(list) /\ Moved(new, FALSE) /\ p \in PartNames /\ list \in Lists /\ Distinct(list)
      /\ InOnePart(list) /\ turn \in 1 .. Len(Parts) /\ \A k \in 1 .. Len(Parts) : Parts[k] \in PartNames
  BY PartsOfList, PartsAre DEF AddEntry, Added
<1>2. /\ new \in Lists /\ Distinct(new)
      /\ Len(new[p]) = Len(list[p]) + 1 /\ new[p][1] = i
      /\ \A m \in 1 .. Len(list[p]) : new[p][m + 1] = list[p][m]
  BY <1>1, AddKeeps
<1>3. /\ \A q \in PartNames \ {p} : new[q] = list[q]
      /\ \A q \in PartNames : DOMAIN new[q] = 1 .. Len(new[q]) /\ DOMAIN list[q] = 1 .. Len(list[q])
                              /\ Len(list[q]) \in Nat
  BY <1>1, <1>2 DEF Lists, Added
<1>4. InOnePart(new)
  BY <1>1, <1>3 DEF InOnePart, LiveParts, LastPart
<1>5. \A q \in PartNames : \A m \in DOMAIN list[q] : \E n \in DOMAIN new[q] : n >= m /\ new[q][n] = list[q][m]
  <2> SUFFICES ASSUME NEW q \in PartNames, NEW m \in DOMAIN list[q]
               PROVE  \E n \in DOMAIN new[q] : n >= m /\ new[q][n] = list[q][m]
    OBVIOUS
  <2>1. CASE q = p
    <3>1. m \in 1 .. Len(list[p]) /\ m + 1 \in 1 .. Len(new[p])
      BY <1>2, <1>3, <2>1
    <3>2. m + 1 \in DOMAIN new[q] /\ m + 1 >= m /\ new[q][m + 1] = list[q][m]
      BY <1>2, <1>3, <2>1, <3>1
    <3> QED
      BY <3>2
  <2>2. CASE q # p
    BY <1>3, <2>2
  <2> QED
    BY <2>1, <2>2
<1>6. list' = new /\ turn' = turn /\ page' = page /\ LastPart' = LastPart /\ Passed' = Passed
  BY <1>1 DEF Moved, LastPart, Passed
<1> HIDE DEF new
<1>7. page # 0 => \A j \in steady : IsAhead(j) => IsAhead(j)'
  <2> SUFFICES ASSUME page # 0, NEW j \in steady, IsAhead(j)
               PROVE  IsAhead(j)'
    OBVIOUS
  <2>1. Passed \in Nat
    BY PassedIs DEF ListingInv
  <2>2. CASE \E n \in DOMAIN list[Parts[turn]] : n > Passed /\ list[Parts[turn]][n] = j
    <3>1. PICK n \in DOMAIN list[Parts[turn]] : n > Passed /\ list[Parts[turn]][n] = j
      BY <2>2
    <3>2. PICK m \in DOMAIN new[Parts[turn]] : m >= n /\ new[Parts[turn]][m] = j
      BY <1>1, <1>5, <3>1
    <3>3. m > Passed
      BY <1>1, <1>3, <2>1, <3>1, <3>2
    <3> QED
      BY <1>6, <3>2, <3>3 DEF IsAhead
  <2>3. CASE \E k \in turn + 1 .. LastPart : j \in Range(list[Parts[k]])
    <3>1. PICK k \in turn + 1 .. LastPart : j \in Range(list[Parts[k]])
      BY <2>3
    <3>2. k \in 1 .. Len(Parts) /\ Parts[k] \in PartNames
      BY <1>1, PartsAre
    <3>3. j \in Range(new[Parts[k]])
      BY <1>5, <3>1, <3>2 DEF Range
    <3> QED
      BY <1>6, <3>1, <3>3 DEF IsAhead
  <2> QED
    BY <2>2, <2>3 DEF IsAhead
<1> QED
  BY <1>1, <1>2, <1>4, <1>7, MovedHolds DEF new

LEMMA RemoveHolds ==
  ASSUME ListingInv, NEW p \in LiveParts, NEW n \in DOMAIN list[p], RemoveEntry(n, p)
  PROVE  ListingInv'
<1> DEFINE new == Taken(list, p, n)
           moved == p = Parts[turn] /\ n <= (page - 1) * PerPage
<1>1. /\ Moved(new, moved) /\ p \in PartNames /\ list \in Lists /\ Distinct(list)
      /\ InOnePart(list) /\ turn \in 1 .. Len(Parts) /\ \A k \in 1 .. Len(Parts) : Parts[k] \in PartNames
  BY PartsOfList, PartsAre DEF RemoveEntry, Taken
<1>2. /\ new \in Lists /\ Distinct(new) /\ list[p][n] \notin On(new)
      /\ \A m \in DOMAIN list[p] : m # n => IF m < n THEN m \in DOMAIN new[p] /\ new[p][m] = list[p][m]
                                           ELSE m - 1 \in DOMAIN new[p] /\ new[p][m - 1] = list[p][m]
  BY <1>1, RemoveKeeps
<1>3. \A q \in PartNames \ {p} : new[q] = list[q]
  BY <1>1 DEF Lists, Taken
<1>4. InOnePart(new)
  BY <1>1, <1>3 DEF InOnePart, LiveParts, LastPart
<1>5. moved \in BOOLEAN /\ (moved <=> p = Parts[turn] /\ n <= Passed)
  BY DEF Passed
<1>6. \A q \in PartNames : DOMAIN list[q] \subseteq Nat
  BY <1>1 DEF Lists
<1> HIDE DEF new, moved
<1>7. ASSUME page # 0, ~moved, NEW i \in steady, i \in On(new), IsAhead(i)
      PROVE  IsAhead(i)'
  <2>1. Passed \in Nat
    BY <1>7, PassedIs DEF ListingInv
  <2>2. list[p][n] # i
    BY <1>2, <1>7
  <2>3. \A k \in turn + 1 .. LastPart : i \in Range(list[Parts[k]]) => i \in Range(new[Parts[k]])
    <3> SUFFICES ASSUME NEW k \in turn + 1 .. LastPart, NEW m \in DOMAIN list[Parts[k]], list[Parts[k]][m] = i
                 PROVE  i \in Range(new[Parts[k]])
      BY DEF Range
    <3>1. Parts[k] \in PartNames
      BY <1>1, PartsAre
    <3> QED
      BY <1>2, <1>3, <2>2, <3>1 DEF Range
  <2>4. ASSUME NEW m \in DOMAIN list[Parts[turn]], m > Passed, list[Parts[turn]][m] = i
        PROVE  \E k \in DOMAIN new[Parts[turn]] : k > Passed /\ new[Parts[turn]][k] = i
    <3>1. Parts[turn] \in PartNames /\ m \in Nat /\ n \in Nat
      BY <1>1, <1>6, <2>4
    <3>2. CASE Parts[turn] # p \/ m < n
      BY <1>2, <1>3, <2>4, <3>1, <3>2
    <3>3. CASE Parts[turn] = p /\ ~(m < n)
      <4>1. m # n
        BY <2>2, <2>4, <3>3
      <4>2. ~(n <= Passed)
        BY <1>5, <1>7, <3>3
      <4>3. m - 1 > Passed
        BY <2>1, <3>1, <3>3, <4>1, <4>2
      <4>4. m - 1 \in DOMAIN new[p] /\ new[p][m - 1] = i
        BY <1>2, <2>4, <3>3, <4>1
      <4> QED
        BY <3>3, <4>3, <4>4
    <3> QED
      BY <3>2, <3>3
  <2> QED
    BY <1>1, <1>2, <1>7, <2>3, <2>4, AheadIs
<1> QED
  BY <1>1, <1>2, <1>4, <1>5, <1>7, MovedHolds

LEMMA MoveHolds ==
  ASSUME ListingInv, NEW p \in LiveParts, NEW q \in LiveParts, NEW n \in DOMAIN list[p], MoveEntry(n, p, q)
  PROVE  ListingInv'
<1> DEFINE i == list[p][n]
           one == Taken(list, p, n)
           two == Added(one, q, i)
           new == [list EXCEPT ![p] = Without(@, n), ![q] = <<i>> \o @]
<1>1. /\ Moved(new, TRUE) /\ p \in PartNames /\ q \in PartNames /\ p # q /\ list \in Lists /\ Distinct(list)
      /\ InOnePart(list)
  BY PartsOfList, PartsAre DEF MoveEntry
<1>2. one \in Lists /\ Distinct(one) /\ i \in Items /\ i \notin On(one)
  BY <1>1, RemoveKeeps
<1>3. two \in Lists /\ Distinct(two)
  <2> HIDE DEF one, i
  <2> QED
    BY <1>1, <1>2, AddKeeps
<1>4. new = two
  BY <1>1 DEF Lists, Added, Taken
<1>5. InOnePart(new)
  BY <1>1 DEF InOnePart, LiveParts, LastPart
<1> HIDE DEF one, two, new
<1> QED
  BY <1>1, <1>3, <1>4, <1>5, MovedHolds

LEMMA BeginHolds ==
  ASSUME ListingInv, BeginFetch
  PROVE  ListingInv'
<1>1. /\ turn' = 1 /\ page' = 1 /\ read' = {} /\ got' = {} /\ complete' = TRUE
      /\ steady' = Listed /\ away' = Items \ Listed /\ shifted' = FALSE /\ before' = links
      /\ asked' = asked /\ list' = list /\ links' = links
  BY DEF BeginFetch, Listed
<1>6. LastPart' = LastPart /\ Passed' = 0 /\ Listed' = Listed /\ ListOK' = ListOK
  BY <1>1, SameList, PagesAssumption DEF Passed
<1>2. ListingShape'
  <2>1. ListOK /\ ReaderOK /\ SeenOK /\ 1 \in 1 .. LastPart
    BY PartsAre DEF ListingInv, ListingShape
  <2>2. ReaderOK'
    BY <1>1, <1>6, <2>1 DEF ReaderOK
  <2>3. SeenOK'
    BY <1>1, <1>6, <2>1 DEF SeenOK
  <2> QED
    BY <1>6, <2>1, <2>2, <2>3 DEF ListingShape
<1>3. \A i \in Listed : IsAhead(i)'
  <2> SUFFICES ASSUME NEW i \in Listed
               PROVE  IsAhead(i)'
    OBVIOUS
  <2>1. PICK p \in PartNames : \E m \in DOMAIN list[p] : list[p][m] = i
    BY OnIs DEF Listed
  <2>2. PICK m \in DOMAIN list[p] : list[p][m] = i
    BY <2>1
  <2>3. PICK k \in 1 .. Len(Parts) : Parts[k] = p
    BY PartsAssumption DEF PartNames, Range
  <2>4. m \in Nat \ {0} /\ LastPart \in 1 .. Len(Parts)
    BY PartsAre, PartsOfList DEF Lists
  <2>5. CASE Parts[1] = p
    <3>1. m \in DOMAIN list'[Parts[turn']] /\ m > Passed' /\ list'[Parts[turn']][m] = i
      BY <1>1, <1>6, <2>2, <2>4, <2>5
    <3> QED
      BY <3>1 DEF IsAhead
  <2>6. CASE Parts[1] # p
    <3>1. asked # "letterboxd"
      <4>1. list[p] # <<>>
        BY <2>2
      <4> QED
        BY <2>6, <4>1, PartsOfList DEF InOnePart
    <3>2. k \in 2 .. LastPart
      BY <2>3, <2>6, <3>1 DEF LastPart
    <3> QED
      BY <1>1, <1>6, <2>2, <2>3, <3>2 DEF IsAhead, Range
  <2> QED
    BY <2>5, <2>6
<1>4. Fetching'
  BY <1>1, <1>3 DEF Fetching
<1>5. KeepsWhatIsListed'
  BY <1>1 DEF KeepsWhatIsListed, ListedStays, GoneIsDropped
<1> QED
  BY <1>2, <1>4, <1>5 DEF ListingInv

LEMMA NextPartHolds ==
  ASSUME ListingInv, page # 0, NEW titles \in SUBSET Items, NEW ok \in BOOLEAN, NextPart(titles, ok),
         UNCHANGED <<asked, list, steady, away, shifted, before>>, titles \cap away = {},
         (ok /\ ~shifted /\ complete /\ asked # "anilist") =>
             \A i \in steady : i \in got \cup titles \/ \E k \in turn + 1 .. LastPart : i \in Range(list[Parts[k]])
  PROVE  ListingInv'
<1>1. /\ got' = got \cup titles /\ read' = {} /\ complete' = (complete /\ ok)
      /\ asked' = asked /\ list' = list /\ steady' = steady /\ away' = away /\ shifted' = shifted
      /\ before' = before
  BY DEF NextPart
<1>7. complete' => complete /\ ok
  BY <1>1, Zenon
<1>2. /\ ListOK /\ ReaderOK /\ SeenOK /\ links = before /\ got \cap away = {}
      /\ LastPart \in Nat \ {0} /\ turn \in 1 .. LastPart
  <2>1. LastPart \in Nat \ {0}
    BY PartsAre
  <2> QED
    BY <2>1 DEF ListingInv, Fetching, ListingShape, ReaderOK
<1>3. ListOK' = ListOK /\ Listed' = Listed /\ LastPart' = LastPart
  BY <1>1, SameList
<1>6. SeenOK'
  BY <1>1, <1>2, <1>3 DEF SeenOK
<1>4. CASE turn < LastPart
  <2>1. turn' = turn + 1 /\ page' = 1 /\ links' = links /\ Passed' = 0
    BY <1>4, PagesAssumption DEF NextPart, Passed
  <2>2. ListingShape'
    <3>1. turn' \in 1 .. LastPart' /\ page' \in Nat /\ page' \in {0, 1}
      BY <1>2, <1>3, <1>4, <2>1
    <3>2. ReaderOK'
      BY <1>1, <1>2, <2>1, <3>1 DEF ReaderOK
    <3> QED
      BY <1>2, <1>3, <1>6, <3>2 DEF ListingShape
  <2>3. ASSUME NEW i, NEW k \in turn + 1 .. LastPart, i \in Range(list[Parts[k]])
        PROVE  IsAhead(i)'
    <3>1. k = turn' \/ k \in turn' + 1 .. LastPart'
      BY <1>2, <1>3, <2>1
    <3>2. CASE k = turn'
      <4>1. PICK n \in DOMAIN list[Parts[k]] : list[Parts[k]][n] = i
        BY <2>3 DEF Range
      <4>2. n > 0
        BY PartsOfList, PartsAre, <1>2 DEF Lists
      <4> QED
        BY <1>1, <1>3, <2>1, <3>2, <4>1, <4>2 DEF IsAhead
    <3>3. CASE k \in turn' + 1 .. LastPart'
      BY <1>1, <2>3, <3>3 DEF IsAhead
    <3> QED
      BY <3>1, <3>2, <3>3
  <2>4. Fetching'
    <3>1. links' = before' /\ (got' \cup read') \cap away' = {}
      BY <1>1, <1>2, <2>1
    <3>2. (~shifted' /\ complete' /\ asked' # "anilist") => \A i \in steady' : i \in got' \cup read' \/ IsAhead(i)'
      BY <1>1, <1>7, <2>3
    <3> QED
      BY <3>1, <3>2 DEF Fetching
  <2>5. KeepsWhatIsListed'
    BY <2>1 DEF KeepsWhatIsListed, ListedStays, GoneIsDropped
  <2> QED
    BY <2>2, <2>4, <2>5 DEF ListingInv
<1>5. CASE ~(turn < LastPart)
  <2>1. turn' = 1 /\ page' = 0 /\ links' = IF complete' /\ asked # "anilist" THEN got' ELSE links \cup got'
    BY <1>1, <1>5 DEF NextPart, Reconciled
  <2>2. ListingShape'
    <3>1. turn' \in 1 .. LastPart' /\ page' \in Nat /\ page' \in {0, 1}
      BY <1>2, <1>3, <2>1
    <3>2. ReaderOK'
      BY <1>1, <1>2, <2>1, <3>1 DEF ReaderOK
    <3> QED
      BY <1>2, <1>3, <1>6, <3>2 DEF ListingShape
  <2>3. Fetching'
    BY <2>1 DEF Fetching
  <2>4. \A k \in turn + 1 .. LastPart : FALSE
    BY <1>2, <1>5
  <2>5. ListedStays'
    <3>1. CASE complete' /\ asked # "anilist"
      BY <1>1, <1>7, <2>1, <2>4, <3>1 DEF ListedStays
    <3>2. CASE ~(complete' /\ asked # "anilist")
      BY <1>1, <1>2, <2>1, <3>2 DEF ListedStays
    <3> QED
      BY <3>1, <3>2
  <2>6. GoneIsDropped'
    BY <1>1, <1>2, <2>1 DEF GoneIsDropped
  <2> QED
    BY <2>2, <2>3, <2>5, <2>6 DEF ListingInv, KeepsWhatIsListed
<1> QED
  BY <1>4, <1>5

LEMMA PieceIs ==
  ASSUME NEW S, NEW l \in Seq(S), NEW a \in Nat, NEW b \in Nat, b <= Len(l)
  PROVE  /\ SubSeq(l, a + 1, b) \in Seq(S)
         /\ Len(SubSeq(l, a + 1, b)) = IF a < b THEN b - a ELSE 0
         /\ \A k \in 1 .. b - a : SubSeq(l, a + 1, b)[k] = l[a + k]
<1>1. Len(l) \in Nat
  OBVIOUS
<1>2. \A k \in a + 1 .. b : k \in 1 .. Len(l)
  BY <1>1
<1> QED
  BY <1>1, <1>2

\* What the page after the first a entries of l has, of per entries, the last of which is the b-th.
LEMMA PieceHas ==
  ASSUME NEW S, NEW l \in Seq(S), NEW a \in Nat, NEW per \in Nat \ {0}, NEW b \in Nat,
         b <= Len(l), b <= a + per, b >= a + per \/ b >= Len(l),
         NEW piece \in Seq(S), a < b => Len(piece) = b - a, ~(a < b) => Len(piece) = 0,
         \A k \in 1 .. b - a : piece[k] = l[a + k]
  PROVE  /\ Range(piece) \subseteq Range(l)
         /\ \A n \in DOMAIN l : n > a /\ n <= a + per => l[n] \in Range(piece)
         /\ piece = <<>> => \A n \in DOMAIN l : n <= a
         /\ Len(piece) < per => \A n \in DOMAIN l : n <= a + per
<1>1. Len(l) \in Nat /\ DOMAIN l = 1 .. Len(l)
  OBVIOUS
<1>2. /\ DOMAIN piece = 1 .. Len(piece) /\ Len(piece) \in Nat
      /\ \A k \in 1 .. b - a : piece[k] = l[a + k]
  OBVIOUS
<1>4. \A k : k \in DOMAIN piece <=> k \in 1 .. b - a
  BY <1>2
<1>5. ASSUME NEW k \in DOMAIN piece
      PROVE  piece[k] \in Range(l)
  <2>1. k \in 1 .. b - a
    BY <1>4
  <2>2. a + k \in 1 .. Len(l)
    BY <1>1, <2>1
  <2>3. piece[k] = l[a + k]
    BY <1>2, <2>1
  <2> QED
    BY <1>1, <2>2, <2>3 DEF Range
<1>6. ASSUME NEW n \in DOMAIN l, n > a, n <= a + per
      PROVE  l[n] \in Range(piece)
  <2>1. n \in Nat /\ n <= b
    BY <1>1, <1>6
  <2>2. n - a \in 1 .. b - a /\ a + (n - a) = n
    BY <1>6, <2>1
  <2>3. piece[n - a] = l[n]
    BY <1>2, <2>2
  <2> QED
    BY <1>4, <2>2, <2>3 DEF Range
<1>7. ASSUME piece = <<>>, NEW n \in DOMAIN l
      PROVE  n <= a
  <2>1. Len(piece) = 0
    BY <1>7
  <2> QED
    BY <1>1, <1>2, <2>1
<1>8. ASSUME Len(piece) < per, NEW n \in DOMAIN l
      PROVE  n <= a + per
  BY <1>1, <1>2, <1>8
<1> QED
  BY <1>5, <1>6, <1>7, <1>8 DEF Range

\* What an answer has: all of the part, or the entries of one page of it.
LEMMA EntriesAre ==
  ASSUME ListingInv, page # 0
  PROVE  LET l == list[Parts[turn]]
         IN  /\ Range(Entries) \subseteq Items /\ Range(Entries) \subseteq Listed
             /\ \A n \in DOMAIN l : (n > Passed /\ (n <= page * PerPage \/ asked \in {"simkl", "simkl dropped"}))
                                      => l[n] \in Range(Entries)
             /\ asked \notin {"simkl", "simkl dropped"} =>
                   /\ Entries = <<>> => \A n \in DOMAIN l : n <= Passed
                   /\ Len(Entries) < PerPage => \A n \in DOMAIN l : n <= page * PerPage
<1> DEFINE l == list[Parts[turn]]
           last == IF page * PerPage < Len(l) THEN page * PerPage ELSE Len(l)
<1>1. l \in Seq(Items) /\ Parts[turn] \in PartNames /\ DOMAIN l = 1 .. Len(l) /\ Len(l) \in Nat
  BY PartsOfList DEF Lists
<1>2. Passed \in Nat /\ page * PerPage = Passed + PerPage /\ PerPage \in Nat \ {0}
  BY PassedIs DEF ListingInv
<1>3. Range(l) \subseteq Items /\ Range(l) \subseteq Listed
  BY <1>1 DEF Range, On, Listed
<1>4. Page = SubSeq(l, Passed + 1, last)
  BY DEF Page, Passed
<1> HIDE DEF l
<1>5. /\ last \in Nat /\ last <= Len(l) /\ last <= Passed + PerPage
      /\ last >= Passed + PerPage \/ last >= Len(l)
  <2> DEFINE till == page * PerPage
  <2>1. last = (IF till < Len(l) THEN till ELSE Len(l)) /\ till = Passed + PerPage
    BY <1>2
  <2>2. CASE till < Len(l)
    <3>1. last = till
      BY <2>1, <2>2
    <3> HIDE DEF till, last
    <3> QED
      BY <1>1, <1>2, <2>1, <2>2, <3>1
  <2>3. CASE ~(till < Len(l))
    <3>1. last = Len(l)
      BY <2>1, <2>3
    <3> HIDE DEF till, last
    <3> QED
      BY <1>1, <1>2, <2>1, <2>3, <3>1
  <2> QED
    BY <2>2, <2>3
<1> HIDE DEF last
<1>6. l \in Seq(Items) /\ Passed \in Nat /\ PerPage \in Nat \ {0}
  BY <1>1, <1>2
<1>7. /\ Range(Page) \subseteq Range(l)
      /\ \A n \in DOMAIN l : n > Passed /\ n <= Passed + PerPage => l[n] \in Range(Page)
      /\ Page = <<>> => \A n \in DOMAIN l : n <= Passed
      /\ Len(Page) < PerPage => \A n \in DOMAIN l : n <= Passed + PerPage
  <2>1. /\ Page \in Seq(Items) /\ Len(Page) = (IF Passed < last THEN last - Passed ELSE 0)
        /\ \A k \in 1 .. last - Passed : Page[k] = l[Passed + k]
    <3>1. last \in Nat /\ last <= Len(l)
      BY <1>5
    <3>2. /\ SubSeq(l, Passed + 1, last) \in Seq(Items)
          /\ Len(SubSeq(l, Passed + 1, last)) = (IF Passed < last THEN last - Passed ELSE 0)
          /\ \A k \in 1 .. last - Passed : SubSeq(l, Passed + 1, last)[k] = l[Passed + k]
      BY Zenon, <1>6, <3>1, PieceIs
    <3> QED
      BY Zenon, <1>4, <3>2
  <2>2. (Passed < last => Len(Page) = last - Passed) /\ (~(Passed < last) => Len(Page) = 0)
    BY <2>1
  <2> QED
    BY <1>5, <1>6, <2>1, <2>2, PieceHas
<1>11. CASE asked \in {"simkl", "simkl dropped"}
  <2>1. Entries = l
    BY <1>11 DEF Entries, AllItems, l
  <2> QED
    BY <1>3, <1>11, <2>1 DEF l, Range
<1>12. CASE asked \notin {"simkl", "simkl dropped"}
  <2>1. Entries = Page
    BY <1>12 DEF Entries
  <2> QED
    BY <1>2, <1>3, <1>7, <1>12, <2>1 DEF l
<1> QED
  BY <1>11, <1>12

LEMMA FetchHolds ==
  ASSUME ListingInv, NEW counted \in BOOLEAN, FetchPage(counted)
  PROVE  ListingInv'
<1> DEFINE l == list[Parts[turn]]
           titles == read \cup Range(Entries)
           stops == CASE asked = "trakt" -> TraktStops(counted)
                      [] asked = "letterboxd" -> LetterboxdStops
                      [] asked = "anilist" -> AniListStops
                      [] OTHER -> SimklStops
<1>1. /\ page # 0 /\ UNCHANGED <<asked, list, steady, away, shifted, before>>
      /\ \/ stops /\ NextPart(titles, TRUE)
         \/ ~stops /\ AtCap /\ NextPart(titles, ~Truncated)
         \/ ~stops /\ page' = page + 1 /\ read' = titles /\ UNCHANGED <<turn, got, complete, links>>
  BY Zenon DEF FetchPage
<1>2. /\ l \in Seq(Items) /\ DOMAIN l = 1 .. Len(l) /\ Len(l) \in Nat /\ Parts[turn] \in PartNames
  BY PartsOfList DEF Lists
<1>3. Passed \in Nat /\ page * PerPage = Passed + PerPage /\ PerPage \in Nat \ {0}
  BY <1>1, PassedIs DEF ListingInv
<1>4. /\ titles \in SUBSET Items /\ titles \cap away = {}
  BY <1>1, EntriesAre DEF ListingInv, ListingShape, ReaderOK, SeenOK, Fetching
<1>5. stops => \A n \in DOMAIN l : n > Passed => l[n] \in Range(Entries)
  <2>1. CASE asked \in {"simkl", "simkl dropped"}
    BY <1>1, <2>1, EntriesAre
  <2>2. CASE asked \notin {"simkl", "simkl dropped"} /\ stops
    <3>1. (Len(Entries) < PerPage \/ Entries = <<>>) \/ ~MoreEntries
      BY <2>2 DEF TraktStops, LetterboxdStops, AniListStops, ListingInv, ListingShape, ReaderOK, Providers
    <3>2. CASE Len(Entries) < PerPage
      BY <1>1, <2>2, <3>2, EntriesAre
    <3>3. CASE Entries = <<>>
      <4>1. \A n \in DOMAIN l : n <= Passed
        BY <1>1, <2>2, <3>3, EntriesAre
      <4>2. \A n \in DOMAIN l : ~(n > Passed)
        BY <1>2, <1>3, <4>1
      <4> QED
        BY <4>2
    <3>4. CASE ~MoreEntries
      <4>1. \A n \in DOMAIN l : n <= page * PerPage
        BY <1>2, <1>3, <3>4 DEF MoreEntries
      <4> QED
        BY <1>1, <4>1, EntriesAre
    <3> QED
      BY <3>1, <3>2, <3>3, <3>4
  <2> QED
    BY <2>1, <2>2
<1>6. (~shifted /\ complete /\ asked # "anilist") => \A i \in steady : i \in got \cup read \/ IsAhead(i)
  BY <1>1 DEF ListingInv, Fetching
<1> HIDE DEF stops
<1>7. CASE stops /\ NextPart(titles, TRUE)
  <2>1. (~shifted /\ complete /\ asked # "anilist") =>
           \A i \in steady : i \in got \cup titles \/ \E k \in turn + 1 .. LastPart : i \in Range(list[Parts[k]])
    BY <1>5, <1>6, <1>7 DEF IsAhead
  <2> HIDE DEF titles
  <2> QED
    BY <1>1, <1>4, <1>7, <2>1, NextPartHolds
<1>8. CASE ~stops /\ AtCap /\ NextPart(titles, ~Truncated)
  <2>1. PICK ok \in BOOLEAN : ok = ~Truncated
    BY DEF Truncated
  <2>2. ok => asked = "anilist"
    BY <1>8, <2>1 DEF Truncated
  <2>3. NextPart(titles, ok)
    BY <1>8, <2>1
  <2> HIDE DEF titles
  <2> QED
    BY <1>1, <1>4, <2>2, <2>3, NextPartHolds
<1>9. CASE ~stops /\ page' = page + 1 /\ read' = titles /\ UNCHANGED <<turn, got, complete, links>>
  <2>1. asked \notin {"simkl", "simkl dropped"}
    BY <1>9 DEF stops, SimklStops
  <2>2. LastPart' = LastPart /\ Passed' = page * PerPage /\ page \in Nat /\ page' # 0
    <3>1. page \in Nat /\ page' = page + 1
      BY <1>9 DEF ListingInv, ListingShape, ReaderOK
    <3>2. page' - 1 = page
      BY <3>1
    <3> QED
      BY <1>1, <3>1, <3>2 DEF LastPart, Passed
  <2>3. ListOK' = ListOK /\ Listed' = Listed
    BY <1>1, SameList
  <2>4. ListingShape'
    <3>1. ReaderOK'
      <4>1. page' \in Nat
        BY <1>9, <2>2
      <4> QED
        BY <1>1, <1>4, <1>9, <2>1, <2>2, <4>1 DEF ListingInv, ListingShape, ReaderOK
    <3>2. SeenOK'
      BY <1>1, <2>3 DEF ListingInv, ListingShape, SeenOK
    <3> QED
      BY <2>3, <3>1, <3>2 DEF ListingInv, ListingShape
  <2>5. \A i : IsAhead(i) => i \in titles \/ IsAhead(i)'
    <3> SUFFICES ASSUME NEW i, IsAhead(i), i \notin titles
                 PROVE  IsAhead(i)'
      OBVIOUS
    <3>1. CASE \E n \in DOMAIN l : n > Passed /\ l[n] = i
      <4>1. PICK n \in DOMAIN l : n > Passed /\ l[n] = i
        BY <3>1
      <4>2. ~(n <= page * PerPage)
        BY <1>1, <4>1, EntriesAre
      <4>3. n > page * PerPage
        BY <1>2, <1>3, <4>2
      <4> QED
        BY <1>1, <1>9, <2>2, <4>1, <4>3 DEF IsAhead
    <3>2. CASE \E k \in turn + 1 .. LastPart : i \in Range(list[Parts[k]])
      BY <1>1, <1>9, <2>2, <3>2 DEF IsAhead
    <3> QED
      BY <3>1, <3>2 DEF IsAhead
  <2>6. Fetching'
    <3>1. links' = before' /\ (got' \cup read') \cap away' = {}
      BY <1>1, <1>4, <1>9 DEF ListingInv, Fetching
    <3>2. (~shifted' /\ complete' /\ asked' # "anilist") => \A i \in steady' : i \in got' \cup read' \/ IsAhead(i)'
      BY <1>1, <1>6, <1>9, <2>5
    <3> QED
      BY <3>1, <3>2 DEF Fetching
  <2>7. KeepsWhatIsListed'
    BY <2>2 DEF KeepsWhatIsListed, ListedStays, GoneIsDropped
  <2> QED
    BY <2>4, <2>6, <2>7 DEF ListingInv
<1> QED
  BY <1>1, <1>7, <1>8, <1>9

LEMMA FailHolds ==
  ASSUME ListingInv, FetchFails
  PROVE  ListingInv'
<1>1. page # 0 /\ UNCHANGED <<asked, list, steady, away, shifted, before>>
  BY DEF FetchFails
<1>2. CASE Aborts
  <2>1. turn' = 1 /\ page' = 0 /\ read' = {} /\ complete' = FALSE /\ UNCHANGED <<got, links>>
    BY <1>2 DEF FetchFails
  <2>2. ListOK' = ListOK /\ Listed' = Listed /\ LastPart' = LastPart /\ 1 \in 1 .. LastPart
    BY <1>1, SameList, PartsAre
  <2>3. ListingShape'
    <3>1. ReaderOK'
      BY <1>1, <2>1, <2>2 DEF ListingInv, ListingShape, ReaderOK
    <3>2. SeenOK'
      BY <1>1, <2>2 DEF ListingInv, ListingShape, SeenOK
    <3> QED
      BY <2>2, <3>1, <3>2 DEF ListingInv, ListingShape
  <2>4. links = before
    BY <1>1 DEF ListingInv, Fetching
  <2> QED
    BY <1>1, <2>1, <2>3, <2>4 DEF ListingInv, Fetching, KeepsWhatIsListed, ListedStays, GoneIsDropped
<1>3. CASE ~Aborts
  <2>1. NextPart({}, FALSE)
    BY <1>3 DEF FetchFails, FailedIsWhole
  <2> QED
    BY <1>1, <2>1, NextPartHolds
<1> QED
  BY <1>2, <1>3

LEMMA SomeOrder ==
  ASSUME NEW S \in SUBSET Items
  PROVE  InSomeOrder(S) \in Seq(Items) /\ IsInjective(InSomeOrder(S))
<1>1. IsFiniteSet(S)
  BY PagesAssumption, FS_Subset
<1>2. Cardinality(S) \in Nat /\ ExistsBijection(1 .. Cardinality(S), S)
  BY <1>1, FS_CardinalityType
<1>3. PICK f \in Bijection(1 .. Cardinality(S), S) : TRUE
  BY <1>2 DEF ExistsBijection
<1>4. f \in [1 .. Cardinality(S) -> S] /\ IsInjective(f)
  BY <1>3 DEF Bijection, Injection, IsInjective
<1>5. InSomeOrder(S) \in [1 .. Cardinality(S) -> S] /\ IsInjective(InSomeOrder(S))
  BY <1>4 DEF InSomeOrder
<1> QED
  BY <1>2, <1>5

LEMMA ListingInitHolds == ListingInit => ListingInv
<1> SUFFICES ASSUME ListingInit
             PROVE  ListingInv
  OBVIOUS
<1>1. PICK S \in SUBSET Items : list = [p \in PartNames |-> IF p = Parts[1] THEN InSomeOrder(S) ELSE <<>>]
  BY DEF ListingInit
<1>2. InSomeOrder(S) \in Seq(Items) /\ IsInjective(InSomeOrder(S)) /\ <<>> \in Seq(Items) /\ DOMAIN <<>> = {}
  BY SomeOrder
<1>3. list \in Lists /\ InOnePart(list)
  BY <1>1, <1>2 DEF Lists, InOnePart
<1>4. Distinct(list)
  BY <1>1, <1>2 DEF Distinct, IsInjective
<1>5. ListOK /\ Listed \subseteq Items
  BY <1>3, <1>4, ListedAre DEF ListOK, Listed
<1>6. 1 \in 1 .. LastPart
  BY PartsAre
<1>7. ReaderOK /\ SeenOK
  BY <1>5, <1>6 DEF ListingInit, ReaderOK, SeenOK
<1> QED
  BY <1>5, <1>7 DEF ListingInit, ListingInv, ListingShape, Fetching, KeepsWhatIsListed, ListedStays, GoneIsDropped

LEMMA ListingStepHolds == ListingInv /\ [ListingNext]_listVars => ListingInv'
<1> SUFFICES ASSUME ListingInv, [ListingNext]_listVars
             PROVE  ListingInv'
  OBVIOUS
<1>1. CASE ListingNext
  BY <1>1, AddHolds, RemoveHolds, MoveHolds, BeginHolds, FetchHolds, FailHolds DEF ListingNext
<1>2. CASE UNCHANGED listVars
  <2>1. ListOK' = ListOK /\ Listed' = Listed /\ LastPart' = LastPart
    BY <1>2, SameList DEF listVars
  <2>2. \A i : IsAhead(i)' = IsAhead(i)
    BY <1>2, <2>1 DEF listVars, IsAhead, Passed
  <2>3. ListingShape'
    BY <1>2, <2>1 DEF listVars, ListingInv, ListingShape, ReaderOK, SeenOK
  <2> QED
    BY <1>2, <2>2, <2>3 DEF listVars, ListingInv, Fetching, KeepsWhatIsListed, ListedStays, GoneIsDropped
<1> QED
  BY <1>1, <1>2

LEMMA ListingInvariance == ListingSpec => []ListingInv
BY ListingInitHolds, ListingStepHolds, PTL DEF ListingSpec

\* Lists, links and the position of the reader keep their types, and what is steady or away
\* is so.
THEOREM ListingTypes == ListingSpec => []ListingTypeOK
<1>1. ListingInv => ListingTypeOK
  <2> SUFFICES ASSUME ListingInv
               PROVE  ListingTypeOK
    OBVIOUS
  <2>1. \A p \in PartNames : list[p] \in Seq(Items) /\ IsInjective(list[p])
    BY PartsOfList DEF Lists, Distinct, IsInjective
  <2>2. turn \in 1 .. Len(Parts)
    BY PartsOfList
  <2> QED
    BY <2>1, <2>2 DEF ListingTypeOK, ListingInv, ListingShape, ReaderOK, SeenOK, Listed
<1> QED
  BY <1>1, ListingInvariance, PTL

\* For any list, parts, page size and cap: a title listed all through a fetch is not removed and,
\* if the listing is whole, is added, unless an entry of a page already read went or a title moved
\* between parts; one off the list all through a whole fetch is not here after it, and none appears
\* that was not listed (the listing methods and their callers).
THEOREM FetchesKeepWhatIsListed == ListingSpec => []KeepsWhatIsListed
<1>1. ListingInv => KeepsWhatIsListed
  BY DEF ListingInv
<1> QED
  BY <1>1, ListingInvariance, PTL

=============================================================================
