---------------------------- MODULE OutboxProofs ----------------------------
(***************************************************************************)
(* Theorems about Outbox, for any number of workers, clients, targets,     *)
(* payloads and jobs, with crashes, slow workers and overlapping clients;  *)
(* those from HoldersAreUnique on, where there are neither of the last     *)
(* two, and the last three for one client.                                 *)
(***************************************************************************)
EXTENDS Outbox, TLAPS

\* What a job's ORM copy may say once its unit has an outcome.
Outcome == {"pending"} \cup Terminal \cup {"failed_retryable"}

\* The watches of the request a worker is sending exist, and are locked by it.
SendsLiveWatches ==
    \A w \in Worker : pc[w] = "sending" =>
        \A j \in sends[w] : /\ draft[w][j] # Absent
                            /\ loaded[w][j].target \in WatchKey => loaded[w][j].target \in live

\* A deletion and a worker never lock the same watch.
LocksExclude ==
    \A w \in Worker, c \in Client : tx[c].op = "delete" => ~Sharing(w, tx[c].key)

\* Every job of a unit that has an outcome carries it, but for those retired.
OutcomesRecorded ==
    \A w \in Worker : pc[w] \in {"settling", "throttled"} =>
        \A j \in Unit(w) \ Missing(w, Unit(w)) : draft[w][j].status \in Outcome

IInv == TypeOK /\ SendsLiveWatches /\ LocksExclude /\ OutcomesRecorded

-----------------------------------------------------------------------------
(* Rows. *)

LEMMA AbsentIsRow == Absent \in Row
  BY DEF Absent, Row

LEMMA NewRowIsRow ==
  ASSUME NEW k \in Key, NEW key \in Key \cup {NoKey}, NEW p \in Payload
  PROVE  NewRow(k, key, p) \in Row
  BY DEF NewRow, Absent, Row, Active, Waiting

LEMMA CoalescedIsRow ==
  ASSUME NEW row \in Row, NEW p \in Payload
  PROVE  Coalesced(row, p) \in Row
  BY DEF Coalesced, Row, Active, Waiting

LEMMA RetiredIsRow ==
  ASSUME NEW row \in Row
  PROVE  Retired(row) \in Row
  BY DEF Retired, Row, Terminal

\* A requeued row waits again or is superseded.
LEMMA RequeuedIsRow ==
  ASSUME NEW table, NEW j, NEW row \in Row, NEW later \in BOOLEAN
  PROVE  /\ Requeued(table, j, row, later) \in Row
         /\ Requeued(table, j, row, later).status \in {"pending", "superseded"}
  BY DEF Requeued, Retired, Row, Terminal, Active, Waiting

\* A finished copy has an outcome.
LEMMA FinalizedIsRow ==
  ASSUME NEW j, NEW row \in Row, NEW throttled \in BOOLEAN,
         NEW status \in {"succeeded", "failed_retryable", "failed_permanent"}
  PROVE  /\ Finalized(j, row, status, throttled) \in Row
         /\ Finalized(j, row, status, throttled).status \in Outcome
<1> DEFINE attempts == IF throttled /\ row.attempts > 0 THEN row.attempts - 1 ELSE row.attempts
           tried == IF status = "failed_retryable" /\ attempts >= MaxAttempts
                    THEN "failed_permanent" ELSE status
           final == IF tried = "failed_retryable" /\ HasSuccessor(jobs, j, row.key)
                    THEN "superseded" ELSE tried
<1>1. attempts \in Nat
  BY DEF Row
<1>2. tried \in {"succeeded", "failed_retryable", "failed_permanent"}
  OBVIOUS
<1>3. final \in {"succeeded", "failed_retryable", "failed_permanent", "superseded"}
  BY <1>2
<1>4. Finalized(j, row, status, throttled) =
        [row EXCEPT !.status = final, !.attempts = attempts, !.later = (final = "failed_retryable"),
                    !.key = IF final = "failed_retryable" THEN row.key ELSE NoKey]
  BY DEF Finalized
<1> HIDE DEF attempts, tried, final
<1> QED
  BY <1>1, <1>3, <1>4 DEF Row, Terminal, Active, Waiting, Outcome

\* Writing a row keeps its type.
LEMMA WrittenIsRow ==
  ASSUME NEW row \in Row, NEW old \in Row, NEW new \in Row
  PROVE  Written(row, old, new) \in Row
  BY DEF Written, Row

LEMMA FlushIsTable ==
  ASSUME TypeOK, NEW s \in Session
  PROVE  Flush(s) \in [Job -> Row]
  BY WrittenIsRow DEF Flush, TypeOK

-----------------------------------------------------------------------------
(* Types. *)

LEMMA InitTypeOK == Init => TypeOK
<1> SUFFICES ASSUME Init PROVE TypeOK
  OBVIOUS
<1>1. NoCopies \in [Job -> Row]
  BY AbsentIsRow DEF NoCopies
<1>2. NoTx \in [op : {"none", "put", "delete"}, key : Key \cup {NoKey},
                payload : Payload \cup {NoPayload}, sync : SyncStatus]
  BY DEF NoTx, SyncStatus
<1>3. disruptions \in 0 .. MaxDisruptions /\ sync \in [WatchKey -> SyncStatus]
  BY BoundAssumption DEF Init, SyncStatus
<1>4. sends \in [Worker -> SUBSET Job]
  BY DEF Init
<1> QED
  BY <1>1, <1>2, <1>3, <1>4 DEF Init, TypeOK

LEMMA EndTxType ==
  ASSUME TypeOK, NEW c \in Client, EndTx(c)
  PROVE  /\ tx' \in [Client -> [op : {"none", "put", "delete"}, key : Key \cup {NoKey},
                                payload : Payload \cup {NoPayload}, sync : SyncStatus]]
         /\ loaded' \in [Session -> [Job -> Row]]
         /\ draft' \in [Session -> [Job -> Row]]
  BY AbsentIsRow DEF EndTx, TypeOK, NoCopies, NoTx, SyncStatus, Session

LEMMA DropType ==
  ASSUME TypeOK, NEW w \in Worker, NEW S, Drop(w, S)
  PROVE  /\ loaded' \in [Session -> [Job -> Row]]
         /\ draft' \in [Session -> [Job -> Row]]
         /\ pc' \in [Worker -> {"idle", "ready", "sending", "settling", "throttled", "releasing"}]
         /\ sends' \in [Worker -> SUBSET Job]
  BY AbsentIsRow DEF Drop, TypeOK, NoCopies, Session

LEMMA AppliedType ==
  ASSUME TypeOK, NEW w \in Worker
  PROVE  Applied(w) \in [Key -> Payload \cup {NoPayload}]
<1>1. \A j \in Job : loaded[w][j].payload \in Payload \cup {NoPayload}
  BY DEF TypeOK, Session, Row
<1>2. sends[w] \subseteq Job
  BY DEF TypeOK
<1> QED
  BY <1>1, <1>2 DEF Applied, TypeOK

\* The statuses SyncAfter reports are the rows'.
LEMMA SyncAfterType ==
  ASSUME TypeOK, NEW rows \in [Job -> Row], NEW S \in SUBSET Job,
         \A j \in S : rows[j].status \in Outcome
  PROVE  SyncAfter(rows, S) \in [WatchKey -> SyncStatus]
<1> SUFFICES ASSUME NEW k \in WatchKey
             PROVE  SyncAfter(rows, S)[k] \in SyncStatus
  BY DEF SyncAfter
<1> DEFINE Reporting == {j \in S : rows[j].target = k /\ rows[j].status # "superseded"}
<1>1. CASE Reporting = {}
  BY <1>1 DEF SyncAfter, TypeOK
<1>2. CASE Reporting # {}
  <2>1. PICK j \in S : /\ rows[j].target = k /\ rows[j].status # "superseded"
                       /\ SyncAfter(rows, S)[k] = rows[j].status
    BY <1>2 DEF SyncAfter
  <2> QED
    BY <2>1 DEF Outcome, Terminal, SyncStatus
<1> QED
  BY <1>1, <1>2

LEMMA ClientType ==
  ASSUME TypeOK, NEW c \in Client, ClientStep(c)
  PROVE  TypeOK'
<1>1. ASSUME NEW k \in Key, NEW p \in Payload, EnqueueRead(c, k, p)
      PROVE  TypeOK'
  <2>1. c \in Session
    BY DEF Session
  <2>2. /\ tx' \in [Client -> [op : {"none", "put", "delete"}, key : Key \cup {NoKey},
                               payload : Payload \cup {NoPayload}, sync : SyncStatus]]
    BY <1>1 DEF EnqueueRead, TypeOK, SyncStatus
  <2>3. \/ UNCHANGED <<loaded, draft>>
        \/ \E j \in Job : Load(c, j, jobs[j], Coalesced(jobs[j], p))
        \/ \E j \in Job, key \in {k, NoKey} : Load(c, j, Absent, NewRow(k, key, p))
    BY <1>1 DEF EnqueueRead, FreshId
  <2>4. loaded' \in [Session -> [Job -> Row]] /\ draft' \in [Session -> [Job -> Row]]
    <3>1. ASSUME NEW j \in Job, NEW old \in Row, NEW new \in Row, Load(c, j, old, new)
          PROVE  loaded' \in [Session -> [Job -> Row]] /\ draft' \in [Session -> [Job -> Row]]
      BY <2>1, <3>1 DEF Load, TypeOK
    <3>2. ASSUME NEW j \in Job, Load(c, j, jobs[j], Coalesced(jobs[j], p))
          PROVE  loaded' \in [Session -> [Job -> Row]] /\ draft' \in [Session -> [Job -> Row]]
      <4>1. jobs[j] \in Row /\ Coalesced(jobs[j], p) \in Row
        BY CoalescedIsRow DEF TypeOK
      <4> QED
        BY <3>1, <3>2, <4>1
    <3>3. ASSUME NEW j \in Job, NEW key \in {k, NoKey}, Load(c, j, Absent, NewRow(k, key, p))
          PROVE  loaded' \in [Session -> [Job -> Row]] /\ draft' \in [Session -> [Job -> Row]]
      <4>1. NewRow(k, key, p) \in Row
        BY NewRowIsRow
      <4> QED
        BY <3>1, <3>3, <4>1, AbsentIsRow
    <3> QED
      BY <2>3, <3>2, <3>3 DEF TypeOK
  <2> QED
    BY <1>1, <2>2, <2>4 DEF EnqueueRead, TypeOK
<1>2. ASSUME EnqueueCommit(c)
      PROVE  TypeOK'
  <2>1. jobs' \in [Job -> Row]
    BY <1>2, FlushIsTable DEF EnqueueCommit, TypeOK, Session
  <2>2. wanted' \in [Key -> Payload \cup {NoPayload}] /\ sync' \in [WatchKey -> SyncStatus]
    BY <1>2 DEF EnqueueCommit, TypeOK, SyncStatus
  <2>3. EndTx(c)
    BY <1>2 DEF EnqueueCommit
  <2> QED
    BY <1>2, <2>1, <2>2, <2>3, EndTxType DEF EnqueueCommit, TypeOK
<1>3. ASSUME NEW k \in Key, DeleteRead(c, k)
      PROVE  TypeOK'
  <2>1. c \in Session
    BY DEF Session
  <2>2. loaded' \in [Session -> [Job -> Row]] /\ draft' \in [Session -> [Job -> Row]]
    BY <1>3, <2>1, AbsentIsRow, RetiredIsRow DEF DeleteRead, TypeOK
  <2>3. tx' \in [Client -> [op : {"none", "put", "delete"}, key : Key \cup {NoKey},
                            payload : Payload \cup {NoPayload}, sync : SyncStatus]]
    BY <1>3 DEF DeleteRead, TypeOK, NoTx, SyncStatus
  <2> QED
    BY <1>3, <2>2, <2>3 DEF DeleteRead, TypeOK
<1>4. ASSUME DeleteCommit(c)
      PROVE  TypeOK'
  <2>1. jobs' \in [Job -> Row]
    BY <1>4, FlushIsTable DEF DeleteCommit, Session
  <2>2. EndTx(c) /\ live' \subseteq WatchKey
    BY <1>4 DEF DeleteCommit, TypeOK
  <2> QED
    BY <1>4, <2>1, <2>2, EndTxType DEF DeleteCommit, TypeOK
<1> QED
  BY <1>1, <1>2, <1>3, <1>4 DEF ClientStep

LEMMA EnvironmentType ==
  ASSUME TypeOK, Environment
  PROVE  TypeOK'
<1>1. ASSUME ImportStart \/ ImportEnd
      PROVE  TypeOK'
  <2>1. disruptions' \in 0 .. MaxDisruptions
    BY <1>1, BoundAssumption DEF ImportStart, ImportEnd, TypeOK
  <2> QED
    BY <1>1, <2>1 DEF ImportStart, ImportEnd, TypeOK
<1>2. ASSUME NEW j \in Job, Age(j) \/ Elapse(j)
      PROVE  TypeOK'
  <2>1. jobs' \in [Job -> Row]
    <3>1. [jobs[j] EXCEPT !.stale = TRUE] \in Row /\ [jobs[j] EXCEPT !.later = FALSE] \in Row
      <4>1. ASSUME NEW row \in Row
            PROVE  [row EXCEPT !.stale = TRUE] \in Row /\ [row EXCEPT !.later = FALSE] \in Row
        BY DEF Row
      <4> QED
        BY <4>1 DEF TypeOK
    <3>2. \/ jobs' = [jobs EXCEPT ![j] = [jobs[j] EXCEPT !.stale = TRUE]]
          \/ jobs' = [jobs EXCEPT ![j] = [jobs[j] EXCEPT !.later = FALSE]]
      BY <1>2 DEF Age, Elapse
    <3> QED
      BY <3>1, <3>2 DEF TypeOK
  <2> QED
    BY <1>2, <2>1 DEF Age, Elapse, TypeOK
<1> QED
  BY <1>1, <1>2 DEF Environment

\* The unit of a worker gets copies of the right type, and only jobs of U become dirty.
LEMMA ChangedType ==
  ASSUME TypeOK, NEW w \in Worker, NEW U \in SUBSET Job, NEW f \in [Job -> Row],
         draft' = [draft EXCEPT ![w] = [j \in Job |-> IF j \in Missing(w, U) THEN Retired(loaded[w][j])
                                                      ELSE IF j \in U THEN f[j] ELSE Absent]]
  PROVE  /\ draft' \in [Session -> [Job -> Row]]
         /\ Unit(w)' \subseteq U
         /\ \A j \in U \ Missing(w, U) : draft'[w][j] = f[j]
<1>1. w \in Session /\ Missing(w, U) \subseteq U
  BY DEF Session, Missing
<1>2. \A j \in Job : Retired(loaded[w][j]) \in Row
  BY <1>1, RetiredIsRow DEF TypeOK
<1> QED
  BY <1>1, <1>2, AbsentIsRow DEF TypeOK, Unit

\* One answer of the provider: every copy of the unit that is not retired is finished.
LEMMA SettleType ==
  ASSUME TypeOK, NEW w \in Worker, NEW throttled \in BOOLEAN,
         NEW f \in [Job -> {"succeeded", "failed_retryable", "failed_permanent"}],
         draft' = [draft EXCEPT ![w] = [j \in Job |->
                      IF j \in Unit(w) \ Missing(w, Unit(w))
                      THEN Finalized(j, draft[w][j], f[j], throttled) ELSE draft[w][j]]]
  PROVE  /\ draft' \in [Session -> [Job -> Row]]
         /\ Unit(w)' \subseteq Unit(w)
         /\ \A j \in Unit(w) \ Missing(w, Unit(w)) : draft'[w][j].status \in Outcome
<1>1. w \in Session
  BY DEF Session
<1>2. \A j \in Job : draft[w][j] \in Row
  BY <1>1 DEF TypeOK
<1>3. \A j \in Job : /\ Finalized(j, draft[w][j], f[j], throttled) \in Row
                     /\ Finalized(j, draft[w][j], f[j], throttled).status \in Outcome
  BY <1>2, FinalizedIsRow
<1> QED
  BY <1>1, <1>2, <1>3 DEF TypeOK, Unit

\* Each answer in that form, with the provider's state.
LEMMA RespondEffect ==
  ASSUME TypeOK, NEW w \in Worker, Respond(w)
  PROVE  /\ pc[w] = "sending" /\ pc' = [pc EXCEPT ![w] = "settling"]
         /\ remote' \in {remote, Applied(w)}
         /\ UNCHANGED <<jobs, wanted, live, sync, importing, loaded, sends, tx, disruptions>>
         /\ \E throttled \in BOOLEAN :
              \E f \in [Job -> {"succeeded", "failed_retryable", "failed_permanent"}] :
                 draft' = [draft EXCEPT ![w] = [j \in Job |->
                      IF j \in Unit(w) \ Missing(w, Unit(w))
                      THEN Finalized(j, draft[w][j], f[j], throttled) ELSE draft[w][j]]]
<1> DEFINE Outcomes == {"succeeded", "failed_retryable", "failed_permanent"}
           D(f, throttled) == [draft EXCEPT ![w] = [j \in Job |->
                      IF j \in Unit(w) \ Missing(w, Unit(w))
                      THEN Finalized(j, draft[w][j], f[j], throttled) ELSE draft[w][j]]]
<1>1. CASE Succeed(w)
  <2>1. draft' = D([j \in Job |-> "succeeded"], FALSE)
    BY <1>1 DEF Succeed, Settle
  <2>2. [j \in Job |-> "succeeded"] \in [Job -> Outcomes]
    OBVIOUS
  <2> HIDE DEF D, Outcomes
  <2>3. \E throttled \in BOOLEAN : \E f \in [Job -> Outcomes] : draft' = D(f, throttled)
    BY <2>1, <2>2
  <2> QED
    BY <1>1, <2>3 DEF Succeed, Settle, D, Outcomes
<1>2. CASE Fail(w) \/ TooMany(w)
  <2>1. \E throttled \in BOOLEAN : draft' = D([j \in Job |-> "failed_retryable"], throttled)
    BY <1>2 DEF Fail, TooMany, Settle
  <2>2. [j \in Job |-> "failed_retryable"] \in [Job -> Outcomes]
    OBVIOUS
  <2> HIDE DEF D, Outcomes
  <2>3. \E throttled \in BOOLEAN : \E f \in [Job -> Outcomes] : draft' = D(f, throttled)
    BY <2>1, <2>2
  <2> QED
    BY <1>2, <2>3 DEF Fail, TooMany, Settle, D, Outcomes
<1>3. CASE Reject(w)
  <2>1. draft' = D([j \in Job |-> "failed_permanent"], FALSE)
    BY <1>3 DEF Reject, Settle
  <2>2. [j \in Job |-> "failed_permanent"] \in [Job -> Outcomes]
    OBVIOUS
  <2> HIDE DEF D, Outcomes
  <2>3. \E throttled \in BOOLEAN : \E f \in [Job -> Outcomes] : draft' = D(f, throttled)
    BY <2>1, <2>2
  <2> QED
    BY <1>3, <2>3 DEF Reject, Settle, D, Outcomes
<1>4. CASE Unauthorized(w)
  <2> DEFINE g == [j \in Job |-> IF draft[w][j].attempts <= AuthRetryAttempts
                                 THEN "failed_retryable" ELSE "failed_permanent"]
  <2>1. draft' = D(g, FALSE)
    BY <1>4 DEF Unauthorized, Settle
  <2>2. g \in [Job -> Outcomes]
    OBVIOUS
  <2> HIDE DEF D, Outcomes, g
  <2>3. \E throttled \in BOOLEAN : \E f \in [Job -> Outcomes] : draft' = D(f, throttled)
    BY <2>1, <2>2
  <2> QED
    BY <1>4, <2>3 DEF Unauthorized, Settle, D, Outcomes
<1> QED
  BY <1>1, <1>2, <1>3, <1>4 DEF Respond

\* The unit of a worker comes from what it holds.
LEMMA NextUnitHeld ==
  ASSUME NEW w \in Worker
  PROVE  NextUnit(w) \subseteq Held(w) /\ Held(w) \subseteq Job
  BY DEF NextUnit, Oldest, Held

\* What a worker holds and where it is, after it took or finished the jobs it holds.
LEMMA HeldType ==
  ASSUME TypeOK, NEW w \in Worker, NEW S, NEW f \in [Job -> Row]
  PROVE  /\ [loaded EXCEPT ![w] = [j \in Job |-> IF j \in S THEN f[j] ELSE Absent]]
               \in [Session -> [Job -> Row]]
         /\ [pc EXCEPT ![w] = IF S = {} THEN "idle" ELSE "ready"]
               \in [Worker -> {"idle", "ready", "sending", "settling", "throttled", "releasing"}]
  BY AbsentIsRow DEF TypeOK, Session

LEMMA ClaimType ==
  ASSUME TypeOK, NEW w \in Worker, Claim(w)
  PROVE  TypeOK'
<1> PICK S \in SUBSET Stale : RecoverAndTake(w, S)
  BY DEF Claim
<1> DEFINE table == Recovered(S)
           C == Due(table)
<1>1. S \subseteq Job
  BY DEF Stale
<1>2. table \in [Job -> Row] /\ \A j \in S : table[j].status \in Outcome
  <2>1. \A j \in Job : /\ Requeued(jobs, j, jobs[j], FALSE) \in Row
                       /\ Requeued(jobs, j, jobs[j], FALSE).status \in {"pending", "superseded"}
    BY RequeuedIsRow DEF TypeOK
  <2>2. ASSUME NEW row \in Row
        PROVE  [row EXCEPT !.stale = FALSE] \in Row /\ [row EXCEPT !.stale = FALSE].status = row.status
    BY DEF Row
  <2> QED
    BY <1>1, <2>1, <2>2 DEF Recovered, TypeOK, Outcome, Terminal
<1>3. Taken(table, C) \in [Job -> Row]
  <2>1. ASSUME NEW row \in Row
        PROVE  [row EXCEPT !.status = "in_progress"] \in Row
    BY DEF Row, Active
  <2> HIDE DEF table, C
  <2> QED
    BY <1>2, <2>1 DEF Taken
<1>4. SyncAfter(table, S) \in [WatchKey -> SyncStatus]
  BY <1>1, <1>2, SyncAfterType
<1>5. /\ jobs' = Taken(table, C)
      /\ sync' = SyncAfter(table, S)
      /\ loaded' = [loaded EXCEPT ![w] = [j \in Job |-> IF j \in C THEN Taken(table, C)[j] ELSE Absent]]
      /\ pc' = [pc EXCEPT ![w] = IF C = {} THEN "idle" ELSE "ready"]
      /\ UNCHANGED <<wanted, remote, live, importing, draft, sends, tx, disruptions>>
  BY DEF RecoverAndTake
<1> HIDE DEF table, C
<1>6. /\ loaded' \in [Session -> [Job -> Row]]
      /\ pc' \in [Worker -> {"idle", "ready", "sending", "settling", "throttled", "releasing"}]
  BY <1>3, <1>5, HeldType
<1> QED
  BY <1>3, <1>4, <1>5, <1>6 DEF TypeOK

LEMMA WorkerType ==
  ASSUME TypeOK, OutcomesRecorded, NEW w \in Worker, WorkerStep(w)
  PROVE  TypeOK'
<1> DEFINE U == NextUnit(w)
<1>1. w \in Session /\ U \subseteq Job /\ \A j \in Job : loaded[w][j] \in Row
  BY NextUnitHeld DEF Session, TypeOK
<1>2. CASE Claim(w)
  BY <1>2, ClaimType
<1>3. CASE Retire(w)
  <2> DEFINE rest == Held(w) \ U
             table == [j \in Job |-> IF j \in U THEN Written(jobs[j], loaded[w][j], Retired(loaded[w][j]))
                                     ELSE jobs[j]]
  <2>1. \A j \in Job : Retired(loaded[w][j]) \in Row
    BY <1>1, RetiredIsRow
  <2>2. table \in [Job -> Row]
    BY <1>1, <2>1, WrittenIsRow DEF TypeOK
  <2>3. /\ jobs' = table
        /\ loaded' = [loaded EXCEPT ![w] = [j \in Job |-> IF j \in rest THEN loaded[w][j] ELSE Absent]]
        /\ pc' = [pc EXCEPT ![w] = IF rest = {} THEN "idle" ELSE "ready"]
        /\ UNCHANGED <<wanted, remote, live, sync, importing, draft, sends, tx, disruptions>>
    BY <1>3 DEF Retire
  <2> HIDE DEF table, rest, U
  <2> QED
    BY <1>1, <2>2, <2>3, AbsentIsRow DEF TypeOK
<1>4. CASE Begin(w)
  <2> DEFINE f == [j \in Job |-> [loaded[w][j] EXCEPT !.attempts = @ + 1]]
  <2>1. ASSUME NEW row \in Row
        PROVE  [row EXCEPT !.attempts = @ + 1] \in Row
    BY DEF Row
  <2>2. f \in [Job -> Row]
    BY <1>1, <2>1
  <2>3. draft' = [draft EXCEPT ![w] = [j \in Job |-> IF j \in Missing(w, U) THEN Retired(loaded[w][j])
                                                     ELSE IF j \in U THEN f[j] ELSE Absent]]
    BY <1>4 DEF Begin, Changed
  <2>4. draft' \in [Session -> [Job -> Row]]
    <3> HIDE DEF f, U
    <3> QED
      BY <1>1, <2>2, <2>3, ChangedType
  <2>5. sends' \in [Worker -> SUBSET Job] /\ pc' = [pc EXCEPT ![w] = "sending"]
    BY <1>1, <1>4 DEF Begin, TypeOK
  <2> QED
    BY <1>4, <2>4, <2>5 DEF Begin, TypeOK
<1>5. CASE Throttle(w)
  <2> DEFINE f == [j \in Job |-> Requeued(jobs, j, loaded[w][j], TRUE)]
  <2>1. f \in [Job -> Row]
    BY <1>1, RequeuedIsRow
  <2>2. draft' = [draft EXCEPT ![w] = [j \in Job |-> IF j \in Missing(w, U) THEN Retired(loaded[w][j])
                                                     ELSE IF j \in U THEN f[j] ELSE Absent]]
    BY <1>5 DEF Throttle, Changed
  <2>3. draft' \in [Session -> [Job -> Row]]
    <3> HIDE DEF f, U
    <3> QED
      BY <1>1, <2>1, <2>2, ChangedType
  <2> QED
    BY <1>5, <2>3 DEF Throttle, TypeOK
<1>6. CASE Respond(w)
  <2>1. draft' \in [Session -> [Job -> Row]]
    <3>1. PICK throttled \in BOOLEAN, f \in [Job -> {"succeeded", "failed_retryable", "failed_permanent"}] :
             draft' = [draft EXCEPT ![w] = [j \in Job |->
                 IF j \in Unit(w) \ Missing(w, Unit(w))
                 THEN Finalized(j, draft[w][j], f[j], throttled) ELSE draft[w][j]]]
      BY <1>6, RespondEffect
    <3> QED
      BY <3>1, SettleType
  <2>2. remote' \in [Key -> Payload \cup {NoPayload}]
    <3>1. remote' \in {remote, Applied(w)}
      BY <1>6, RespondEffect
    <3>2. remote \in [Key -> Payload \cup {NoPayload}]
      BY DEF TypeOK
    <3> QED
      BY <3>1, <3>2, AppliedType
  <2>3. pc' \in [Worker -> {"idle", "ready", "sending", "settling", "throttled", "releasing"}]
    BY <1>6, RespondEffect DEF TypeOK
  <2> QED
    BY <1>6, <2>1, <2>2, <2>3, RespondEffect DEF TypeOK
<1>7. CASE Commit(w)
  <2> DEFINE done == Unit(w) \ Missing(w, Unit(w))
  <2>1. jobs' \in [Job -> Row]
    BY <1>1, <1>7, FlushIsTable DEF Commit, TypeOK
  <2>2. sync' \in [WatchKey -> SyncStatus]
    <3>1. CASE sync' = sync
      BY <3>1 DEF TypeOK
    <3>2. CASE sync' = SyncAfter(draft[w], done) /\ pc[w] \in {"settling", "throttled"}
      <4>1. done \subseteq Job /\ draft[w] \in [Job -> Row]
        BY <1>1 DEF Unit, TypeOK
      <4>2. \A j \in done : draft[w][j].status \in Outcome
        BY <3>2 DEF OutcomesRecorded
      <4> QED
        BY <3>2, <4>1, <4>2, SyncAfterType
    <3> QED
      BY <1>7, <3>1, <3>2 DEF Commit
  <2>3. \E S : Drop(w, S)
    BY <1>7 DEF Commit
  <2> QED
    BY <1>7, <2>1, <2>2, <2>3, DropType DEF Commit, TypeOK
<1>8. CASE Release(w)
  <2>1. \A j \in Job : Requeued(jobs, j, loaded[w][j], FALSE) \in Row
    BY <1>1, RequeuedIsRow
  <2>2. draft' \in [Session -> [Job -> Row]]
    BY <1>1, <1>8, <2>1, AbsentIsRow DEF Release, TypeOK
  <2>3. disruptions' \in 0 .. MaxDisruptions
    BY <1>8, BoundAssumption DEF Release, TypeOK
  <2> QED
    BY <1>8, <2>2, <2>3 DEF Release, TypeOK
<1>9. CASE Crash(w)
  <2>1. remote' \in [Key -> Payload \cup {NoPayload}]
    BY <1>9, AppliedType DEF Crash, TypeOK
  <2>2. disruptions' \in 0 .. MaxDisruptions
    BY <1>9, BoundAssumption DEF Crash, TypeOK
  <2>3. Drop(w, Held(w))
    BY <1>9 DEF Crash
  <2> QED
    BY <1>9, <2>1, <2>2, <2>3, DropType DEF Crash, TypeOK
<1> QED
  BY <1>2, <1>3, <1>4, <1>5, <1>6, <1>7, <1>8, <1>9 DEF WorkerStep

-----------------------------------------------------------------------------
(* What a step leaves alone. *)

LEMMA WorkerFrame ==
  ASSUME TypeOK, NEW w \in Worker, WorkerStep(w)
  PROVE  /\ UNCHANGED <<tx, live>>
         /\ \A v \in Worker \ {w} : /\ loaded'[v] = loaded[v] /\ draft'[v] = draft[v]
                                    /\ pc'[v] = pc[v] /\ sends'[v] = sends[v]
<1> USE DEF TypeOK, Session
<1>1. CASE Claim(w)
  BY <1>1 DEF Claim, RecoverAndTake
<1>2. CASE Retire(w)
  BY <1>2 DEF Retire
<1>3. CASE Begin(w)
  BY <1>3 DEF Begin, Changed
<1>4. CASE Throttle(w)
  BY <1>4 DEF Throttle, Changed
<1>5. CASE Respond(w)
  BY <1>5, RespondEffect
<1>6. CASE Commit(w)
  BY <1>6 DEF Commit, Drop
<1>7. CASE Release(w)
  BY <1>7 DEF Release
<1>8. CASE Crash(w)
  BY <1>8 DEF Crash, Drop
<1> QED
  BY <1>1, <1>2, <1>3, <1>4, <1>5, <1>6, <1>7, <1>8 DEF WorkerStep

\* A worker is sending, settling or throttled only by the action of that name.
LEMMA WorkerPhase ==
  ASSUME TypeOK, NEW w \in Worker, WorkerStep(w)
  PROVE  /\ pc'[w] = "sending" => Begin(w)
         /\ pc'[w] = "settling" => Respond(w)
         /\ pc'[w] = "throttled" => Throttle(w)
<1>1. CASE Claim(w)
  BY <1>1 DEF Claim, RecoverAndTake, TypeOK
<1>2. CASE Retire(w)
  BY <1>2 DEF Retire, TypeOK
<1>3. CASE Begin(w)
  BY <1>3 DEF Begin, TypeOK
<1>4. CASE Throttle(w)
  BY <1>4 DEF Throttle, TypeOK
<1>5. CASE Respond(w)
  BY <1>5, RespondEffect DEF TypeOK
<1>6. CASE Commit(w) \/ Crash(w)
  BY <1>6 DEF Commit, Crash, Drop, TypeOK
<1>7. CASE Release(w)
  BY <1>7 DEF Release, TypeOK
<1> QED
  BY <1>1, <1>2, <1>3, <1>4, <1>5, <1>6, <1>7 DEF WorkerStep

LEMMA ClientFrame ==
  ASSUME TypeOK, NEW c \in Client, ClientStep(c)
  PROVE  /\ UNCHANGED <<pc, sends, remote>>
         /\ \A w \in Worker : loaded'[w] = loaded[w] /\ draft'[w] = draft[w]
<1>1. \A w \in Worker : w # c
  BY SessionAssumption
<1>2. CASE \E k \in Key, p \in Payload : EnqueueRead(c, k, p)
  BY <1>1, <1>2 DEF EnqueueRead, Load, TypeOK, Session
<1>3. CASE \E k \in Key : DeleteRead(c, k)
  BY <1>1, <1>3 DEF DeleteRead, TypeOK, Session
<1>4. CASE EnqueueCommit(c) \/ DeleteCommit(c)
  BY <1>1, <1>4 DEF EnqueueCommit, DeleteCommit, EndTx, TypeOK, Session
<1> QED
  BY <1>2, <1>3, <1>4 DEF ClientStep

\* Watches are only ever removed, each by the deletion that locked it.
LEMMA ClientLocks ==
  ASSUME TypeOK, NEW c \in Client, ClientStep(c)
  PROVE  /\ live' \subseteq live
         /\ \A k \in live \ live' : tx[c].op = "delete" /\ tx[c].key = k
         /\ \A d \in Client : tx'[d].op = "delete" =>
               \/ tx'[d] = tx[d]
               \/ \A w \in Worker : ~Sharing(w, tx'[d].key)
<1>1. ASSUME NEW k \in Key, NEW p \in Payload, EnqueueRead(c, k, p)
      PROVE  live' = live /\ \A d \in Client : tx'[d].op = "delete" => tx'[d] = tx[d]
  BY <1>1 DEF EnqueueRead, TypeOK
<1>2. ASSUME NEW k \in Key, DeleteRead(c, k)
      PROVE  /\ live' = live
             /\ \A d \in Client : tx'[d] = tx[d] \/ (tx'[d].key = k /\ \A w \in Worker : ~Sharing(w, k))
  BY <1>2 DEF DeleteRead, TypeOK, NoTx
<1>3. ASSUME EnqueueCommit(c)
      PROVE  live' = live /\ \A d \in Client : tx'[d].op = "delete" => tx'[d] = tx[d]
  BY <1>3 DEF EnqueueCommit, EndTx, NoTx, TypeOK
<1>4. ASSUME DeleteCommit(c)
      PROVE  /\ live' = live \ {tx[c].key} /\ tx[c].op = "delete"
             /\ \A d \in Client : tx'[d].op = "delete" => tx'[d] = tx[d]
  BY <1>4 DEF DeleteCommit, EndTx, NoTx, TypeOK
<1> QED
  BY <1>1, <1>2, <1>3, <1>4 DEF ClientStep

-----------------------------------------------------------------------------
(* The unit a worker starts, and the unit it has an answer for. *)

LEMMA BeginUnit ==
  ASSUME TypeOK, NEW w \in Worker, Begin(w)
  PROVE  /\ Unit(w)' \subseteq NextUnit(w)
         /\ \A j \in sends'[w] : /\ draft'[w][j] # Absent
                                 /\ loaded[w][j].target \in WatchKey => loaded[w][j].target \in live
<1> DEFINE U == NextUnit(w)
           f == [j \in Job |-> [loaded[w][j] EXCEPT !.attempts = @ + 1]]
<1>1. w \in Session /\ U \subseteq Job /\ \A j \in Job : loaded[w][j] \in Row
  BY NextUnitHeld DEF Session, TypeOK
<1>2. ASSUME NEW row \in Row
      PROVE  [row EXCEPT !.attempts = @ + 1] \in Row /\ [row EXCEPT !.attempts = @ + 1] # Absent
  BY DEF Row, Absent
<1>3. f \in [Job -> Row] /\ \A j \in Job : f[j] # Absent
  BY <1>1, <1>2
<1>4. draft' = [draft EXCEPT ![w] = [j \in Job |-> IF j \in Missing(w, U) THEN Retired(loaded[w][j])
                                                   ELSE IF j \in U THEN f[j] ELSE Absent]]
  BY DEF Begin, Changed
<1>5. sends'[w] \subseteq U \ Missing(w, U)
  BY DEF Begin, TypeOK
<1> HIDE DEF f, U
<1>6. Unit(w)' \subseteq U /\ \A j \in U \ Missing(w, U) : draft'[w][j] = f[j]
  BY <1>1, <1>3, <1>4, ChangedType
<1>7. \A j \in U \ Missing(w, U) : loaded[w][j].target \in WatchKey => loaded[w][j].target \in live
  BY DEF Missing
<1> QED
  BY <1>1, <1>3, <1>5, <1>6, <1>7 DEF U

LEMMA ThrottleUnit ==
  ASSUME TypeOK, NEW w \in Worker, Throttle(w)
  PROVE  /\ Unit(w)' \subseteq NextUnit(w)
         /\ \A j \in NextUnit(w) \ Missing(w, NextUnit(w)) : draft'[w][j].status \in Outcome
<1> DEFINE U == NextUnit(w)
           f == [j \in Job |-> Requeued(jobs, j, loaded[w][j], TRUE)]
<1>1. w \in Session /\ U \subseteq Job /\ \A j \in Job : loaded[w][j] \in Row
  BY NextUnitHeld DEF Session, TypeOK
<1>2. f \in [Job -> Row] /\ \A j \in Job : f[j].status \in Outcome
  BY <1>1, RequeuedIsRow DEF Outcome, Terminal
<1>3. draft' = [draft EXCEPT ![w] = [j \in Job |-> IF j \in Missing(w, U) THEN Retired(loaded[w][j])
                                                   ELSE IF j \in U THEN f[j] ELSE Absent]]
  BY DEF Throttle, Changed
<1> HIDE DEF f, U
<1>4. Unit(w)' \subseteq U /\ \A j \in U \ Missing(w, U) : draft'[w][j] = f[j]
  BY <1>1, <1>2, <1>3, ChangedType
<1> QED
  BY <1>1, <1>2, <1>4 DEF U

LEMMA RespondUnit ==
  ASSUME TypeOK, NEW w \in Worker, Respond(w)
  PROVE  /\ Unit(w)' \subseteq Unit(w)
         /\ \A j \in Unit(w) \ Missing(w, Unit(w)) : draft'[w][j].status \in Outcome
<1>1. PICK throttled \in BOOLEAN, f \in [Job -> {"succeeded", "failed_retryable", "failed_permanent"}] :
             draft' = [draft EXCEPT ![w] = [j \in Job |->
                 IF j \in Unit(w) \ Missing(w, Unit(w))
                 THEN Finalized(j, draft[w][j], f[j], throttled) ELSE draft[w][j]]]
  BY RespondEffect
<1> QED
  BY <1>1, SettleType

-----------------------------------------------------------------------------
(* The invariant. *)

LEMMA WorkerStepInv ==
  ASSUME IInv, NEW w \in Worker, WorkerStep(w)
  PROVE  IInv'
<1> USE DEF IInv
<1>1. TypeOK'
  BY WorkerType
<1>2. SendsLiveWatches'
  <2> SUFFICES ASSUME NEW v \in Worker, pc'[v] = "sending", NEW j \in sends'[v]
               PROVE  /\ draft'[v][j] # Absent
                      /\ loaded'[v][j].target \in WatchKey => loaded'[v][j].target \in live'
    BY DEF SendsLiveWatches
  <2>1. CASE v # w
    BY <2>1, WorkerFrame DEF SendsLiveWatches
  <2>2. CASE v = w
    <3>1. Begin(w)
      BY <2>2, WorkerPhase
    <3>2. loaded' = loaded /\ live' = live
      BY <3>1 DEF Begin
    <3> QED
      BY <2>2, <3>1, <3>2, BeginUnit
  <2> QED
    BY <2>1, <2>2
<1>3. LocksExclude'
  <2> SUFFICES ASSUME NEW v \in Worker, NEW c \in Client, tx'[c].op = "delete",
                      Sharing(v, tx[c].key)'
               PROVE  FALSE
    BY WorkerFrame DEF LocksExclude
  <2>1. tx' = tx /\ ~Sharing(v, tx[c].key)
    BY WorkerFrame DEF LocksExclude
  <2>2. CASE v # w
    BY <2>1, <2>2, WorkerFrame DEF Sharing, Unit
  <2>3. CASE v = w
    <3>1. PICK j \in Unit(w)' : loaded'[w][j].target = tx[c].key
      BY <2>1, <2>3 DEF Sharing
    <3>2. pc'[w] \in {"sending", "settling", "throttled"}
      BY <2>3 DEF Sharing
    <3>3. CASE Begin(w) \/ Throttle(w)
      <4>1. loaded' = loaded /\ j \in NextUnit(w) /\ ~Deleting(loaded[w][j].target)
        BY <3>1, <3>3, BeginUnit, ThrottleUnit DEF Begin, Throttle, CanStart
      <4> QED
        BY <2>1, <3>1, <4>1 DEF Deleting
    <3>4. CASE Respond(w)
      <4>1. loaded' = loaded /\ j \in Unit(w) /\ pc[w] = "sending"
        BY <3>1, <3>4, RespondUnit, RespondEffect
      <4> QED
        BY <2>1, <2>3, <3>1, <4>1 DEF Sharing
    <3> QED
      BY <3>2, <3>3, <3>4, WorkerPhase
  <2> QED
    BY <2>2, <2>3
<1>4. OutcomesRecorded'
  <2> SUFFICES ASSUME NEW v \in Worker, pc'[v] \in {"settling", "throttled"},
                      NEW j \in Unit(v)', j \notin Missing(v, Unit(v))'
               PROVE  draft'[v][j].status \in Outcome
    BY DEF OutcomesRecorded
  <2>1. CASE v # w
    <3>1. /\ loaded'[v] = loaded[v] /\ draft'[v] = draft[v] /\ pc'[v] = pc[v] /\ live' = live
      BY <2>1, WorkerFrame
    <3>2. j \in Unit(v) \ Missing(v, Unit(v))
      BY <3>1 DEF Unit, Missing
    <3> QED
      BY <3>1, <3>2 DEF OutcomesRecorded
  <2>2. CASE v = w /\ Throttle(w)
    <3>1. loaded' = loaded /\ live' = live
      BY <2>2 DEF Throttle
    <3>2. j \in NextUnit(w) \ Missing(w, NextUnit(w))
      BY <2>2, <3>1, ThrottleUnit DEF Missing
    <3> QED
      BY <2>2, <3>2, ThrottleUnit
  <2>3. CASE v = w /\ Respond(w)
    <3>1. loaded' = loaded /\ live' = live
      BY <2>3, RespondEffect
    <3>2. j \in Unit(w) \ Missing(w, Unit(w))
      BY <2>3, <3>1, RespondUnit DEF Missing
    <3> QED
      BY <2>3, <3>2, RespondUnit
  <2> QED
    BY <2>1, <2>2, <2>3, WorkerPhase
<1> QED
  BY <1>1, <1>2, <1>3, <1>4

LEMMA ClientStepInv ==
  ASSUME IInv, NEW c \in Client, ClientStep(c)
  PROVE  IInv'
<1> USE DEF IInv
<1>1. TypeOK'
  BY ClientType
<1>2. SendsLiveWatches'
  <2> SUFFICES ASSUME NEW w \in Worker, pc[w] = "sending", NEW j \in sends[w],
                      loaded[w][j].target \in WatchKey
               PROVE  loaded[w][j].target \in live'
    BY ClientFrame DEF SendsLiveWatches
  <2>1. Sharing(w, loaded[w][j].target)
    BY DEF Sharing, SendsLiveWatches, Unit, TypeOK
  <2> QED
    BY <2>1, ClientLocks DEF SendsLiveWatches, LocksExclude
<1>3. LocksExclude'
  <2> SUFFICES ASSUME NEW w \in Worker, NEW d \in Client, tx'[d].op = "delete",
                      Sharing(w, tx[d].key)'
               PROVE  FALSE
    BY DEF LocksExclude
  <2>1. Sharing(w, tx'[d].key)
    BY ClientFrame DEF Sharing, Unit
  <2> QED
    BY <2>1, ClientLocks DEF LocksExclude
<1>4. OutcomesRecorded'
  <2> SUFFICES ASSUME NEW w \in Worker, pc[w] \in {"settling", "throttled"},
                      NEW j \in Unit(w)', j \notin Missing(w, Unit(w))'
               PROVE  draft[w][j].status \in Outcome
    BY ClientFrame DEF OutcomesRecorded
  <2>1. j \in Unit(w) \ Missing(w, Unit(w))
    BY ClientFrame, ClientLocks DEF Unit, Missing
  <2> QED
    BY <2>1 DEF OutcomesRecorded
<1> QED
  BY <1>1, <1>2, <1>3, <1>4

LEMMA OtherStepInv ==
  ASSUME IInv, Environment \/ UNCHANGED vars
  PROVE  IInv'
<1> USE DEF IInv
<1>1. UNCHANGED <<live, loaded, draft, pc, sends, tx>>
  BY DEF Environment, ImportStart, ImportEnd, Age, Elapse, vars
<1>2. TypeOK'
  <2>1. CASE Environment
    BY <2>1, EnvironmentType
  <2>2. CASE UNCHANGED vars
    BY <2>2 DEF vars, TypeOK
  <2> QED
    BY <2>1, <2>2
<1> QED
  BY <1>1, <1>2 DEF SendsLiveWatches, LocksExclude, OutcomesRecorded, Sharing, Unit, Missing

LEMMA InitInv == Init => IInv
  BY InitTypeOK DEF Init, IInv, SendsLiveWatches, LocksExclude, OutcomesRecorded, NoTx

LEMMA InvStep == IInv /\ [Next]_vars => IInv'
  BY WorkerStepInv, ClientStepInv, OtherStepInv DEF Next

LEMMA Invariance == Spec => []IInv
  BY InitInv, InvStep, PTL DEF Spec

-----------------------------------------------------------------------------
(* Theorems. *)

\* Every variable keeps its type: in particular a job only ever has a status the
\* queries of the outbox know, and a WatchSync row one its readers know.
THEOREM TypeCorrect == Spec => []TypeOK
  BY Invariance, PTL DEF IInv

\* No provider write for a deleted watch, whatever the interleaving of workers and
\* deletions: with crashes, slow workers and clients that overlap worker commits.
THEOREM DeletedStaysDeleted == Spec => NoPushAfterDelete
<1>1. ASSUME IInv, [Next]_vars, NEW k \in WatchKey \ live
      PROVE  remote'[k] = remote[k]
  <2>1. CASE UNCHANGED remote
    BY <2>1
  <2>2. ASSUME NEW w \in Worker, pc[w] = "sending", remote' \in {remote, Applied(w)}
        PROVE  remote'[k] = remote[k]
    <3>1. \A j \in sends[w] : loaded[w][j].target # k
      BY <1>1, <2>2 DEF IInv, SendsLiveWatches
    <3> QED
      BY <1>1, <2>2, <3>1, KeyAssumption DEF Applied
  <2>3. ASSUME NEW w \in Worker, WorkerStep(w)
        PROVE  UNCHANGED remote \/ (pc[w] = "sending" /\ remote' \in {remote, Applied(w)})
    <3>1. CASE Respond(w)
      <4>1. TypeOK
        BY <1>1 DEF IInv
      <4> QED
        BY <3>1, <4>1, RespondEffect
    <3>2. CASE Crash(w)
      BY <3>2 DEF Crash
    <3> QED
      BY <2>3, <3>1, <3>2 DEF WorkerStep, Claim, RecoverAndTake, Retire, Begin, Throttle, Commit, Release
  <2>4. CASE \E c \in Client : ClientStep(c)
    BY <1>1, <2>1, <2>4, ClientFrame DEF IInv
  <2>5. CASE Environment \/ UNCHANGED vars
    BY <2>1, <2>5 DEF Environment, ImportStart, ImportEnd, Age, Elapse, vars
  <2> QED
    BY <1>1, <2>1, <2>2, <2>3, <2>4, <2>5 DEF Next
<1>2. IInv /\ [Next]_vars => [\A k \in WatchKey \ live : remote'[k] = remote[k]]_vars
  BY <1>1
<1> QED
  BY <1>2, Invariance, PTL DEF Spec, NoPushAfterDelete

-----------------------------------------------------------------------------
(* Ratings: the lock on the state entry keeps what a delivery checked true. *)

\* A rating on its way to the provider is the one its state entry holds.
RatingsChecked ==
    \A w \in Worker : pc[w] = "sending" =>
        \A j \in sends[w] : /\ j \in Unit(w)
                            /\ loaded[w][j].target \in EntryKey =>
                                  loaded[w][j].payload = wanted[loaded[w][j].target]

\* A delivery and a change never lock the same entry.
EntryLocksExclude ==
    \A c \in Client : tx[c].op = "put" => ~EntryLockedByWorker(tx[c].key)

RInv == IInv /\ RatingsChecked /\ EntryLocksExclude

LEMMA BeginRatings ==
  ASSUME TypeOK, NEW w \in Worker, Begin(w)
  PROVE  /\ UNCHANGED <<wanted, loaded, tx>>
         /\ \A j \in sends'[w] : loaded[w][j].target \in EntryKey =>
                                    loaded[w][j].payload = wanted[loaded[w][j].target]
         /\ \A j \in NextUnit(w) : ~EntryLockedByClient(loaded[w][j].target)
  BY DEF Begin, TypeOK

LEMMA WorkerRatings ==
  ASSUME RInv, NEW w \in Worker, WorkerStep(w)
  PROVE  RatingsChecked' /\ EntryLocksExclude'
<1> USE DEF RInv, IInv
<1>1. wanted' = wanted /\ tx' = tx
  BY RespondEffect
  DEF WorkerStep, Claim, RecoverAndTake, Retire, Begin, Throttle, Commit, Release, Crash
<1>2. RatingsChecked'
  <2> SUFFICES ASSUME NEW v \in Worker, pc'[v] = "sending", NEW j \in sends'[v]
               PROVE  /\ j \in Unit(v)'
                      /\ loaded'[v][j].target \in EntryKey =>
                            loaded'[v][j].payload = wanted[loaded'[v][j].target]
    BY <1>1 DEF RatingsChecked
  <2>1. CASE v # w
    BY <2>1, WorkerFrame DEF RatingsChecked, Unit
  <2>2. CASE v = w
    <3>1. Begin(w)
      BY <2>2, WorkerPhase
    <3>2. j \in Job
      BY <2>2, <3>1, NextUnitHeld DEF Begin, TypeOK
    <3> QED
      BY <2>2, <3>1, <3>2, BeginUnit, BeginRatings DEF Unit
  <2> QED
    BY <2>1, <2>2
<1>3. EntryLocksExclude'
  <2> SUFFICES ASSUME NEW c \in Client, tx[c].op = "put", tx[c].key \in EntryKey,
                      NEW v \in Worker, pc'[v] \in {"sending", "settling"},
                      NEW j \in Unit(v)', loaded'[v][j].target = tx[c].key
               PROVE  FALSE
    BY <1>1 DEF EntryLocksExclude, EntryLockedByWorker
  <2>1. CASE v # w
    BY <2>1, WorkerFrame DEF EntryLocksExclude, EntryLockedByWorker, Unit
  <2>2. CASE v = w /\ Begin(w)
    BY <2>2, BeginUnit, BeginRatings DEF EntryLockedByClient
  <2>3. CASE v = w /\ Respond(w)
    BY <2>3, RespondUnit, RespondEffect DEF EntryLocksExclude, EntryLockedByWorker
  <2> QED
    BY <2>1, <2>2, <2>3, WorkerPhase
<1> QED
  BY <1>2, <1>3

LEMMA ClientRatings ==
  ASSUME RInv, NEW c \in Client, ClientStep(c)
  PROVE  RatingsChecked' /\ EntryLocksExclude'
<1> USE DEF RInv, IInv
<1>1. /\ \A k \in EntryKey : wanted'[k] # wanted[k] => tx[c].op = "put" /\ tx[c].key = k
      /\ \A d \in Client : tx'[d].op = "put" => tx'[d] = tx[d] \/ ~EntryLockedByWorker(tx'[d].key)
  <2>1. ASSUME NEW k \in Key, NEW p \in Payload, EnqueueRead(c, k, p)
        PROVE  /\ wanted' = wanted /\ ~EntryLockedByWorker(k)
               /\ \A d \in Client : tx'[d] = tx[d] \/ tx'[d].key = k
    BY <2>1 DEF EnqueueRead, TypeOK
  <2>2. ASSUME NEW k \in Key, DeleteRead(c, k)
        PROVE  wanted' = wanted /\ \A d \in Client : tx'[d].op = "put" => tx'[d] = tx[d]
    BY <2>2 DEF DeleteRead, NoTx, TypeOK
  <2>3. CASE EnqueueCommit(c)
    BY <2>3, KeyAssumption DEF EnqueueCommit, EndTx, NoTx, TypeOK
  <2>4. CASE DeleteCommit(c)
    BY <2>4 DEF DeleteCommit, EndTx, NoTx, TypeOK
  <2> QED
    BY <2>1, <2>2, <2>3, <2>4 DEF ClientStep
<1>2. RatingsChecked'
  <2> SUFFICES ASSUME NEW w \in Worker, pc[w] = "sending", NEW j \in sends[w],
                      loaded[w][j].target \in EntryKey
               PROVE  wanted'[loaded[w][j].target] = wanted[loaded[w][j].target]
    BY ClientFrame DEF RatingsChecked, Unit
  <2>1. EntryLockedByWorker(loaded[w][j].target)
    BY DEF RatingsChecked, EntryLockedByWorker
  <2> QED
    BY <1>1, <2>1 DEF EntryLocksExclude
<1>3. \A k : EntryLockedByWorker(k)' => EntryLockedByWorker(k)
  BY ClientFrame DEF EntryLockedByWorker, Unit
<1> QED
  BY <1>1, <1>2, <1>3 DEF EntryLocksExclude

LEMMA RInvStep == RInv /\ [Next]_vars => RInv'
<1> SUFFICES ASSUME RInv, [Next]_vars PROVE RatingsChecked' /\ EntryLocksExclude'
  BY InvStep DEF RInv
<1>1. CASE Environment \/ UNCHANGED vars
  <2>1. UNCHANGED <<wanted, loaded, draft, pc, sends, tx>>
    BY <1>1 DEF Environment, ImportStart, ImportEnd, Age, Elapse, vars
  <2> QED
    BY <2>1 DEF RInv, RatingsChecked, EntryLocksExclude, EntryLockedByWorker, Unit
<1> QED
  BY <1>1, WorkerRatings, ClientRatings DEF Next

LEMMA RatingInvariance == Spec => []RInv
<1>1. Init => RInv
  BY InitInv DEF RInv, Init, RatingsChecked, EntryLocksExclude, NoTx
<1> QED
  BY <1>1, RInvStep, PTL DEF Spec

\* A rating that reaches a provider is the one the user's state entry holds at that
\* moment: two deliveries of one entry and a change of it never leave an older rating
\* behind, even when jobs without a dedupe key are delivered concurrently.
THEOREM RatingsAreCurrent == Spec => RatingNeverStale
<1>1. ASSUME RInv, [Next]_vars, NEW k \in EntryKey, remote'[k] # remote[k]
      PROVE  remote'[k] = wanted'[k]
  <2>1. PICK w \in Worker : Respond(w) \/ Crash(w)
    <3>1. ~(Environment \/ UNCHANGED vars)
      BY <1>1 DEF Environment, ImportStart, ImportEnd, Age, Elapse, vars
    <3>2. \A c \in Client : ~ClientStep(c)
      BY <1>1, ClientFrame DEF RInv, IInv
    <3>3. PICK w \in Worker : WorkerStep(w)
      BY <1>1, <3>1, <3>2 DEF Next
    <3> QED
      BY <1>1, <3>3
      DEF WorkerStep, Claim, RecoverAndTake, Retire, Begin, Throttle, Commit, Release
  <2>2. pc[w] = "sending" /\ remote' = Applied(w) /\ wanted' = wanted
    <3>1. CASE Respond(w)
      <4>1. TypeOK
        BY <1>1 DEF RInv, IInv
      <4> QED
        BY <1>1, <3>1, <4>1, RespondEffect
    <3>2. CASE Crash(w)
      BY <1>1, <3>2 DEF Crash
    <3> QED
      BY <2>1, <3>1, <3>2
  <2>3. k \in Key
    BY KeyAssumption
  <2>4. PICK j \in sends[w] : loaded[w][j].target = k /\ remote'[k] = loaded[w][j].payload
    BY <1>1, <2>2, <2>3 DEF Applied
  <2> QED
    BY <1>1, <2>2, <2>4 DEF RInv, RatingsChecked
<1>2. RInv /\ [Next]_vars => [\A k \in EntryKey : remote'[k] # remote[k] => remote'[k] = wanted'[k]]_vars
  BY <1>1
<1> QED
  BY <1>2, RatingInvariance, PTL DEF Spec, RatingNeverStale

-----------------------------------------------------------------------------
(* One holder per key: what keeps two workers from delivering for one      *)
(* target at once, as long as no worker outlives its claim and no worker   *)
(* commits while a client's transaction is open.                           *)

\* A claimed job is in progress under the key it was claimed with, by one worker, and is not
\* due for recovery.
HeldInProgress ==
    /\ \A w \in Worker : \A j \in Held(w) :
          /\ jobs[j].status = "in_progress" /\ loaded[w][j].status = "in_progress"
          /\ jobs[j].key = loaded[w][j].key
    /\ \A v, w \in Worker : \A j \in Held(v) \cap Held(w) : v = w
    /\ \A j \in Job : jobs[j].stale => jobs[j].status = "in_progress" /\ \A w \in Worker : j \notin Held(w)

\* The table has one job per key in progress, and one waiting.
OneInProgress(table) ==
    \A i, j \in Job : /\ table[i].status = "in_progress" /\ table[j].status = "in_progress"
                      /\ table[i].key = table[j].key /\ table[i].key # NoKey
                      => i = j

\* What a worker will write: nothing between two units, else jobs it holds, which change their
\* key only as they leave progress.
WorkerDrafts ==
    \A w \in Worker :
        /\ Unit(w) \subseteq Held(w)
        /\ pc[w] \in {"idle", "ready"} => Unit(w) = {}
        /\ \A j \in Unit(w) : draft[w][j].status # "in_progress" \/ draft[w][j].key = loaded[w][j].key

\* What a client will write: nothing outside a transaction, else new jobs under ids nobody
\* uses, and waiting jobs, that stay so or are superseded.
ClientDrafts ==
    \A c \in Client :
        /\ tx[c] = NoTx => \A j \in Job : draft[c][j] = Absent
        /\ \A j \in Job : draft[c][j] # Absent =>
              /\ draft[c][j].status \in {"pending", "superseded"} /\ ~draft[c][j].stale
              /\ jobs[j].status # "in_progress"
              /\ loaded[c][j] = Absent => jobs[j] = Absent /\ \A s \in Session \ {c} : draft[s][j] = Absent
              /\ loaded[c][j] # Absent =>
                    /\ loaded[c][j].status \in Waiting
                    /\ draft[c][j].status = "pending" => draft[c][j].key = loaded[c][j].key
              /\ tx[c].op = "delete" => loaded[c][j] # Absent /\ draft[c][j].status = "superseded"

HInv == IInv /\ HeldInProgress /\ OneInProgress(jobs) /\ UniqueWaiting(jobs) /\ WorkerDrafts /\ ClientDrafts

\* An UPDATE writes what the session changed and leaves a fresh row; an INSERT writes the copy.
LEMMA WrittenFields ==
  ASSUME NEW row, NEW old, NEW new
  PROVE  /\ old = Absent => Written(row, old, new) = new
         /\ old # Absent =>
              /\ ~Written(row, old, new).stale
              /\ Written(row, old, new).status = IF new.status = old.status THEN row.status ELSE new.status
              /\ Written(row, old, new).key = IF new.key = old.key THEN row.key ELSE new.key
  BY DEF Written

LEMMA SessionsApart ==
  \A w \in Worker, c \in Client : w # c /\ w \in Session /\ c \in Session
  BY SessionAssumption DEF Session

LEMMA RetiredFields ==
  ASSUME NEW row \in Row
  PROVE  /\ Retired(row).status = "superseded" /\ Retired(row).key = NoKey
         /\ Retired(row).stale = row.stale
  BY DEF Retired, Row

\* A worker gives up some of the jobs it holds, all at once, and writes nothing but those.
LEMMA GiveUp ==
  ASSUME HInv, NEW w \in Worker, NEW S \in SUBSET Held(w),
         \A j \in Job \ S : jobs'[j] = jobs[j],
         \A j \in S : ~jobs'[j].stale /\ (jobs'[j].status = "in_progress" => jobs'[j].key = jobs[j].key),
         \A j \in Job : loaded'[w][j] = IF j \in Held(w) \ S THEN loaded[w][j] ELSE Absent,
         \A v \in Worker \ {w} : loaded'[v] = loaded[v]
  PROVE  HeldInProgress' /\ OneInProgress(jobs')
<1> USE DEF HInv
<1>1. /\ Held(w)' = Held(w) \ S
      /\ \A v \in Worker \ {w} : Held(v)' = Held(v)
  BY DEF Held
<1>2. \A v \in Worker : \A j \in Held(v)' : /\ j \in Held(v) /\ loaded'[v][j] = loaded[v][j]
                                            /\ j \in Job /\ j \notin S
  <2>1. \A v \in Worker \ {w} : \A j \in Held(v) : j \notin S
    BY DEF HeldInProgress
  <2> QED
    BY <1>1, <2>1 DEF Held
<1>3. HeldInProgress'
  <2>1. \A v \in Worker : \A j \in Held(v)' :
            /\ jobs'[j].status = "in_progress" /\ loaded'[v][j].status = "in_progress"
            /\ jobs'[j].key = loaded'[v][j].key
    BY <1>2 DEF HeldInProgress
  <2>2. \A u, v \in Worker : \A j \in Held(u)' \cap Held(v)' : u = v
    BY <1>2 DEF HeldInProgress
  <2>3. \A j \in Job : jobs'[j].stale =>
            jobs'[j].status = "in_progress" /\ \A v \in Worker : j \notin Held(v)'
    BY <1>2 DEF HeldInProgress
  <2> QED
    BY <2>1, <2>2, <2>3 DEF HeldInProgress
<1>4. \A j \in Job : jobs'[j].status = "in_progress" =>
          jobs[j].status = "in_progress" /\ jobs'[j].key = jobs[j].key
  BY DEF HeldInProgress
<1> QED
  BY <1>3, <1>4 DEF OneInProgress

\* A step that writes no job and no client's copies keeps what clients will write, provided
\* workers only write what they hold.
LEMMA ClientDraftsStay ==
  ASSUME HInv, HeldInProgress', WorkerDrafts', jobs' = jobs, tx' = tx,
         \A c \in Client : loaded'[c] = loaded[c] /\ draft'[c] = draft[c]
  PROVE  ClientDrafts'
<1> USE DEF HInv
<1>1. ASSUME NEW j \in Job, jobs[j] = Absent, NEW w \in Worker
      PROVE  draft'[w][j] = Absent
  <2>1. draft'[w][j] # Absent => j \in Unit(w)'
    BY DEF Unit
  <2>2. Unit(w)' \subseteq Held(w)' /\ \A i \in Held(w)' : jobs'[i].status = "in_progress"
    BY DEF WorkerDrafts, HeldInProgress
  <2>3. jobs[j].status = "absent"
    BY <1>1 DEF Absent
  <2> QED
    BY <2>1, <2>2, <2>3
<1>2. \A s \in Session : s \in Client \/ s \in Worker
  BY DEF Session
<1> QED
  BY <1>1, <1>2 DEF ClientDrafts

\* Between transactions clients are about to write nothing.
LEMMA NothingDrafted ==
  ASSUME HInv, ~ClientOverlap, Undisturbed, tx' = tx,
         \A c \in Client : draft'[c] = draft[c]
  PROVE  ClientDrafts'
  BY DEF HInv, ClientDrafts, Undisturbed, NoTx

\* A worker prepares what it will write for jobs it holds.
LEMMA Prepare ==
  ASSUME HInv, NEW w \in Worker, WorkerStep(w), UNCHANGED <<jobs, loaded, tx>>,
         pc'[w] \notin {"idle", "ready"},
         \A j \in Job : draft'[w][j] # Absent =>
             /\ j \in Held(w)
             /\ draft'[w][j].status # "in_progress" \/ draft'[w][j].key = loaded[w][j].key
  PROVE  HeldInProgress' /\ OneInProgress(jobs') /\ UniqueWaiting(jobs') /\ WorkerDrafts'
<1> USE DEF HInv, IInv
<1>1. HeldInProgress' /\ OneInProgress(jobs') /\ UniqueWaiting(jobs')
  BY DEF HeldInProgress, Held
<1>2. WorkerDrafts'
  <2>1. ASSUME NEW v \in Worker \ {w}
        PROVE  Unit(v)' = Unit(v) /\ Held(v)' = Held(v) /\ pc'[v] = pc[v] /\ draft'[v] = draft[v]
    BY WorkerFrame DEF Unit, Held
  <2>2. Unit(w)' \subseteq Held(w)' /\ \A j \in Unit(w)' : j \in Job /\ draft'[w][j] # Absent
    BY DEF Unit, Held
  <2> QED
    BY <2>1, <2>2 DEF WorkerDrafts
<1> QED
  BY <1>1, <1>2

\* What each of the four preparing actions writes.
LEMMA Prepares ==
  ASSUME HInv, NEW w \in Worker, Begin(w) \/ Throttle(w) \/ Respond(w) \/ Release(w)
  PROVE  /\ UNCHANGED <<jobs, loaded, tx>> /\ pc'[w] \notin {"idle", "ready"}
         /\ \A j \in Job : draft'[w][j] # Absent =>
               /\ j \in Held(w)
               /\ draft'[w][j].status # "in_progress" \/ draft'[w][j].key = loaded[w][j].key
<1> USE DEF HInv, IInv
<1> DEFINE U == NextUnit(w)
<1>1. w \in Session /\ U \subseteq Held(w) /\ Held(w) \subseteq Job /\ \A j \in Job : loaded[w][j] \in Row
  BY NextUnitHeld DEF Session, TypeOK
<1>2. \A j \in Missing(w, U) : j \in U
  BY DEF Missing
<1>3. \A j \in Job : Retired(loaded[w][j]).status = "superseded"
  BY <1>1, RetiredFields
<1>4. CASE Begin(w)
  <2> DEFINE f == [j \in Job |-> [loaded[w][j] EXCEPT !.attempts = @ + 1]]
  <2>1. ASSUME NEW row \in Row
        PROVE  [row EXCEPT !.attempts = @ + 1].key = row.key
    BY DEF Row
  <2>2. \A j \in Job : f[j].key = loaded[w][j].key
    BY <1>1, <2>1
  <2>3. draft' = [draft EXCEPT ![w] = [j \in Job |-> IF j \in Missing(w, U) THEN Retired(loaded[w][j])
                                                     ELSE IF j \in U THEN f[j] ELSE Absent]]
    BY <1>4 DEF Begin, Changed
  <2>4. UNCHANGED <<jobs, loaded, tx>> /\ pc'[w] = "sending"
    BY <1>4 DEF Begin, TypeOK
  <2> HIDE DEF f, U
  <2>5. \A j \in Job : draft'[w][j] = IF j \in Missing(w, U) THEN Retired(loaded[w][j])
                                      ELSE IF j \in U THEN f[j] ELSE Absent
    BY <1>1, <2>3 DEF TypeOK
  <2> QED
    BY <1>1, <1>2, <1>3, <2>2, <2>4, <2>5
<1>5. CASE Throttle(w)
  <2> DEFINE f == [j \in Job |-> Requeued(jobs, j, loaded[w][j], TRUE)]
  <2>1. \A j \in Job : f[j].status # "in_progress"
    BY <1>1, RequeuedIsRow
  <2>2. draft' = [draft EXCEPT ![w] = [j \in Job |-> IF j \in Missing(w, U) THEN Retired(loaded[w][j])
                                                     ELSE IF j \in U THEN f[j] ELSE Absent]]
    BY <1>5 DEF Throttle, Changed
  <2>3. UNCHANGED <<jobs, loaded, tx>> /\ pc'[w] = "throttled"
    BY <1>5 DEF Throttle, TypeOK
  <2> HIDE DEF f, U
  <2>4. \A j \in Job : draft'[w][j] = IF j \in Missing(w, U) THEN Retired(loaded[w][j])
                                      ELSE IF j \in U THEN f[j] ELSE Absent
    BY <1>1, <2>2 DEF TypeOK
  <2> QED
    BY <1>1, <1>2, <1>3, <2>1, <2>3, <2>4
<1>6. CASE Respond(w)
  <2>1. PICK throttled \in BOOLEAN, f \in [Job -> {"succeeded", "failed_retryable", "failed_permanent"}] :
           draft' = [draft EXCEPT ![w] = [j \in Job |->
               IF j \in Unit(w) \ Missing(w, Unit(w))
               THEN Finalized(j, draft[w][j], f[j], throttled) ELSE draft[w][j]]]
    BY <1>6, RespondEffect
  <2>2. \A j \in Job : Finalized(j, draft[w][j], f[j], throttled).status # "in_progress"
    <3>1. \A j \in Job : Finalized(j, draft[w][j], f[j], throttled).status \in Outcome
      BY <1>1, FinalizedIsRow DEF TypeOK
    <3> QED
      BY <3>1 DEF Outcome, Terminal
  <2>3. UNCHANGED <<jobs, loaded, tx>> /\ pc'[w] = "settling"
    BY <1>6, RespondEffect DEF TypeOK
  <2>4. \A j \in Job : draft'[w][j] = IF j \in Unit(w) \ Missing(w, Unit(w))
                                      THEN Finalized(j, draft[w][j], f[j], throttled) ELSE draft[w][j]
    BY <1>1, <2>1 DEF TypeOK
  <2> QED
    BY <2>2, <2>3, <2>4 DEF WorkerDrafts, Unit
<1>7. CASE Release(w)
  <2>1. \A j \in Job : Requeued(jobs, j, loaded[w][j], FALSE).status # "in_progress"
    BY <1>1, RequeuedIsRow
  <2>2. \A j \in Job : draft'[w][j] = IF j \in Held(w) THEN Requeued(jobs, j, loaded[w][j], FALSE) ELSE Absent
    BY <1>1, <1>7 DEF Release, TypeOK
  <2>3. UNCHANGED <<jobs, loaded, tx>> /\ pc'[w] = "releasing"
    BY <1>7 DEF Release, TypeOK
  <2> QED
    BY <2>1, <2>2, <2>3
<1> QED
  BY <1>4, <1>5, <1>6, <1>7

\* A worker's session is closed, or it has finished a unit: it is about to write nothing.
LEMMA Finish ==
  ASSUME HInv, NEW w \in Worker, WorkerStep(w), \A j \in Job : draft'[w][j] = Absent
  PROVE  WorkerDrafts'
<1>1. ASSUME NEW v \in Worker \ {w}
      PROVE  Unit(v)' = Unit(v) /\ Held(v)' = Held(v) /\ pc'[v] = pc[v]
             /\ draft'[v] = draft[v] /\ loaded'[v] = loaded[v]
  BY WorkerFrame DEF Unit, Held, HInv, IInv
<1>2. Unit(w)' = {}
  BY DEF Unit
<1> QED
  BY <1>1, <1>2 DEF WorkerDrafts, HInv


\* Giving every job up, by a crash or a commit the index refuses, changes no row.
LEMMA DropAll ==
  ASSUME HInv, NEW w \in Worker, WorkerStep(w), Drop(w, Held(w)), UNCHANGED <<jobs, tx>>
  PROVE  /\ HeldInProgress' /\ OneInProgress(jobs') /\ UniqueWaiting(jobs')
         /\ WorkerDrafts' /\ ClientDrafts'
<1> USE DEF HInv, IInv
<1>1. w \in Session
  BY DEF Session
<1>2. /\ \A j \in Job : loaded'[w][j] = Absent /\ draft'[w][j] = Absent
      /\ \A s \in Session \ {w} : loaded'[s] = loaded[s] /\ draft'[s] = draft[s]
  BY <1>1 DEF Drop, TypeOK, NoCopies
<1>3. WorkerDrafts'
  BY <1>2, Finish
<1>4. HeldInProgress' /\ OneInProgress(jobs')
  <2>1. \A j \in Held(w) : ~jobs[j].stale
    BY DEF HeldInProgress, Held
  <2>2. \A v \in Worker \ {w} : loaded'[v] = loaded[v]
    BY <1>2 DEF Session
  <2> QED
    BY <1>2, <2>1, <2>2, GiveUp
<1>5. ClientDrafts'
  BY <1>2, <1>3, <1>4, SessionsApart, ClientDraftsStay
<1> QED
  BY <1>3, <1>4, <1>5

\* A commit writes the jobs of the unit, which leave progress or keep their key.
LEMMA CommitHolds ==
  ASSUME HInv, ~ClientOverlap, NEW w \in Worker, Commit(w)
  PROVE  /\ HeldInProgress' /\ OneInProgress(jobs') /\ UniqueWaiting(jobs')
         /\ WorkerDrafts' /\ ClientDrafts'
<1> USE DEF HInv, IInv
<1>1. CASE Drop(w, Held(w)) /\ UNCHANGED <<jobs, tx>>
  BY <1>1, DropAll DEF WorkerStep
<1>2. CASE jobs' = Flush(w) /\ UniqueWaiting(Flush(w)) /\ Drop(w, Unit(w)) /\ tx' = tx /\ Undisturbed
  <2>1. w \in Session
    BY DEF Session
  <2>2. /\ \A j \in Job : /\ draft'[w][j] = Absent
                          /\ loaded'[w][j] = IF j \in Held(w) \ Unit(w) THEN loaded[w][j] ELSE Absent
        /\ \A s \in Session \ {w} : loaded'[s] = loaded[s] /\ draft'[s] = draft[s]
    BY <1>2, <2>1 DEF Drop, TypeOK, NoCopies
  <2>3. Unit(w) \in SUBSET Held(w)
    BY DEF WorkerDrafts
  <2>4. \A j \in Job \ Unit(w) : jobs'[j] = jobs[j]
    BY <1>2 DEF Flush, Unit
  <2>5. \A j \in Unit(w) : ~jobs'[j].stale /\ (jobs'[j].status = "in_progress" => jobs'[j].key = jobs[j].key)
    <3> SUFFICES ASSUME NEW j \in Unit(w)
                 PROVE  ~jobs'[j].stale /\ (jobs'[j].status = "in_progress" => jobs'[j].key = jobs[j].key)
      OBVIOUS
    <3>1. j \in Job /\ draft[w][j] # Absent /\ loaded[w][j] # Absent
      BY <2>3 DEF Unit, Held
    <3>2. jobs'[j] = Written(jobs[j], loaded[w][j], draft[w][j])
      BY <1>2, <3>1 DEF Flush
    <3>3. loaded[w][j].status = "in_progress" /\ jobs[j].key = loaded[w][j].key
      BY <2>3 DEF HeldInProgress
    <3>4. draft[w][j].status # "in_progress" \/ draft[w][j].key = loaded[w][j].key
      BY DEF WorkerDrafts
    <3> QED
      BY <3>1, <3>2, <3>3, <3>4, WrittenFields
  <2>6. \A v \in Worker \ {w} : loaded'[v] = loaded[v]
    BY <2>2 DEF Session
  <2>7. HeldInProgress' /\ OneInProgress(jobs')
    BY <2>2, <2>3, <2>4, <2>5, <2>6, GiveUp
  <2>8. WorkerDrafts'
    BY <2>2, Finish DEF WorkerStep
  <2>9. ClientDrafts'
    BY <1>2, <2>2, SessionsApart, NothingDrafted
  <2> QED
    BY <1>2, <2>7, <2>8, <2>9
<1> QED
  BY <1>1, <1>2 DEF Commit

LEMMA RetireHolds ==
  ASSUME HInv, ~ClientOverlap, NEW w \in Worker, Retire(w)
  PROVE  /\ HeldInProgress' /\ OneInProgress(jobs') /\ UniqueWaiting(jobs')
         /\ WorkerDrafts' /\ ClientDrafts'
<1> USE DEF HInv, IInv
<1> DEFINE U == NextUnit(w)
<1>1. w \in Session /\ U \in SUBSET Held(w) /\ Held(w) \subseteq Job
  BY NextUnitHeld DEF Session
<1>2. /\ jobs' = [j \in Job |-> IF j \in U THEN Written(jobs[j], loaded[w][j], Retired(loaded[w][j])) ELSE jobs[j]]
      /\ loaded' = [loaded EXCEPT ![w] = [j \in Job |-> IF j \in Held(w) \ U THEN loaded[w][j] ELSE Absent]]
      /\ pc[w] = "ready" /\ Undisturbed /\ UNCHANGED <<draft, tx>>
  BY DEF Retire
<1> HIDE DEF U
<1>3. \A j \in Job \ U : jobs'[j] = jobs[j]
  BY <1>2
<1>4. \A j \in U : ~jobs'[j].stale /\ jobs'[j].status = "superseded"
  <2> SUFFICES ASSUME NEW j \in U
               PROVE  ~jobs'[j].stale /\ jobs'[j].status = "superseded"
    OBVIOUS
  <2>1. j \in Job /\ loaded[w][j] # Absent /\ loaded[w][j] \in Row /\ loaded[w][j].status = "in_progress"
    BY <1>1 DEF Held, HeldInProgress, TypeOK
  <2>2. jobs'[j] = Written(jobs[j], loaded[w][j], Retired(loaded[w][j]))
    BY <1>2, <2>1
  <2> QED
    BY <2>1, <2>2, WrittenFields, RetiredFields
<1>5. /\ \A j \in Job : loaded'[w][j] = IF j \in Held(w) \ U THEN loaded[w][j] ELSE Absent
      /\ \A v \in Worker \ {w} : loaded'[v] = loaded[v]
  BY <1>1, <1>2 DEF TypeOK, Session
<1>6. HeldInProgress' /\ OneInProgress(jobs')
  BY <1>1, <1>3, <1>4, <1>5, GiveUp
<1>7. UniqueWaiting(jobs')
  BY <1>3, <1>4 DEF UniqueWaiting, Waiting
<1>8. \A j \in Job : draft'[w][j] = Absent
  BY <1>2 DEF WorkerDrafts, Unit
<1>9. WorkerDrafts'
  BY <1>8, Finish DEF WorkerStep
<1>10. ClientDrafts'
  BY <1>2, NothingDrafted
<1> QED
  BY <1>6, <1>7, <1>9, <1>10


\* A recovered row waits under its key or is superseded.
LEMMA RecoveredFields ==
  ASSUME TypeOK, NEW S \in SUBSET Job
  PROVE  /\ \A j \in S : /\ Recovered(S)[j].status \in {"pending", "superseded"} /\ ~Recovered(S)[j].stale
                         /\ Recovered(S)[j].status = "pending" => Recovered(S)[j].key = jobs[j].key
         /\ \A j \in Job \ S : Recovered(S)[j] = jobs[j]
<1>1. ASSUME NEW row \in Row
      PROVE  /\ ~[row EXCEPT !.stale = FALSE].stale
             /\ [row EXCEPT !.stale = FALSE].status = row.status /\ [row EXCEPT !.stale = FALSE].key = row.key
  BY DEF Row
<1>2. ASSUME NEW j \in S
      PROVE  LET row == Requeued(jobs, j, jobs[j], FALSE)
             IN /\ row \in Row /\ row.status \in {"pending", "superseded"}
                /\ row.status = "pending" => row.key = jobs[j].key
  <2>1. jobs[j] \in Row
    BY DEF TypeOK
  <2>2. Requeued(jobs, j, jobs[j], FALSE).status = "pending" =>
            Requeued(jobs, j, jobs[j], FALSE).key = jobs[j].key
    BY <2>1 DEF Requeued, Retired, Row
  <2> QED
    BY <2>1, <2>2, RequeuedIsRow
<1>3. \A j \in S : Recovered(S)[j] = [Requeued(jobs, j, jobs[j], FALSE) EXCEPT !.stale = FALSE]
  BY DEF Recovered
<1> QED
  BY <1>1, <1>2, <1>3 DEF Recovered

\* Rows nobody holds are recovered and claimed, one job of a key at a time.
LEMMA ClaimHolds ==
  ASSUME HInv, ~ClientOverlap, NEW w \in Worker, Claim(w)
  PROVE  /\ HeldInProgress' /\ OneInProgress(jobs') /\ UniqueWaiting(jobs')
         /\ WorkerDrafts' /\ ClientDrafts'
<1> USE DEF HInv, IInv
<1> PICK S \in SUBSET Stale : RecoverAndTake(w, S)
  BY DEF Claim
<1> DEFINE table == Recovered(S)
           C == Due(table)
<1>1. w \in Session /\ S \in SUBSET Job /\ \A j \in S : jobs[j].stale
  BY DEF Session, Stale
<1>2. /\ \A j \in S : /\ table[j].status \in {"pending", "superseded"} /\ ~table[j].stale
                      /\ table[j].status = "pending" => table[j].key = jobs[j].key
      /\ \A j \in Job \ S : table[j] = jobs[j]
  BY <1>1, RecoveredFields
<1>3. C \in SUBSET Claimable(table) /\ C \subseteq Job
  BY DEF Due, Oldest, Claimable
<1>4. /\ UniqueWaiting(table) /\ jobs' = Taken(table, C)
      /\ loaded' = [loaded EXCEPT ![w] = [j \in Job |-> IF j \in C THEN Taken(table, C)[j] ELSE Absent]]
      /\ pc' = [pc EXCEPT ![w] = IF C = {} THEN "idle" ELSE "ready"]
      /\ UNCHANGED <<draft, tx>>
  BY DEF RecoverAndTake
<1>5. \A j \in Job : table[j] \in Row
  <2>1. \A j \in S : table[j] \in Row
    <3>1. ASSUME NEW row \in Row
          PROVE  [row EXCEPT !.stale = FALSE] \in Row
      BY DEF Row
    <3>2. \A j \in S : jobs[j] \in Row /\ table[j] = [Requeued(jobs, j, jobs[j], FALSE) EXCEPT !.stale = FALSE]
      BY <1>1 DEF Recovered, TypeOK
    <3> QED
      BY <3>1, <3>2, RequeuedIsRow
  <2> QED
    BY <1>2, <2>1 DEF TypeOK
<1> HIDE DEF table, C
<1>6. /\ \A j \in Job \ C : jobs'[j] = table[j]
      /\ \A j \in C : /\ jobs'[j].status = "in_progress" /\ jobs'[j].key = table[j].key
                      /\ jobs'[j].stale = table[j].stale
  <2>1. ASSUME NEW row \in Row
        PROVE  /\ [row EXCEPT !.status = "in_progress"].status = "in_progress"
               /\ [row EXCEPT !.status = "in_progress"].key = row.key
               /\ [row EXCEPT !.status = "in_progress"].stale = row.stale
    BY DEF Row
  <2>2. \A j \in C : jobs'[j] = [table[j] EXCEPT !.status = "in_progress"]
    BY <1>3, <1>4 DEF Taken
  <2> QED
    BY <1>3, <1>4, <1>5, <2>1, <2>2 DEF Taken
<1>7. /\ Held(w)' = C /\ \A j \in C : loaded'[w][j] = jobs'[j]
      /\ \A v \in Worker \ {w} : loaded'[v] = loaded[v] /\ Held(v)' = Held(v)
  <2>1. \A j \in Job : loaded'[w][j] = IF j \in C THEN jobs'[j] ELSE Absent
    BY <1>1, <1>4 DEF TypeOK
  <2>2. \A j \in C : jobs'[j] # Absent
    BY <1>6 DEF Absent
  <2>3. \A v \in Worker \ {w} : loaded'[v] = loaded[v]
    BY <1>4 DEF TypeOK, Session
  <2> QED
    BY <1>3, <2>1, <2>2, <2>3 DEF Held
<1>8. \A j \in C : /\ table[j].status \in Waiting /\ ~table[j].stale
                   /\ table[j].key # NoKey => \A i \in Job : table[i].key = table[j].key
                                                             => table[i].status # "in_progress"
  <2>1. \A j \in C : table[j].status \in Waiting
    BY <1>3 DEF Claimable
  <2>2. \A j \in C : ~table[j].stale
    BY <1>2, <1>3, <2>1 DEF HeldInProgress, Waiting
  <2> QED
    BY <1>3, <2>1, <2>2 DEF Claimable
<1>9. \A v \in Worker \ {w} : \A j \in Held(v) : j \in Job /\ j \notin C /\ jobs'[j] = jobs[j]
  <2> SUFFICES ASSUME NEW v \in Worker \ {w}, NEW j \in Held(v)
               PROVE  j \in Job /\ j \notin C /\ jobs'[j] = jobs[j]
    OBVIOUS
  <2>1. j \in Job /\ jobs[j].status = "in_progress" /\ j \notin S
    BY <1>1 DEF Held, HeldInProgress
  <2> QED
    BY <1>2, <1>6, <1>8, <2>1 DEF Waiting
<1>10. HeldInProgress'
  <2>1. \A v \in Worker : \A j \in Held(v)' :
            /\ jobs'[j].status = "in_progress" /\ loaded'[v][j].status = "in_progress"
            /\ jobs'[j].key = loaded'[v][j].key
    BY <1>6, <1>7, <1>9 DEF HeldInProgress
  <2>2. \A u, v \in Worker : \A j \in Held(u)' \cap Held(v)' : u = v
    BY <1>7, <1>9 DEF HeldInProgress
  <2>3. \A j \in Job : jobs'[j].stale =>
            jobs'[j].status = "in_progress" /\ \A v \in Worker : j \notin Held(v)'
    BY <1>2, <1>6, <1>7, <1>8 DEF HeldInProgress
  <2> QED
    BY <2>1, <2>2, <2>3 DEF HeldInProgress
<1>11. OneInProgress(jobs')
  <2> SUFFICES ASSUME NEW i \in Job, NEW j \in Job,
                      jobs'[i].status = "in_progress", jobs'[j].status = "in_progress",
                      jobs'[i].key = jobs'[j].key, jobs'[i].key # NoKey
               PROVE  i = j
    BY DEF OneInProgress
  <2>1. CASE i \in C /\ j \in C
    BY <1>4, <1>6, <1>8, <2>1 DEF UniqueWaiting
  <2>2. CASE i \notin C /\ j \notin C
    BY <1>2, <1>6, <2>2 DEF OneInProgress
  <2>3. CASE i \in C /\ j \notin C
    BY <1>6, <1>8, <2>3
  <2>4. CASE i \notin C /\ j \in C
    BY <1>6, <1>8, <2>4
  <2> QED
    BY <2>1, <2>2, <2>3, <2>4
<1>12. UniqueWaiting(jobs')
  BY <1>4, <1>6 DEF UniqueWaiting, Waiting
<1>13. WorkerDrafts'
  <2>1. \A j \in Job : draft'[w][j] = Absent
    BY <1>4 DEF Claim, WorkerDrafts, Unit
  <2> QED
    BY <2>1, Finish DEF WorkerStep
<1>14. ClientDrafts'
  BY <1>4, NothingDrafted DEF Claim
<1> QED
  BY <1>10, <1>11, <1>12, <1>13, <1>14


LEMMA WorkerHolds ==
  ASSUME HInv, ~ClientOverlap, NEW w \in Worker, WorkerStep(w)
  PROVE  /\ HeldInProgress' /\ OneInProgress(jobs') /\ UniqueWaiting(jobs')
         /\ WorkerDrafts' /\ ClientDrafts'
<1>1. CASE Begin(w) \/ Throttle(w) \/ Respond(w) \/ Release(w)
  <2>1. /\ HeldInProgress' /\ OneInProgress(jobs') /\ UniqueWaiting(jobs') /\ WorkerDrafts'
        /\ UNCHANGED <<jobs, loaded, tx>>
    BY <1>1, Prepares, Prepare
  <2>2. \A c \in Client : draft'[c] = draft[c]
    BY <1>1, RespondEffect, SessionsApart
    DEF Begin, Throttle, Changed, Respond, Succeed, Fail, Reject, TooMany, Unauthorized, Settle,
        Release, HInv, IInv, TypeOK
  <2> QED
    BY <2>1, <2>2, ClientDraftsStay
<1>2. CASE Crash(w)
  BY <1>2, DropAll DEF Crash
<1> QED
  BY <1>1, <1>2, ClaimHolds, RetireHolds, CommitHolds DEF WorkerStep

\* Clients leave the workers and what they hold alone.
LEMMA WorkerDraftsStay ==
  ASSUME HInv, NEW c \in Client, ClientStep(c)
  PROVE  /\ WorkerDrafts'
         /\ \A w \in Worker : Held(w)' = Held(w) /\ loaded'[w] = loaded[w] /\ draft'[w] = draft[w]
<1>1. \A w \in Worker : /\ Held(w)' = Held(w) /\ Unit(w)' = Unit(w) /\ pc'[w] = pc[w]
                        /\ loaded'[w] = loaded[w] /\ draft'[w] = draft[w]
  BY ClientFrame DEF Held, Unit, HInv, IInv
<1> QED
  BY <1>1 DEF WorkerDrafts, HInv

\* A client reads a waiting row to change it, or prepares a new one.
LEMMA LoadDrafts ==
  ASSUME HInv, NEW c \in Client, NEW j \in Job, NEW old, NEW new, Load(c, j, old, new),
         tx[c] = NoTx, tx'[c].op = "put", \A d \in Client \ {c} : tx'[d] = tx[d],
         jobs' = jobs, new.status = "pending", ~new.stale,
         \/ old = Absent /\ jobs[j] = Absent /\ \A s \in Session : draft[s][j] = Absent
         \/ jobs[j] # Absent /\ old = jobs[j] /\ old.status \in Waiting /\ new.key = old.key
  PROVE  ClientDrafts'
<1> USE DEF HInv, IInv
<1>1. c \in Session /\ tx'[c] # NoTx /\ tx'[c].op # "delete"
  BY DEF Session, NoTx
<1>2. /\ loaded'[c][j] = old /\ draft'[c][j] = new
      /\ \A i \in Job \ {j} : draft'[c][i] = Absent
      /\ \A s \in Session \ {c} : loaded'[s] = loaded[s] /\ draft'[s] = draft[s]
  BY <1>1 DEF Load, TypeOK, ClientDrafts
<1>3. jobs[j].status # "in_progress"
  BY DEF Absent, Waiting
<1>4. ASSUME NEW d \in Client \ {c}
      PROVE  d \in Session \ {c} /\ loaded'[d] = loaded[d] /\ draft'[d] = draft[d] /\ tx'[d] = tx[d]
  BY <1>2 DEF Session
<1>5. ASSUME NEW d \in Client \ {c}, NEW i \in Job, draft[d][i] # Absent, loaded[d][i] = Absent
      PROVE  draft'[c][i] = Absent
  BY <1>2, <1>4, <1>5 DEF ClientDrafts
<1>6. ASSUME NEW d \in Client \ {c}, NEW i \in Job, draft'[d][i] # Absent
      PROVE  /\ draft'[d][i].status \in {"pending", "superseded"} /\ ~draft'[d][i].stale
             /\ jobs'[i].status # "in_progress"
             /\ loaded'[d][i] = Absent => jobs'[i] = Absent /\ \A s \in Session \ {d} : draft'[s][i] = Absent
             /\ loaded'[d][i] # Absent =>
                    /\ loaded'[d][i].status \in Waiting
                    /\ draft'[d][i].status = "pending" => draft'[d][i].key = loaded'[d][i].key
             /\ tx'[d].op = "delete" => loaded'[d][i] # Absent /\ draft'[d][i].status = "superseded"
  <2>1. loaded'[d] = loaded[d] /\ draft'[d] = draft[d] /\ tx'[d] = tx[d] /\ jobs' = jobs
    BY <1>4
  <2>2. loaded[d][i] = Absent => jobs[i] = Absent /\ \A s \in Session \ {d} : draft'[s][i] = Absent
    BY <1>2, <1>5, <1>6, <2>1 DEF ClientDrafts
  <2> QED
    BY <1>6, <2>1, <2>2 DEF ClientDrafts
<1>7. ASSUME NEW i \in Job, draft'[c][i] # Absent
      PROVE  /\ draft'[c][i].status \in {"pending", "superseded"} /\ ~draft'[c][i].stale
             /\ jobs'[i].status # "in_progress"
             /\ loaded'[c][i] = Absent => jobs'[i] = Absent /\ \A s \in Session \ {c} : draft'[s][i] = Absent
             /\ loaded'[c][i] # Absent =>
                    /\ loaded'[c][i].status \in Waiting
                    /\ draft'[c][i].status = "pending" => draft'[c][i].key = loaded'[c][i].key
  <2>1. i = j
    BY <1>2, <1>7
  <2> QED
    BY <1>2, <1>3, <2>1
<1> QED
  BY <1>1, <1>4, <1>6, <1>7 DEF ClientDrafts


LEMMA EnqueueReadHolds ==
  ASSUME HInv, NEW c \in Client, NEW k \in Key, NEW p \in Payload, EnqueueRead(c, k, p)
  PROVE  ClientDrafts'
<1> USE DEF HInv, IInv
<1>1. /\ tx[c] = NoTx /\ tx'[c].op = "put" /\ \A d \in Client \ {c} : tx'[d] = tx[d]
      /\ jobs' = jobs
  BY DEF EnqueueRead, TypeOK
<1>2. \/ UNCHANGED <<loaded, draft>>
      \/ \E j \in Job : /\ jobs[j].status \in Active \ {"in_progress"}
                        /\ Load(c, j, jobs[j], Coalesced(jobs[j], p))
      \/ \E j \in FreshId, key \in {k, NoKey} : Load(c, j, Absent, NewRow(k, key, p))
  BY DEF EnqueueRead
<1>3. CASE UNCHANGED <<loaded, draft>>
  <2>1. \A j \in Job : draft[c][j] = Absent
    BY <1>1 DEF ClientDrafts
  <2> QED
    BY <1>1, <1>3, <2>1 DEF ClientDrafts
<1>4. ASSUME NEW j \in Job, jobs[j].status \in Active \ {"in_progress"},
             Load(c, j, jobs[j], Coalesced(jobs[j], p))
      PROVE  ClientDrafts'
  <2>1. jobs[j] \in Row /\ jobs[j].status \in Waiting /\ jobs[j] # Absent /\ ~jobs[j].stale
    BY <1>4 DEF Active, Waiting, Absent, HeldInProgress, TypeOK
  <2>2. ASSUME NEW row \in Row
        PROVE  /\ Coalesced(row, p).status = "pending" /\ Coalesced(row, p).key = row.key
               /\ Coalesced(row, p).stale = row.stale
    BY DEF Coalesced, Row
  <2> HIDE DEF HInv, IInv
  <2> QED
    BY <1>1, <1>4, <2>1, <2>2, LoadDrafts
<1>5. ASSUME NEW j \in FreshId, NEW key \in {k, NoKey}, Load(c, j, Absent, NewRow(k, key, p))
      PROVE  ClientDrafts'
  <2>1. j \in Job /\ jobs[j] = Absent /\ \A s \in Session : draft[s][j] = Absent
    BY <1>5 DEF FreshId, Job
  <2>2. NewRow(k, key, p).status = "pending" /\ ~NewRow(k, key, p).stale
    BY DEF NewRow, Absent
  <2> HIDE DEF HInv, IInv
  <2> QED
    BY <1>1, <1>5, <2>1, <2>2, LoadDrafts
<1> QED
  BY <1>2, <1>3, <1>4, <1>5

LEMMA DeleteReadHolds ==
  ASSUME HInv, NEW c \in Client, NEW k \in Key, DeleteRead(c, k)
  PROVE  ClientDrafts'
<1> USE DEF HInv, IInv
<1> DEFINE queued == {j \in Job : jobs[j].target = k /\ jobs[j].status \in Waiting}
<1>1. c \in Session /\ \A d \in Client \ {c} : d \in Session \ {c}
  BY DEF Session
<1>2. /\ loaded' = [loaded EXCEPT ![c] = [j \in Job |-> IF j \in queued THEN jobs[j] ELSE Absent]]
      /\ draft' = [draft EXCEPT ![c] = [j \in Job |-> IF j \in queued THEN Retired(jobs[j]) ELSE Absent]]
      /\ tx' = [tx EXCEPT ![c] = [NoTx EXCEPT !.op = "delete", !.key = k]] /\ jobs' = jobs
  BY DEF DeleteRead
<1>3. \A j \in queued : /\ jobs[j].status \in Waiting /\ jobs[j] # Absent /\ j \in Job
                        /\ Retired(jobs[j]).status = "superseded" /\ ~Retired(jobs[j]).stale
  <2>1. \A j \in queued : jobs[j] \in Row /\ jobs[j].status \in Waiting /\ ~jobs[j].stale
    BY DEF HeldInProgress, TypeOK, Waiting
  <2> QED
    BY <2>1, RetiredFields DEF Waiting, Absent
<1> HIDE DEF queued
<1>4. /\ tx'[c].op = "delete" /\ tx'[c] # NoTx
      /\ \A j \in Job : /\ loaded'[c][j] = IF j \in queued THEN jobs[j] ELSE Absent
                        /\ draft'[c][j] = IF j \in queued THEN Retired(jobs[j]) ELSE Absent
      /\ \A s \in Session \ {c} : loaded'[s] = loaded[s] /\ draft'[s] = draft[s]
      /\ \A d \in Client \ {c} : tx'[d] = tx[d]
  BY <1>1, <1>2 DEF TypeOK, NoTx
<1>5. ASSUME NEW i \in Job, draft'[c][i] # Absent
      PROVE  /\ draft'[c][i].status = "superseded" /\ ~draft'[c][i].stale /\ jobs'[i].status # "in_progress"
             /\ loaded'[c][i] # Absent /\ loaded'[c][i].status \in Waiting /\ jobs[i] # Absent
  <2>1. i \in queued
    BY <1>4, <1>5
  <2> QED
    BY <1>2, <1>3, <1>4, <2>1 DEF Waiting
<1>6. ASSUME NEW d \in Client \ {c}, NEW i \in Job, draft'[d][i] # Absent
      PROVE  /\ draft'[d][i].status \in {"pending", "superseded"} /\ ~draft'[d][i].stale
             /\ jobs'[i].status # "in_progress"
             /\ loaded'[d][i] = Absent => jobs'[i] = Absent /\ \A s \in Session \ {d} : draft'[s][i] = Absent
             /\ loaded'[d][i] # Absent =>
                    /\ loaded'[d][i].status \in Waiting
                    /\ draft'[d][i].status = "pending" => draft'[d][i].key = loaded'[d][i].key
             /\ tx'[d].op = "delete" => loaded'[d][i] # Absent /\ draft'[d][i].status = "superseded"
  <2>1. loaded'[d] = loaded[d] /\ draft'[d] = draft[d] /\ tx'[d] = tx[d] /\ jobs' = jobs
    BY <1>1, <1>2, <1>4
  <2>2. loaded[d][i] = Absent => jobs[i] = Absent /\ \A s \in Session \ {d} : draft'[s][i] = Absent
    <3>1. loaded[d][i] = Absent => jobs[i] = Absent /\ \A s \in Session \ {d} : draft[s][i] = Absent
      BY <1>6, <2>1 DEF ClientDrafts
    <3>2. jobs[i] = Absent => draft'[c][i] = Absent
      BY <1>5
    <3> QED
      BY <1>4, <3>1, <3>2
  <2> QED
    BY <1>6, <2>1, <2>2 DEF ClientDrafts
<1>7. \A d \in Client \ {c} : tx'[d] = NoTx => \A j \in Job : draft'[d][j] = Absent
  BY <1>1, <1>4 DEF ClientDrafts
<1> QED
  BY <1>4, <1>5, <1>6, <1>7 DEF ClientDrafts


\* The end of a client's transaction, whether it wrote its jobs or not.
LEMMA EndTxHolds ==
  ASSUME HInv, NEW c \in Client, ClientStep(c), EndTx(c), jobs' = Flush(c) \/ jobs' = jobs
  PROVE  /\ HeldInProgress' /\ OneInProgress(jobs') /\ ClientDrafts'
         /\ \A j \in Job : \/ jobs'[j] = jobs[j]
                           \/ tx[c].op = "delete" => jobs'[j].status = "superseded"
<1> USE DEF HInv, IInv
<1>1. /\ c \in Session /\ \A d \in Client \ {c} : d \in Session \ {c}
      /\ \A j \in Job : draft'[c][j] = Absent
      /\ \A s \in Session \ {c} : loaded'[s] = loaded[s] /\ draft'[s] = draft[s]
      /\ \A d \in Client \ {c} : tx'[d] = tx[d]
      /\ tx'[c] = NoTx
  BY DEF EndTx, TypeOK, NoCopies, Session
<1>2. ASSUME NEW j \in Job
      PROVE  \/ jobs'[j] = jobs[j]
             \/ /\ draft[c][j] # Absent /\ jobs[j].status # "in_progress"
                /\ jobs'[j].status # "in_progress" /\ ~jobs'[j].stale
                /\ tx[c].op = "delete" => jobs'[j].status = "superseded"
  <2>1. CASE jobs'[j] # jobs[j]
    <3>1. draft[c][j] # Absent /\ jobs'[j] = Written(jobs[j], loaded[c][j], draft[c][j])
      BY <2>1 DEF Flush
    <3>2. /\ draft[c][j].status \in {"pending", "superseded"} /\ ~draft[c][j].stale
          /\ jobs[j].status # "in_progress"
          /\ loaded[c][j] # Absent => loaded[c][j].status \in Waiting
          /\ tx[c].op = "delete" => loaded[c][j] # Absent /\ draft[c][j].status = "superseded"
      BY <3>1 DEF ClientDrafts
    <3>3. CASE loaded[c][j] = Absent
      <4>1. jobs'[j] = draft[c][j]
        BY <3>1, <3>3, WrittenFields
      <4> QED
        BY <3>1, <3>2, <3>3, <4>1
    <3>4. CASE loaded[c][j] # Absent
      <4>1. /\ ~jobs'[j].stale
            /\ jobs'[j].status = IF draft[c][j].status = loaded[c][j].status
                                 THEN jobs[j].status ELSE draft[c][j].status
        BY <3>1, <3>4, WrittenFields
      <4> QED
        BY <3>1, <3>2, <3>4, <4>1 DEF Waiting
    <3> QED
      BY <3>3, <3>4
  <2> QED
    BY <2>1
<1>3. HeldInProgress' /\ OneInProgress(jobs')
  <2>1. \A w \in Worker : Held(w)' = Held(w) /\ loaded'[w] = loaded[w]
    BY WorkerDraftsStay
  <2>2. \A w \in Worker : \A j \in Held(w) : j \in Job /\ jobs'[j] = jobs[j]
    BY <1>2 DEF Held, HeldInProgress
  <2>3. \A w \in Worker : \A j \in Held(w)' :
            /\ jobs'[j].status = "in_progress" /\ loaded'[w][j].status = "in_progress"
            /\ jobs'[j].key = loaded'[w][j].key
    BY <2>1, <2>2 DEF HeldInProgress
  <2>4. \A j \in Job : jobs'[j].stale =>
            jobs'[j].status = "in_progress" /\ \A w \in Worker : j \notin Held(w)'
    BY <1>2, <2>1 DEF HeldInProgress
  <2>5. HeldInProgress'
    BY <2>1, <2>3, <2>4 DEF HeldInProgress
  <2>6. \A j \in Job : jobs'[j].status = "in_progress" => jobs'[j] = jobs[j]
    BY <1>2
  <2> QED
    BY <2>5, <2>6 DEF OneInProgress
<1>4. ASSUME NEW d \in Client \ {c}, NEW i \in Job, draft'[d][i] # Absent
      PROVE  /\ draft'[d][i].status \in {"pending", "superseded"} /\ ~draft'[d][i].stale
             /\ jobs'[i].status # "in_progress"
             /\ loaded'[d][i] = Absent => jobs'[i] = Absent /\ \A s \in Session \ {d} : draft'[s][i] = Absent
             /\ loaded'[d][i] # Absent =>
                    /\ loaded'[d][i].status \in Waiting
                    /\ draft'[d][i].status = "pending" => draft'[d][i].key = loaded'[d][i].key
             /\ tx'[d].op = "delete" => loaded'[d][i] # Absent /\ draft'[d][i].status = "superseded"
  <2>1. loaded'[d] = loaded[d] /\ draft'[d] = draft[d] /\ tx'[d] = tx[d]
    BY <1>1
  <2>2. jobs'[i].status # "in_progress"
    BY <1>2, <1>4, <2>1 DEF ClientDrafts
  <2>3. loaded[d][i] = Absent => jobs'[i] = Absent /\ \A s \in Session \ {d} : draft'[s][i] = Absent
    <3>1. loaded[d][i] = Absent => jobs[i] = Absent /\ \A s \in Session \ {d} : draft[s][i] = Absent
      BY <1>4, <2>1 DEF ClientDrafts
    <3> QED
      BY <1>1, <1>2, <3>1
  <2> QED
    BY <1>4, <2>1, <2>2, <2>3 DEF ClientDrafts
<1>5. \A d \in Client \ {c} : tx'[d] = NoTx => \A j \in Job : draft'[d][j] = Absent
  BY <1>1 DEF ClientDrafts
<1>6. ClientDrafts'
  BY <1>1, <1>4, <1>5 DEF ClientDrafts
<1> QED
  BY <1>2, <1>3, <1>6

LEMMA ClientHolds ==
  ASSUME HInv, NEW c \in Client, ClientStep(c)
  PROVE  /\ HeldInProgress' /\ OneInProgress(jobs') /\ UniqueWaiting(jobs')
         /\ WorkerDrafts' /\ ClientDrafts'
<1>1. CASE jobs' = jobs /\ ClientDrafts'
  <2>1. \A w \in Worker : Held(w)' = Held(w) /\ loaded'[w] = loaded[w]
    BY WorkerDraftsStay
  <2> QED
    BY <1>1, <2>1, WorkerDraftsStay DEF HInv, HeldInProgress
<1>2. ASSUME NEW k \in Key, NEW p \in Payload, EnqueueRead(c, k, p)
      PROVE  jobs' = jobs /\ ClientDrafts'
  BY <1>2, EnqueueReadHolds DEF EnqueueRead
<1>3. ASSUME NEW k \in Key, DeleteRead(c, k)
      PROVE  jobs' = jobs /\ ClientDrafts'
  BY <1>3, DeleteReadHolds DEF DeleteRead
<1>4. CASE EnqueueCommit(c)
  <2>1. EndTx(c) /\ (jobs' = jobs \/ (jobs' = Flush(c) /\ UniqueWaiting(Flush(c))))
    BY <1>4 DEF EnqueueCommit
  <2>2. UniqueWaiting(jobs')
    BY <2>1 DEF HInv
  <2> QED
    BY <2>1, <2>2, EndTxHolds, WorkerDraftsStay
<1>5. CASE DeleteCommit(c)
  <2>1. EndTx(c) /\ jobs' = Flush(c) /\ tx[c].op = "delete"
    BY <1>5 DEF DeleteCommit
  <2>2. \A j \in Job : jobs'[j] = jobs[j] \/ jobs'[j].status = "superseded"
    BY <2>1, EndTxHolds
  <2>3. UniqueWaiting(jobs')
    BY <2>2 DEF HInv, UniqueWaiting, Waiting
  <2> QED
    BY <2>1, <2>3, EndTxHolds, WorkerDraftsStay
<1> QED
  BY <1>1, <1>2, <1>3, <1>4, <1>5 DEF ClientStep

\* Time: only a claim nobody holds any more becomes due for recovery.
LEMMA EnvironmentHolds ==
  ASSUME HInv, ~SlowWorkers, Environment \/ UNCHANGED vars
  PROVE  /\ HeldInProgress' /\ OneInProgress(jobs') /\ UniqueWaiting(jobs')
         /\ WorkerDrafts' /\ ClientDrafts'
<1> USE DEF HInv, IInv
<1>1. UNCHANGED <<loaded, draft, pc, tx>>
  BY DEF Environment, ImportStart, ImportEnd, Age, Elapse, vars
<1>2. ASSUME NEW row \in Row
      PROVE  /\ [row EXCEPT !.stale = TRUE].status = row.status /\ [row EXCEPT !.stale = TRUE].key = row.key
             /\ [row EXCEPT !.later = FALSE].status = row.status /\ [row EXCEPT !.later = FALSE].key = row.key
             /\ [row EXCEPT !.later = FALSE].stale = row.stale
  BY DEF Row
<1>3. ASSUME NEW i \in Job
      PROVE  /\ jobs'[i].status = jobs[i].status /\ jobs'[i].key = jobs[i].key
             /\ \/ jobs'[i].stale = jobs[i].stale
                \/ jobs[i].status = "in_progress" /\ \A w \in Worker : i \notin Held(w)
             /\ jobs[i] = Absent => jobs'[i] = Absent
  <2>1. ASSUME NEW j \in Job, Age(j)
        PROVE  /\ jobs' = [jobs EXCEPT ![j] = [jobs[j] EXCEPT !.stale = TRUE]]
               /\ jobs[j].status = "in_progress" /\ \A w \in Worker : j \notin Held(w)
    BY <2>1 DEF Age
  <2>2. ASSUME NEW j \in Job, Elapse(j)
        PROVE  jobs' = [jobs EXCEPT ![j] = [jobs[j] EXCEPT !.later = FALSE]] /\ jobs[j].later
    BY <2>2 DEF Elapse
  <2>3. jobs[i] \in Row
    BY DEF TypeOK
  <2>4. CASE jobs' = jobs
    BY <2>4
  <2>5. ASSUME NEW j \in Job, Age(j) \/ Elapse(j)
        PROVE  i # j => jobs'[i] = jobs[i]
    BY <2>1, <2>2, <2>5 DEF TypeOK
  <2>6. CASE Age(i)
    <3>1. jobs'[i] = [jobs[i] EXCEPT !.stale = TRUE]
      BY <2>1, <2>6 DEF TypeOK
    <3>2. jobs[i] # Absent /\ jobs[i].status = "in_progress" /\ \A w \in Worker : i \notin Held(w)
      BY <2>1, <2>6 DEF Absent
    <3> HIDE DEF HInv, IInv
    <3> QED
      BY <1>2, <2>3, <3>1, <3>2
  <2>7. CASE Elapse(i)
    <3>1. jobs'[i] = [jobs[i] EXCEPT !.later = FALSE]
      BY <2>2, <2>7 DEF TypeOK
    <3>2. jobs[i] # Absent
      BY <2>2, <2>7 DEF Absent
    <3> HIDE DEF HInv, IInv
    <3> QED
      BY <1>2, <2>3, <3>1, <3>2
  <2> QED
    BY <2>4, <2>5, <2>6, <2>7 DEF Environment, ImportStart, ImportEnd, vars
<1>4. HeldInProgress'
  BY <1>1, <1>3 DEF HeldInProgress, Held
<1>5. OneInProgress(jobs') /\ UniqueWaiting(jobs')
  BY <1>3 DEF OneInProgress, UniqueWaiting
<1>6. WorkerDrafts'
  BY <1>1 DEF WorkerDrafts, Unit, Held
<1>7. ClientDrafts'
  BY <1>1, <1>3 DEF ClientDrafts
<1> QED
  BY <1>4, <1>5, <1>6, <1>7

LEMMA HInvStep ==
  ASSUME ~SlowWorkers, ~ClientOverlap
  PROVE  HInv /\ [Next]_vars => HInv'
  BY InvStep, WorkerHolds, ClientHolds, EnvironmentHolds DEF HInv, Next

LEMMA InitHolds == Init => HInv
<1> SUFFICES ASSUME Init PROVE HInv
  OBVIOUS
<1>1. IInv
  BY InitInv
<1>2. \A j \in Job : jobs[j] = Absent /\ Absent.status = "absent" /\ ~Absent.stale
  BY DEF Init, NoCopies, Absent
<1>3. \A s \in Session, j \in Job : loaded[s][j] = Absent /\ draft[s][j] = Absent
  BY DEF Init, NoCopies
<1>4. \A w \in Worker : Held(w) = {} /\ Unit(w) = {}
  BY <1>3 DEF Held, Unit, Session
<1>5. HeldInProgress /\ WorkerDrafts
  BY <1>2, <1>4 DEF HeldInProgress, WorkerDrafts
<1>6. ClientDrafts
  BY <1>3 DEF ClientDrafts, Session
<1>7. OneInProgress(jobs) /\ UniqueWaiting(jobs)
  BY <1>2 DEF OneInProgress, UniqueWaiting, Waiting
<1> QED
  BY <1>1, <1>5, <1>6, <1>7 DEF HInv

\* Two workers never hold jobs of one delivery target, nor one worker two: a target's writes
\* reach the provider one at a time, whatever crashes, shutdowns, refused commits and requeues
\* happen in between.
THEOREM HoldersAreUnique ==
  ASSUME ~SlowWorkers, ~ClientOverlap
  PROVE  Spec => [](OneHolderPerUpdate /\ OneHolder(Key))
<1>1. HInv => OneHolder(Key)
  <2> SUFFICES ASSUME HInv, NEW v \in Worker, NEW w \in Worker, NEW i \in Held(v), NEW j \in Held(w),
                      loaded[v][i].key = loaded[w][j].key, loaded[v][i].key \in Key
               PROVE  v = w /\ i = j
    BY DEF OneHolder
  <2>1. /\ i \in Job /\ jobs[i].status = "in_progress" /\ jobs[i].key = loaded[v][i].key
        /\ j \in Job /\ jobs[j].status = "in_progress" /\ jobs[j].key = loaded[w][j].key
    BY DEF Held, HInv, HeldInProgress
  <2>2. i = j
    BY <2>1, KeyAssumption DEF HInv, OneInProgress
  <2> QED
    BY <2>2 DEF HInv, HeldInProgress
<1>2. OneHolder(Key) => OneHolderPerUpdate
  BY KeyAssumption DEF OneHolder, OneHolderPerUpdate, UpdateKey
<1> QED
  BY <1>1, <1>2, InitHolds, HInvStep, PTL DEF Spec

-----------------------------------------------------------------------------
(***************************************************************************)
(* The newest change arrives: what a delivery target's rows, its state at  *)
(* the provider and its WatchSync status have to do with each other.  One  *)
(* client changes the targets, no worker outlives its claim and no worker  *)
(* commits while the client's transaction is open.                         *)
(***************************************************************************)

\* Two rows or copies that differ at most in their times and counts.
Alike(row, copy) == /\ row.status = copy.status /\ row.target = copy.target
                    /\ row.key = copy.key       /\ row.payload = copy.payload

\* An active job is queued under its target, or, for an independent rating, under no key.
Keyed(row) == row.status \in Active =>
    /\ row.target \in Key
    /\ \/ row.key = row.target
       \/ row.target \in EntryKey /\ row.key = NoKey

Of(table, k, S) == {j \in Job : table[j].target = k /\ table[j].status \in S}

\* A waiting job carries the newest payload; so does the one in progress if none waits.
NewestQueued(table, k, want) ==
    /\ \A j \in Of(table, k, Waiting) : table[j].payload = want
    /\ Of(table, k, Waiting) = {} => \A j \in Of(table, k, {"in_progress"}) : table[j].payload = want

\* With nothing queued, jobs with the newest payload that succeeded and did not fail have
\* left it at the provider.
NewestStored(table, k, want, stored) ==
    /\ Of(table, k, Active) = {}
    /\ \E j \in Of(table, k, {"succeeded"}) : table[j].payload = want
    /\ \A j \in Of(table, k, {"failed_permanent"}) : table[j].payload # want
    => stored = want

\* The WatchSync status of a target agrees with its rows and with the provider.
Reported(table, k, want, stored, status) ==
    /\ status = "pending" => Of(table, k, Active) # {}
    /\ status = "succeeded" /\ k \in SuccessorKey /\ Of(table, k, Active) = {} => stored = want

TargetOK(table, k, want, stored, status) ==
    /\ k \in SuccessorKey => NewestQueued(table, k, want) /\ NewestStored(table, k, want, stored)
    /\ k \in WatchKey => Reported(table, k, want, stored, status)

Alive(k) == k \in WatchKey => k \in live
SyncOf(k) == IF k \in WatchKey THEN sync[k] ELSE "none"

TargetsOK == \A k \in Key \ EntryKey : Alive(k) => TargetOK(jobs, k, wanted[k], remote[k], SyncOf(k))
RowsKeyed == \A j \in Job : Keyed(jobs[j])
HeldAlike == \A w \in Worker : \A j \in Held(w) : Alike(jobs[j], loaded[w][j])

\* A worker changes neither target nor payload of a job, supersedes it only for one that
\* waits, and calls it delivered only when the provider has its payload.
SoundDraft(w, j) ==
    LET k == loaded[w][j].target
    IN /\ draft[w][j].target = k /\ draft[w][j].payload = loaded[w][j].payload
       /\ draft[w][j].status \in Active => draft[w][j].key = loaded[w][j].key
       /\ pc[w] = "releasing" => draft[w][j].status \in {"pending", "superseded"}
       /\ Alive(k) /\ pc[w] = "sending" => draft[w][j].status = "in_progress"
       /\ Alive(k) /\ k \notin EntryKey =>
            /\ draft[w][j].status = "superseded" => Of(jobs, k, Waiting) # {}
            /\ draft[w][j].status = "succeeded" => remote[k] = loaded[w][j].payload
            /\ pc[w] = "sending" => j \in sends[w]
SoundDrafts == \A w \in Worker : \A j \in Unit(w) : SoundDraft(w, j)

\* A client changes jobs of one target, which nobody else has changed since it read them.
SoundCopies(c) == \A j \in Job : draft[c][j] # Absent =>
    /\ draft[c][j].target = tx[c].key /\ Keyed(draft[c][j])
    /\ IF loaded[c][j] = Absent THEN jobs[j] = Absent
       ELSE Alike(jobs[j], loaded[c][j]) /\ loaded[c][j].target = tx[c].key

\* Its transaction makes the new payload the one that waits, or found it in progress.
SoundPut(c) ==
    LET k == tx[c].key
        changed == {j \in Job : draft[c][j] # Absent}
    IN /\ k \in Key
       /\ k \in WatchKey => tx[c].sync = sync[k]
       /\ k \notin EntryKey =>
            \/ \E j \in Job : /\ changed = {j} /\ Of(jobs, k, Waiting) \subseteq {j}
                              /\ draft[c][j].status = "pending" /\ draft[c][j].payload = tx[c].payload
            \/ /\ changed = {} /\ Of(jobs, k, Waiting) = {}
               /\ \E j \in Of(jobs, k, {"in_progress"}) : k \in SuccessorKey => jobs[j].payload = tx[c].payload
SoundTx == \A c \in Client :
    /\ SoundCopies(c)
    /\ tx[c].op = "put" => SoundPut(c)
    /\ tx[c].op = "delete" => tx[c].key \in WatchKey

DInv == HInv /\ TargetsOK /\ RowsKeyed /\ HeldAlike /\ SoundDrafts /\ SoundTx

\* The rows of k are the same in both tables, but for times, counts and keys.
SameRows(table, after, k) == \A j \in Job : table[j].target = k \/ after[j].target = k =>
    /\ after[j].target = table[j].target /\ after[j].status = table[j].status
    /\ after[j].payload = table[j].payload

LEMMA SameRowsOf ==
  ASSUME NEW table, NEW after, NEW k, NEW S, SameRows(table, after, k)
  PROVE  /\ Of(after, k, S) = Of(table, k, S)
         /\ \A j \in Of(table, k, S) : after[j].payload = table[j].payload
  BY DEF SameRows, Of

LEMMA SameRowsOK ==
  ASSUME NEW table, NEW after, NEW k, NEW want, NEW stored, NEW status,
         SameRows(table, after, k), TargetOK(table, k, want, stored, status)
  PROVE  TargetOK(after, k, want, stored, status)
<1>1. /\ Of(after, k, Waiting) = Of(table, k, Waiting) /\ Of(after, k, Active) = Of(table, k, Active)
      /\ Of(after, k, {"in_progress"}) = Of(table, k, {"in_progress"})
      /\ Of(after, k, {"succeeded"}) = Of(table, k, {"succeeded"})
      /\ Of(after, k, {"failed_permanent"}) = Of(table, k, {"failed_permanent"})
  BY SameRowsOf
<1>2. /\ \A j \in Of(table, k, Waiting) : after[j].payload = table[j].payload
      /\ \A j \in Of(table, k, {"in_progress"}) : after[j].payload = table[j].payload
      /\ \A j \in Of(table, k, {"succeeded"}) : after[j].payload = table[j].payload
      /\ \A j \in Of(table, k, {"failed_permanent"}) : after[j].payload = table[j].payload
  BY DEF SameRows, Of
<1> QED
  BY <1>1, <1>2 DEF TargetOK, NewestQueued, NewestStored, Reported

\* While a job of the target is queued the provider's state does not matter.
LEMMA BusyOK ==
  ASSUME NEW table, NEW k, NEW want, NEW stored, NEW status, NEW any,
         Of(table, k, Active) # {}, TargetOK(table, k, want, stored, status)
  PROVE  TargetOK(table, k, want, any, status)
  BY DEF TargetOK, NewestStored, Reported

\* At most one job of a target is in progress, and one waits.
LEMMA OneBusy ==
  ASSUME NEW table, NEW k \in Key \ EntryKey, \A j \in Job : Keyed(table[j]), OneInProgress(table),
         NEW i \in Of(table, k, {"in_progress"}), NEW j \in Of(table, k, {"in_progress"})
  PROVE  i = j
<1>1. i \in Job /\ j \in Job /\ table[i].key = k /\ table[j].key = k
  BY DEF Of, Keyed, Active
<1> QED
  BY <1>1, KeyAssumption DEF Of, OneInProgress

LEMMA OneWaits ==
  ASSUME NEW table, NEW k \in Key \ EntryKey, \A j \in Job : Keyed(table[j]), UniqueWaiting(table),
         NEW i \in Of(table, k, Waiting), NEW j \in Of(table, k, Waiting)
  PROVE  i = j
<1>1. i \in Job /\ j \in Job /\ table[i].key = k /\ table[j].key = k
  BY DEF Of, Keyed, Active
<1> QED
  BY <1>1, KeyAssumption DEF Of, UniqueWaiting

\* A job of the target leaves progress: to wait again, for one that waits, or with an outcome.
LEMMA LeaveOK ==
  ASSUME NEW table, NEW after, NEW k \in Key \ EntryKey, NEW want, NEW stored, NEW status, NEW reported,
         NEW j \in Job,
         TargetOK(table, k, want, stored, status),
         \A i \in Job : Keyed(table[i]) /\ Keyed(after[i]),
         OneInProgress(table), UniqueWaiting(after),
         table[j].target = k, table[j].status = "in_progress",
         after[j].target = k, after[j].payload = table[j].payload,
         after[j].status \in Waiting \cup Terminal,
         \A i \in Job \ {j} : table[i].target = k \/ after[i].target = k => after[i] = table[i],
         after[j].status = "superseded" => Of(table, k, Waiting) # {},
         after[j].status = "succeeded" => stored = table[j].payload,
         \/ reported = after[j].status
         \/ reported = status /\ after[j].status \in Waiting \cup {"superseded"}
  PROVE  TargetOK(after, k, want, stored, reported)
<1>1. ASSUME NEW S
      PROVE  \A i \in Job \ {j} : i \in Of(after, k, S) <=> i \in Of(table, k, S)
  BY DEF Of
<1>2. j \notin Of(table, k, Waiting) /\ j \in Of(table, k, {"in_progress"}) /\ j \notin Of(after, k, {"in_progress"})
  BY DEF Of, Waiting, Terminal
<1>3. \A S : Of(table, k, S) \subseteq Job /\ Of(after, k, S) \subseteq Job
  BY DEF Of
<1>4. Of(table, k, Waiting) \subseteq Of(after, k, Waiting)
  BY <1>1, <1>2, <1>3
<1>5. Of(after, k, {"in_progress"}) = {}
  BY <1>1, <1>2, <1>3, OneBusy
<1>6. j \in Of(after, k, Waiting) => Of(table, k, Waiting) = {}
  BY <1>2, <1>4, OneWaits
<1>7. \A i \in Of(table, k, Waiting) : after[i].payload = table[i].payload
  BY <1>2, <1>3, <1>1 DEF Of
<1>8. \A S : Of(after, k, Waiting) # {} => Of(after, k, Active) # {}
  BY DEF Of, Active
<1>9. ASSUME k \in SuccessorKey
      PROVE  NewestQueued(after, k, want)
  <2>1. NewestQueued(table, k, want)
    BY <1>9 DEF TargetOK
  <2>2. ASSUME NEW i \in Of(after, k, Waiting)
        PROVE  after[i].payload = want
    <3>1. CASE i = j
      BY <1>2, <1>6, <2>1, <2>2, <3>1 DEF NewestQueued
    <3>2. CASE i # j
      BY <1>1, <1>3, <1>7, <2>1, <2>2, <3>2 DEF NewestQueued
    <3> QED
      BY <3>1, <3>2
  <2> QED
    BY <1>5, <2>2 DEF NewestQueued
<1>10. ASSUME Of(after, k, Active) = {}, k \in SuccessorKey
       PROVE  /\ table[j].payload = want /\ after[j].status \in {"succeeded", "failed_permanent"}
              /\ after[j].status = "succeeded" => stored = want
  <2>1. Of(after, k, Waiting) = {} /\ Of(table, k, Waiting) = {}
    BY <1>4, <1>8, <1>10
  <2>2. table[j].payload = want
    BY <1>2, <1>10, <2>1 DEF TargetOK, NewestQueued
  <2>3. after[j].status \notin Waiting
    BY <2>1 DEF Of
  <2> QED
    BY <2>1, <2>2, <2>3 DEF Terminal
<1>11. ASSUME k \in SuccessorKey
       PROVE  NewestStored(after, k, want, stored)
  <2> SUFFICES ASSUME Of(after, k, Active) = {},
                      \A i \in Of(after, k, {"failed_permanent"}) : after[i].payload # want
               PROVE  stored = want
    BY DEF NewestStored
  <2>1. after[j].status # "failed_permanent"
    BY <1>10, <1>11 DEF Of
  <2> QED
    BY <1>10, <1>11, <2>1
<1>12. ASSUME k \in WatchKey
       PROVE  Reported(after, k, want, stored, reported)
  <2>1. reported = "pending" => Of(after, k, Active) # {}
    <3>1. CASE after[j].status \in Waiting
      BY <3>1 DEF Of, Active
    <3>2. CASE after[j].status = "superseded"
      BY <1>4, <1>8, <3>2
    <3>3. CASE after[j].status \in {"succeeded", "failed_permanent"}
      BY <3>3 DEF Waiting
    <3> QED
      BY <3>1, <3>2, <3>3 DEF Terminal
  <2>2. ASSUME reported = "succeeded", k \in SuccessorKey, Of(after, k, Active) = {}
        PROVE  stored = want
    <3>1. after[j].status = "succeeded"
      BY <1>10, <2>2 DEF Waiting
    <3> QED
      BY <1>10, <2>2, <3>1
  <2> QED
    BY <2>1, <2>2 DEF Reported
<1> QED
  BY <1>9, <1>11, <1>12 DEF TargetOK

\* Waiting jobs are claimed, none of a target whose job is in progress.
LEMMA TakeOK ==
  ASSUME NEW table, NEW after, NEW k \in Key \ EntryKey, NEW want, NEW stored, NEW status,
         TargetOK(table, k, want, stored, status), \A i \in Job : Keyed(table[i]),
         NEW C \in SUBSET Claimable(table),
         \A j \in C : /\ after[j].status = "in_progress" /\ after[j].target = table[j].target
                      /\ after[j].payload = table[j].payload,
         \A j \in Job \ C : after[j] = table[j]
  PROVE  TargetOK(after, k, want, stored, status)
<1>1. \A j \in C : j \in Job /\ table[j].status \in Waiting
  BY DEF Claimable
<1>2. /\ Of(after, k, Active) = Of(table, k, Active)
      /\ Of(after, k, {"succeeded"}) = Of(table, k, {"succeeded"})
      /\ Of(after, k, {"failed_permanent"}) = Of(table, k, {"failed_permanent"})
      /\ \A j \in Job : after[j].payload = table[j].payload
      /\ Of(after, k, Waiting) \subseteq Of(table, k, Waiting)
      /\ Of(after, k, {"in_progress"}) \subseteq Of(table, k, {"in_progress"}) \cup Of(table, k, Waiting)
  BY <1>1 DEF Of, Active, Waiting
<1>3. ASSUME NEW j \in C, table[j].target = k
      PROVE  Of(table, k, {"in_progress"}) = {}
  <2>1. table[j].key = k /\ k # NoKey
    BY <1>1, <1>3, KeyAssumption DEF Keyed, Active
  <2>2. \A i \in Of(table, k, {"in_progress"}) : i \in Job /\ table[i].key = k /\ table[i].status = "in_progress"
    BY DEF Of, Keyed, Active
  <2> QED
    BY <1>3, <2>1, <2>2 DEF Claimable
<1>4. ASSUME k \in SuccessorKey
      PROVE  NewestQueued(after, k, want)
  <2>1. NewestQueued(table, k, want)
    BY <1>4 DEF TargetOK
  <2>2. ASSUME NEW i \in Of(after, k, {"in_progress"}), Of(after, k, Waiting) = {}
        PROVE  after[i].payload = want
    <3>1. CASE Of(table, k, Waiting) = {}
      BY <1>2, <2>1, <2>2, <3>1 DEF NewestQueued, Of
    <3>2. CASE Of(table, k, Waiting) # {}
      <4>1. PICK j \in Of(table, k, Waiting) : TRUE
        BY <3>2
      <4>2. j \in C /\ table[j].target = k
        BY <2>2, <4>1 DEF Of
      <4>3. i \in Of(table, k, Waiting)
        BY <1>2, <1>3, <4>2
      <4> QED
        BY <1>2, <2>1, <4>3 DEF NewestQueued, Of
    <3> QED
      BY <3>1, <3>2
  <2>3. \A i \in Of(after, k, Waiting) : after[i].payload = want
    BY <1>2, <2>1 DEF NewestQueued, Of
  <2> QED
    BY <2>2, <2>3 DEF NewestQueued
<1>5. NewestStored(table, k, want, stored) => NewestStored(after, k, want, stored)
  BY <1>2 DEF NewestStored, Of
<1>6. Reported(table, k, want, stored, status) => Reported(after, k, want, stored, status)
  BY <1>2 DEF Reported
<1> QED
  BY <1>4, <1>5, <1>6 DEF TargetOK

\* A new payload is queued: it waits alone, or is the one in progress.
LEMMA QueueOK ==
  ASSUME NEW table, NEW k \in Key \ EntryKey, NEW p, NEW stored, NEW status, NEW j \in Job,
         \A i \in Job : Keyed(table[i]), OneInProgress(table),
         table[j].target = k, k \in SuccessorKey => table[j].payload = p,
         \/ table[j].status = "pending" /\ Of(table, k, Waiting) \subseteq {j}
         \/ table[j].status = "in_progress" /\ Of(table, k, Waiting) = {},
         status = "pending" \/ k \notin WatchKey
  PROVE  TargetOK(table, k, p, stored, status)
<1>1. Of(table, k, Active) # {}
  BY DEF Of, Active, Waiting
<1>2. ASSUME k \in SuccessorKey
      PROVE  NewestQueued(table, k, p)
  <2>1. \A i \in Of(table, k, Waiting) : table[i].payload = p
    BY <1>2
  <2>2. ASSUME Of(table, k, Waiting) = {}, NEW i \in Of(table, k, {"in_progress"})
        PROVE  table[i].payload = p
    <3>1. table[j].status = "in_progress"
      BY <2>2 DEF Of, Waiting
    <3>2. i = j
      BY <2>2, <3>1, OneBusy DEF Of
    <3> QED
      BY <1>2, <3>2
  <2> QED
    BY <2>1, <2>2 DEF NewestQueued
<1>3. NewestStored(table, k, p, stored)
  BY <1>1 DEF NewestStored
<1>4. k \in WatchKey => Reported(table, k, p, stored, status)
  BY <1>1 DEF Reported
<1> QED
  BY <1>2, <1>3, <1>4 DEF TargetOK

-----------------------------------------------------------------------------
(* Sessions and the rows they change. *)

LEMMA WrittenAlike ==
  ASSUME NEW row, NEW old, NEW new, old # Absent, Alike(row, old), new.target = old.target
  PROVE  Alike(Written(row, old, new), new)
  BY DEF Written, Alike

LEMMA RetiredAlike ==
  ASSUME NEW row \in Row
  PROVE  /\ Retired(row).target = row.target /\ Retired(row).payload = row.payload
         /\ Retired(row).status = "superseded"
  BY DEF Retired, Row

LEMMA RequeuedFields ==
  ASSUME NEW table, NEW j, NEW row \in Row, NEW later \in BOOLEAN
  PROVE  LET new == Requeued(table, j, row, later)
         IN /\ new.target = row.target /\ new.payload = row.payload
            /\ \/ new.status = "pending" /\ new.key = row.key
               \/ new.status = "superseded" /\ HasSuccessor(table, j, row.key)
  BY DEF Requeued, Retired, Row

LEMMA FinalizedFields ==
  ASSUME NEW j, NEW row \in Row, NEW throttled \in BOOLEAN,
         NEW status \in {"succeeded", "failed_retryable", "failed_permanent"}
  PROVE  LET new == Finalized(j, row, status, throttled)
         IN /\ new.target = row.target /\ new.payload = row.payload
            /\ new.status \in Active => new.key = row.key
            /\ new.status = "superseded" => HasSuccessor(jobs, j, row.key)
            /\ new.status = "succeeded" => status = "succeeded"
            /\ new.status \in {"failed_retryable", "succeeded", "failed_permanent", "superseded"}
<1> DEFINE attempts == IF throttled /\ row.attempts > 0 THEN row.attempts - 1 ELSE row.attempts
           tried == IF status = "failed_retryable" /\ attempts >= MaxAttempts
                    THEN "failed_permanent" ELSE status
           final == IF tried = "failed_retryable" /\ HasSuccessor(jobs, j, row.key)
                    THEN "superseded" ELSE tried
           new == [row EXCEPT !.status = final, !.attempts = attempts, !.later = (final = "failed_retryable"),
                              !.key = IF final = "failed_retryable" THEN row.key ELSE NoKey]
<1>1. /\ final \in {"failed_retryable", "succeeded", "failed_permanent", "superseded"}
      /\ final = "succeeded" => status = "succeeded"
      /\ final = "superseded" => HasSuccessor(jobs, j, row.key)
  OBVIOUS
<1>2. Finalized(j, row, status, throttled) = new
  BY DEF Finalized
<1> HIDE DEF attempts, tried, final
<1>3. /\ new.status = final /\ new.target = row.target /\ new.payload = row.payload
      /\ new.key = IF final = "failed_retryable" THEN row.key ELSE NoKey
  BY DEF Row
<1> QED
  BY <1>1, <1>2, <1>3 DEF Active, Waiting

\* The successor an active job makes way for waits for the same target.
LEMMA SuccessorWaits ==
  ASSUME RowsKeyed, NEW j \in Job, jobs[j].status \in Active, HasSuccessor(jobs, j, jobs[j].key)
  PROVE  Of(jobs, jobs[j].target, Waiting) # {}
<1>1. PICK i \in Job : jobs[i].key = jobs[j].key /\ jobs[i].status \in Waiting /\ jobs[j].key # NoKey
  BY DEF HasSuccessor
<1>2. jobs[i].target = jobs[i].key /\ jobs[j].target = jobs[j].key
  BY <1>1 DEF RowsKeyed, Keyed, Active
<1> QED
  BY <1>1, <1>2 DEF Of

\* What a worker holds is in progress for a target.
LEMMA HeldBusy ==
  ASSUME DInv, NEW w \in Worker, NEW j \in Held(w)
  PROVE  /\ j \in Job /\ w \in Session /\ loaded[w][j] \in Row /\ loaded[w][j] # Absent
         /\ Alike(jobs[j], loaded[w][j]) /\ jobs[j].status = "in_progress"
         /\ loaded[w][j].target \in Key /\ j \in Of(jobs, loaded[w][j].target, {"in_progress"})
<1>1. j \in Job /\ w \in Session /\ loaded[w][j] \in Row /\ loaded[w][j] # Absent
  BY DEF Held, Session, DInv, HInv, IInv, TypeOK
<1>2. Alike(jobs[j], loaded[w][j]) /\ jobs[j].status = "in_progress"
  BY DEF DInv, HInv, HeldAlike, HeldInProgress
<1>3. Keyed(jobs[j])
  BY <1>1 DEF DInv, RowsKeyed
<1> QED
  BY <1>1, <1>2, <1>3 DEF Alike, Keyed, Of, Active

\* Two held jobs of one target are the same.
LEMMA HolderOfTarget ==
  ASSUME DInv, NEW v \in Worker, NEW w \in Worker, NEW i \in Held(v), NEW j \in Held(w),
         loaded[v][i].target = loaded[w][j].target, loaded[v][i].target \notin EntryKey
  PROVE  v = w /\ i = j
<1> DEFINE k == loaded[w][j].target
<1>1. /\ k \in Key \ EntryKey
      /\ i \in Of(jobs, k, {"in_progress"}) /\ j \in Of(jobs, k, {"in_progress"})
  BY HeldBusy
<1>2. OneInProgress(jobs) /\ \A n \in Job : Keyed(jobs[n])
  BY DEF DInv, HInv, RowsKeyed
<1> HIDE DEF k
<1>3. i = j
  BY <1>1, <1>2, OneBusy
<1> QED
  BY <1>3 DEF DInv, HInv, HeldInProgress

LEMMA UnitHeld ==
  ASSUME DInv, NEW w \in Worker
  PROVE  Unit(w) \subseteq Held(w) /\ \A j \in Unit(w) : j \in Job /\ draft[w][j] # Absent
  BY DEF DInv, HInv, WorkerDrafts, Unit

\* The commit of a unit writes its copies.
LEMMA FlushUnit ==
  ASSUME DInv, NEW w \in Worker
  PROVE  /\ \A j \in Unit(w) : Alike(Flush(w)[j], draft[w][j])
         /\ \A j \in Job \ Unit(w) : Flush(w)[j] = jobs[j]
<1>1. ASSUME NEW j \in Unit(w)
      PROVE  Alike(Flush(w)[j], draft[w][j])
  <2>1. j \in Job /\ draft[w][j] # Absent /\ loaded[w][j] # Absent /\ Alike(jobs[j], loaded[w][j])
    BY UnitHeld, HeldBusy
  <2>2. draft[w][j].target = loaded[w][j].target
    BY DEF DInv, SoundDrafts, SoundDraft
  <2>3. Flush(w)[j] = Written(jobs[j], loaded[w][j], draft[w][j])
    BY <2>1 DEF Flush
  <2> QED
    BY <2>1, <2>2, <2>3, WrittenAlike
<1> QED
  BY <1>1 DEF Flush, Unit

\* So does a client's.
LEMMA FlushClient ==
  ASSUME DInv, NEW c \in Client
  PROVE  \A j \in Job : IF draft[c][j] # Absent THEN Alike(Flush(c)[j], draft[c][j])
                        ELSE Flush(c)[j] = jobs[j]
<1> SUFFICES ASSUME NEW j \in Job, draft[c][j] # Absent
             PROVE  Alike(Flush(c)[j], draft[c][j])
  BY DEF Flush
<1>1. Flush(c)[j] = Written(jobs[j], loaded[c][j], draft[c][j])
  BY DEF Flush
<1>2. CASE loaded[c][j] = Absent
  BY <1>1, <1>2 DEF Written, Alike
<1>3. CASE loaded[c][j] # Absent
  <2>1. Alike(jobs[j], loaded[c][j]) /\ draft[c][j].target = loaded[c][j].target
    BY <1>3 DEF DInv, SoundTx, SoundCopies
  <2> QED
    BY <1>1, <1>3, <2>1, WrittenAlike
<1> QED
  BY <1>2, <1>3

\* Only the provider's answer to a job of the target moves what the provider stores.
LEMMA RemoteMoves ==
  ASSUME DInv, NEW w \in Worker, Respond(w) \/ Crash(w), NEW k \in Key, remote'[k] # remote[k]
  PROVE  \E j \in Unit(w) : loaded[w][j].target = k
<1>1. remote' \in {remote, Applied(w)} /\ pc[w] = "sending"
  BY RespondEffect DEF Crash, DInv, HInv, IInv
<1>2. PICK j \in sends[w] : loaded[w][j].target = k
  BY <1>1 DEF Applied
<1> QED
  BY <1>1, <1>2 DEF DInv, HInv, IInv, SendsLiveWatches, TypeOK, Unit

LEMMA RemoteMovesBusy ==
  ASSUME DInv, NEW w \in Worker, Respond(w) \/ Crash(w), UNCHANGED <<jobs, wanted, live, sync>>
  PROVE  TargetsOK'
<1> SUFFICES ASSUME NEW k \in Key \ EntryKey, Alive(k)'
             PROVE  TargetOK(jobs', k, wanted'[k], remote'[k], SyncOf(k)')
  BY DEF TargetsOK
<1>1. TargetOK(jobs, k, wanted[k], remote[k], SyncOf(k)) /\ SyncOf(k)' = SyncOf(k)
  BY DEF DInv, TargetsOK, Alive, SyncOf
<1>2. CASE remote'[k] = remote[k]
  BY <1>1, <1>2
<1>3. CASE remote'[k] # remote[k]
  <2>1. PICK j \in Held(w) : loaded[w][j].target = k
    BY <1>3, RemoteMoves, UnitHeld
  <2>2. Of(jobs, k, Active) # {}
    BY <2>1, HeldBusy DEF Of, Active
  <2> QED
    BY <1>1, <2>2, BusyOK
<1> QED
  BY <1>2, <1>3

\* What a worker prepared stays sound while others move.
LEMMA OthersSound ==
  ASSUME NEW v \in Worker, NEW j, SoundDraft(v, j),
         draft'[v] = draft[v], loaded'[v] = loaded[v], pc'[v] = pc[v], sends'[v] = sends[v],
         live' \subseteq live,
         LET k == loaded[v][j].target
         IN Alive(k)' /\ k \notin EntryKey =>
               /\ Of(jobs, k, Waiting) # {} => Of(jobs', k, Waiting) # {}
               /\ remote'[k] = remote[k]
  PROVE  SoundDraft(v, j)'
<1>1. Alive(loaded[v][j].target)' => Alive(loaded[v][j].target)
  BY DEF Alive
<1> QED
  BY <1>1 DEF SoundDraft

\* Between transactions, and as long as the rows stay as they were read, the client's
\* copies are sound.
LEMMA NoTxSound ==
  ASSUME DInv, ~ClientOverlap, Undisturbed, tx' = tx, \A c \in Client : draft'[c] = draft[c]
  PROVE  SoundTx'
<1>1. \A c \in Client : tx'[c].op = "none" /\ \A j \in Job : draft'[c][j] = Absent
  BY DEF DInv, HInv, ClientDrafts, Undisturbed, NoTx
<1> QED
  BY <1>1 DEF SoundTx, SoundCopies

LEMMA SameTxSound ==
  ASSUME DInv, UNCHANGED <<jobs, sync, tx>>, \A c \in Client : draft'[c] = draft[c] /\ loaded'[c] = loaded[c]
  PROVE  SoundTx'
<1> SUFFICES ASSUME NEW c \in Client
             PROVE  /\ SoundCopies(c)' /\ ((tx[c].op = "put")' => SoundPut(c)')
                    /\ tx'[c].op = "delete" => tx'[c].key \in WatchKey
  BY DEF SoundTx
<1>1. /\ SoundCopies(c) /\ (tx[c].op = "put" => SoundPut(c))
      /\ tx[c].op = "delete" => tx[c].key \in WatchKey
  BY DEF DInv, SoundTx
<1> QED
  BY <1>1 DEF SoundCopies, SoundPut

-----------------------------------------------------------------------------
(* Workers. *)

DeliveryOK == TargetsOK /\ RowsKeyed /\ HeldAlike /\ SoundDrafts /\ SoundTx

\* A job of the next unit that is started again, or made way for: what its copy says.
LEMMA RequeuedSound ==
  ASSUME DInv, NEW w \in Worker, NEW j \in Held(w), NEW later \in BOOLEAN
  PROVE  LET new == Requeued(jobs, j, loaded[w][j], later)
             k == loaded[w][j].target
         IN /\ new.target = k /\ new.payload = loaded[w][j].payload
            /\ new.status \in {"pending", "superseded"}
            /\ new.status = "pending" => new.key = loaded[w][j].key
            /\ new.status = "superseded" => Of(jobs, k, Waiting) # {}
<1>1. /\ loaded[w][j] \in Row /\ j \in Job /\ jobs[j].status = "in_progress"
      /\ jobs[j].key = loaded[w][j].key /\ jobs[j].target = loaded[w][j].target
  BY HeldBusy DEF Alike
<1>2. HasSuccessor(jobs, j, loaded[w][j].key) => Of(jobs, loaded[w][j].target, Waiting) # {}
  BY <1>1, SuccessorWaits DEF DInv, Active
<1> QED
  BY <1>1, <1>2, RequeuedFields

LEMMA BeginDrafts ==
  ASSUME DInv, NEW w \in Worker, Begin(w), NEW j \in Unit(w)'
  PROVE  SoundDraft(w, j)'
<1> DEFINE U == NextUnit(w)
           f == [i \in Job |-> [loaded[w][i] EXCEPT !.attempts = @ + 1]]
<1>1. w \in Session /\ U \subseteq Held(w) /\ j \in Job /\ draft'[w][j] # Absent
  BY NextUnitHeld DEF Session, Unit
<1>2. draft' = [draft EXCEPT ![w] = [i \in Job |-> IF i \in Missing(w, U) THEN Retired(loaded[w][i])
                                                   ELSE IF i \in U THEN f[i] ELSE Absent]]
  BY DEF Begin, Changed
<1>3. /\ UNCHANGED <<jobs, loaded, live, remote>> /\ pc'[w] = "sending"
      /\ \A i \in U \ Missing(w, U) : loaded[w][i].target \notin EntryKey => i \in sends'[w]
  <2>1. NextUnit(w) \subseteq Job
    BY NextUnitHeld
  <2> QED
    BY <2>1 DEF Begin, DInv, HInv, IInv, TypeOK
<1> HIDE DEF U, f
<1>4. draft'[w][j] = IF j \in Missing(w, U) THEN Retired(loaded[w][j]) ELSE IF j \in U THEN f[j] ELSE Absent
  BY <1>1, <1>2 DEF DInv, HInv, IInv, TypeOK
<1>5. j \in U /\ loaded[w][j] \in Row /\ loaded[w][j].status = "in_progress"
  <2>1. j \in U
    BY <1>1, <1>4 DEF Missing
  <2> QED
    BY <1>1, <2>1, HeldBusy DEF Alike
<1>6. CASE j \in Missing(w, U)
  <2>1. ~Alive(loaded[w][j].target)
    BY <1>6 DEF Missing, Alive
  <2>2. /\ draft'[w][j].target = loaded[w][j].target /\ draft'[w][j].payload = loaded[w][j].payload
        /\ draft'[w][j].status = "superseded"
    BY <1>4, <1>5, <1>6, RetiredAlike
  <2> QED
    BY <1>3, <2>1, <2>2 DEF SoundDraft, Alive, Active, Waiting
<1>7. CASE j \notin Missing(w, U)
  <2>1. ASSUME NEW row \in Row
        PROVE  LET new == [row EXCEPT !.attempts = @ + 1]
               IN new.target = row.target /\ new.payload = row.payload /\ new.status = row.status /\ new.key = row.key
    BY DEF Row
  <2>2. draft'[w][j] = [loaded[w][j] EXCEPT !.attempts = @ + 1]
    BY <1>1, <1>4, <1>5, <1>7 DEF f
  <2>3. /\ draft'[w][j].target = loaded[w][j].target /\ draft'[w][j].payload = loaded[w][j].payload
        /\ draft'[w][j].status = "in_progress" /\ draft'[w][j].key = loaded[w][j].key
    BY <1>5, <2>1, <2>2
  <2>4. loaded[w][j].target \notin EntryKey => j \in sends'[w]
    BY <1>3, <1>5, <1>7
  <2> QED
    BY <1>3, <2>3, <2>4 DEF SoundDraft
<1> QED
  BY <1>6, <1>7

LEMMA ThrottleDrafts ==
  ASSUME DInv, NEW w \in Worker, Throttle(w) \/ Release(w), NEW j \in Unit(w)'
  PROVE  SoundDraft(w, j)'
<1>1. w \in Session /\ NextUnit(w) \subseteq Held(w) /\ j \in Job /\ draft'[w][j] # Absent
  BY NextUnitHeld DEF Session, Unit
<1>2. /\ UNCHANGED <<jobs, loaded, live, remote>>
      /\ pc'[w] \in {"throttled", "releasing"} /\ (pc'[w] = "releasing" => Release(w))
  BY DEF Throttle, Release, DInv, HInv, IInv, TypeOK
<1>3. \/ /\ j \in Held(w) /\ Throttle(w) /\ draft'[w][j] = Retired(loaded[w][j])
         /\ ~Alive(loaded[w][j].target)
      \/ /\ j \in Held(w)
         /\ \E later \in BOOLEAN : draft'[w][j] = Requeued(jobs, j, loaded[w][j], later)
  <2>1. CASE Throttle(w)
    <3> DEFINE U == NextUnit(w)
    <3>1. draft'[w] = [i \in Job |-> IF i \in Missing(w, U) THEN Retired(loaded[w][i])
                                     ELSE IF i \in U THEN Requeued(jobs, i, loaded[w][i], TRUE) ELSE Absent]
      BY <1>1, <2>1 DEF Throttle, Changed, DInv, HInv, IInv, TypeOK
    <3> HIDE DEF U
    <3>2. j \in Missing(w, U) => j \in U /\ ~Alive(loaded[w][j].target)
      BY DEF Missing, Alive
    <3> QED
      BY <1>1, <2>1, <3>1, <3>2 DEF U
  <2>2. CASE Release(w)
    <3>1. draft'[w] = [i \in Job |-> IF i \in Held(w) THEN Requeued(jobs, i, loaded[w][i], FALSE) ELSE Absent]
      BY <1>1, <2>2 DEF Release, DInv, HInv, IInv, TypeOK
    <3> QED
      BY <1>1, <3>1
  <2> QED
    BY <2>1, <2>2
<1>4. j \in Held(w) /\ loaded[w][j] \in Row
  BY <1>3, HeldBusy
<1>5. CASE Throttle(w) /\ draft'[w][j] = Retired(loaded[w][j]) /\ ~Alive(loaded[w][j].target)
  <2>1. /\ draft'[w][j].target = loaded[w][j].target /\ draft'[w][j].payload = loaded[w][j].payload
        /\ draft'[w][j].status = "superseded"
    BY <1>4, <1>5, RetiredAlike
  <2> QED
    BY <1>2, <1>5, <2>1 DEF SoundDraft, Alive, Active, Waiting
<1>6. ASSUME NEW later \in BOOLEAN, draft'[w][j] = Requeued(jobs, j, loaded[w][j], later)
      PROVE  SoundDraft(w, j)'
  <2>1. /\ draft'[w][j].target = loaded[w][j].target /\ draft'[w][j].payload = loaded[w][j].payload
        /\ draft'[w][j].status \in {"pending", "superseded"}
        /\ draft'[w][j].status = "pending" => draft'[w][j].key = loaded[w][j].key
        /\ draft'[w][j].status = "superseded" => Of(jobs, loaded[w][j].target, Waiting) # {}
    BY <1>4, <1>6, RequeuedSound
  <2> QED
    BY <1>2, <2>1 DEF SoundDraft, Active, Waiting
<1> QED
  BY <1>3, <1>5, <1>6

\* An accepted request leaves the payload at the provider.
LEMMA AnswerEffect ==
  ASSUME TypeOK, NEW w \in Worker, Respond(w), NEW j \in Unit(w) \ Missing(w, Unit(w))
  PROVE  \E throttled \in BOOLEAN, status \in {"succeeded", "failed_retryable", "failed_permanent"} :
            /\ draft'[w][j] = Finalized(j, draft[w][j], status, throttled)
            /\ status = "succeeded" => remote' = Applied(w)
<1>1. w \in Session /\ j \in Job
  BY DEF Session, Unit
<1>2. CASE Succeed(w)
  <2>1. draft'[w][j] = Finalized(j, draft[w][j], "succeeded", FALSE) /\ remote' = Applied(w)
    BY <1>1, <1>2 DEF Succeed, Settle, TypeOK
  <2> QED
    BY <2>1
<1>3. CASE Fail(w)
  <2>1. draft'[w][j] = Finalized(j, draft[w][j], "failed_retryable", FALSE)
    BY <1>1, <1>3 DEF Fail, Settle, TypeOK
  <2> QED
    BY <2>1
<1>4. CASE TooMany(w)
  <2>1. draft'[w][j] = Finalized(j, draft[w][j], "failed_retryable", TRUE)
    BY <1>1, <1>4 DEF TooMany, Settle, TypeOK
  <2> QED
    BY <2>1
<1>5. CASE Reject(w)
  <2>1. draft'[w][j] = Finalized(j, draft[w][j], "failed_permanent", FALSE)
    BY <1>1, <1>5 DEF Reject, Settle, TypeOK
  <2> QED
    BY <2>1
<1>6. CASE Unauthorized(w)
  <2> DEFINE status == IF draft[w][j].attempts <= AuthRetryAttempts THEN "failed_retryable" ELSE "failed_permanent"
  <2>1. draft'[w][j] = Finalized(j, draft[w][j], status, FALSE)
    BY <1>1, <1>6 DEF Unauthorized, Settle, TypeOK
  <2>2. status \in {"failed_retryable", "failed_permanent"}
    OBVIOUS
  <2> HIDE DEF status
  <2> QED
    BY <2>1, <2>2
<1> QED
  BY <1>2, <1>3, <1>4, <1>5, <1>6 DEF Respond

LEMMA RespondDrafts ==
  ASSUME DInv, NEW w \in Worker, Respond(w), NEW j \in Unit(w)'
  PROVE  SoundDraft(w, j)'
<1> DEFINE k == loaded[w][j].target
<1>1. TypeOK /\ w \in Session
  BY DEF Session, DInv, HInv, IInv
<1>2. /\ UNCHANGED <<jobs, loaded, live>> /\ pc[w] = "sending" /\ pc'[w] = "settling"
  BY <1>1, RespondEffect DEF TypeOK
<1>3. j \in Unit(w) /\ j \in Held(w) /\ j \in Job
  BY <1>1, RespondUnit, UnitHeld
<1>4. SoundDraft(w, j) /\ draft[w][j] \in Row
  BY <1>1, <1>3 DEF DInv, SoundDrafts, TypeOK
<1>5. CASE ~Alive(k)
  <2>1. j \in Missing(w, Unit(w))
    BY <1>3, <1>5 DEF Missing, Alive
  <2>2. draft'[w][j] = draft[w][j]
    <3>1. PICK throttled \in BOOLEAN, f \in [Job -> {"succeeded", "failed_retryable", "failed_permanent"}] :
             draft' = [draft EXCEPT ![w] = [i \in Job |->
                 IF i \in Unit(w) \ Missing(w, Unit(w))
                 THEN Finalized(i, draft[w][i], f[i], throttled) ELSE draft[w][i]]]
      BY <1>1, RespondEffect
    <3> QED
      BY <1>1, <1>3, <2>1, <3>1 DEF TypeOK
  <2> QED
    BY <1>2, <1>4, <1>5, <2>2 DEF SoundDraft, Alive
<1>6. CASE Alive(k)
  <2>1. j \in Unit(w) \ Missing(w, Unit(w))
    BY <1>3, <1>6 DEF Missing, Alive
  <2>2. PICK throttled \in BOOLEAN, status \in {"succeeded", "failed_retryable", "failed_permanent"} :
            /\ draft'[w][j] = Finalized(j, draft[w][j], status, throttled)
            /\ status = "succeeded" => remote' = Applied(w)
    BY <1>1, <2>1, AnswerEffect
  <2>3. /\ draft[w][j].target = k /\ draft[w][j].payload = loaded[w][j].payload
        /\ draft[w][j].key = loaded[w][j].key /\ (k \notin EntryKey => j \in sends[w])
    BY <1>2, <1>4, <1>6 DEF SoundDraft, Active
  <2>4. /\ draft'[w][j].target = k /\ draft'[w][j].payload = loaded[w][j].payload
        /\ draft'[w][j].status \in Active => draft'[w][j].key = loaded[w][j].key
        /\ draft'[w][j].status = "superseded" => HasSuccessor(jobs, j, loaded[w][j].key)
        /\ draft'[w][j].status = "succeeded" => remote' = Applied(w)
    BY <1>4, <2>2, <2>3, FinalizedFields
  <2>5. draft'[w][j].status = "superseded" => Of(jobs, k, Waiting) # {}
    BY <1>3, <2>4, HeldBusy, SuccessorWaits DEF Alike, Active, DInv
  <2>6. ASSUME k \notin EntryKey, remote' = Applied(w)
        PROVE  remote'[k] = loaded[w][j].payload
    <3>1. j \in sends[w] /\ k \in Key
      BY <1>3, <2>3, <2>6, HeldBusy
    <3>2. \A i \in sends[w] : i \in Held(w)
      BY <1>2, UnitHeld DEF DInv, HInv, IInv, SendsLiveWatches, TypeOK, Unit
    <3>3. \A i \in sends[w] : loaded[w][i].target = k => i = j
      BY <1>3, <2>6, <3>2, HolderOfTarget
    <3> QED
      BY <2>6, <3>1, <3>3 DEF Applied
  <2> QED
    BY <1>2, <2>4, <2>5, <2>6 DEF SoundDraft
<1> QED
  BY <1>5, <1>6

\* Preparing, sending and crashing write no row.
LEMMA PrepareDelivers ==
  ASSUME DInv, NEW w \in Worker, Begin(w) \/ Throttle(w) \/ Respond(w) \/ Release(w) \/ Crash(w)
  PROVE  DeliveryOK'
<1>1. TypeOK /\ WorkerStep(w)
  BY DEF DInv, HInv, IInv, WorkerStep
<1>2. /\ UNCHANGED <<jobs, wanted, live, sync, tx>>
      /\ ~(Respond(w) \/ Crash(w)) => UNCHANGED <<remote, loaded>>
      /\ ~Crash(w) => UNCHANGED loaded
  BY <1>1, RespondEffect DEF Begin, Throttle, Release, Crash
<1>3. \A v \in Worker \ {w} : /\ loaded'[v] = loaded[v] /\ draft'[v] = draft[v]
                              /\ pc'[v] = pc[v] /\ sends'[v] = sends[v]
  BY <1>1, WorkerFrame
<1>4. TargetsOK'
  <2>1. CASE Respond(w) \/ Crash(w)
    BY <1>2, <2>1, RemoteMovesBusy
  <2>2. CASE ~(Respond(w) \/ Crash(w))
    BY <1>2, <2>2 DEF DInv, TargetsOK, Alive, SyncOf
  <2> QED
    BY <2>1, <2>2
<1>5. Crash(w) => \A j \in Job : loaded'[w][j] = Absent /\ draft'[w][j] = Absent
  BY <1>1 DEF Crash, Drop, TypeOK, Session, NoCopies
<1>6. RowsKeyed' /\ HeldAlike'
  <2>1. \A v \in Worker : \A j \in Held(v)' : j \in Held(v) /\ loaded'[v][j] = loaded[v][j]
    BY <1>2, <1>3, <1>5 DEF Held
  <2> QED
    BY <1>2, <2>1 DEF DInv, RowsKeyed, HeldAlike
<1>7. SoundDrafts'
  <2>1. ASSUME NEW v \in Worker \ {w}, NEW j \in Unit(v)'
        PROVE  SoundDraft(v, j)'
    <3>1. j \in Unit(v) /\ j \in Held(v) /\ SoundDraft(v, j)
      BY <1>3, <2>1, UnitHeld DEF Unit, DInv, SoundDrafts
    <3>2. loaded[v][j].target \notin EntryKey => remote'[loaded[v][j].target] = remote[loaded[v][j].target]
      <4>1. CASE Respond(w) \/ Crash(w)
        BY <2>1, <3>1, <4>1, HeldBusy, HolderOfTarget, RemoteMoves, UnitHeld
      <4> QED
        BY <1>2, <4>1
    <3> QED
      BY <1>2, <1>3, <3>1, <3>2, OthersSound
  <2>2. ASSUME NEW j \in Unit(w)'
        PROVE  SoundDraft(w, j)'
    <3>1. CASE Crash(w)
      BY <1>5, <2>2, <3>1 DEF Unit
    <3> QED
      BY <2>2, <3>1, BeginDrafts, ThrottleDrafts, RespondDrafts
  <2> QED
    BY <2>1, <2>2 DEF SoundDrafts
<1>8. SoundTx'
  <2>1. \A c \in Client : draft'[c] = draft[c] /\ loaded'[c] = loaded[c]
    BY <1>1, RespondEffect, SessionsApart
    DEF Begin, Throttle, Changed, Respond, Succeed, Fail, Reject, TooMany, Unauthorized, Settle,
        Release, Crash, Drop, TypeOK
  <2> QED
    BY <1>2, <2>1, SameTxSound
<1> QED
  BY <1>4, <1>6, <1>7, <1>8 DEF DeliveryOK

\* What a finished unit reports for a target it holds one job of, and for one it holds none of.
LEMMA SyncAfterOne ==
  ASSUME NEW rows, NEW S, NEW k \in WatchKey, NEW j \in S, rows[j].target = k,
         \A i \in S : rows[i].target = k => i = j
  PROVE  SyncAfter(rows, S)[k] = IF rows[j].status = "superseded" THEN sync[k] ELSE rows[j].status
<1>1. CASE rows[j].status = "superseded"
  BY <1>1 DEF SyncAfter
<1>2. CASE rows[j].status # "superseded"
  <2>1. (CHOOSE i \in S : rows[i].target = k /\ rows[i].status # "superseded") = j
    BY <1>2
  <2> QED
    BY <1>2, <2>1 DEF SyncAfter
<1> QED
  BY <1>1, <1>2

LEMMA SyncAfterNone ==
  ASSUME NEW rows, NEW S, NEW k \in WatchKey, \A i \in S : rows[i].target # k
  PROVE  SyncAfter(rows, S)[k] = sync[k]
  BY DEF SyncAfter

\* A worker that only gives up jobs: what others hold stays as it was read.
LEMMA HeldStays ==
  ASSUME DInv, NEW w \in Worker, NEW S \in SUBSET Job,
         \A j \in S : \A v \in Worker : j \in Held(v) => v = w /\ loaded'[w][j] = Absent,
         \A j \in Job \ S : jobs'[j] = jobs[j],
         \A j \in Job : loaded'[w][j] \in {loaded[w][j], Absent},
         \A v \in Worker \ {w} : loaded'[v] = loaded[v]
  PROVE  HeldAlike'
<1> SUFFICES ASSUME NEW v \in Worker, NEW j \in Held(v)'
             PROVE  Alike(jobs'[j], loaded'[v][j])
  BY DEF HeldAlike
<1>1. j \in Held(v) /\ j \in Job /\ loaded'[v][j] = loaded[v][j]
  BY DEF Held
<1>2. j \notin S
  BY <1>1 DEF Held
<1> QED
  BY <1>1, <1>2 DEF DInv, HeldAlike

\* The jobs that wait go on waiting while a worker writes jobs it holds.
LEMMA WaitersStay ==
  ASSUME DInv, NEW w \in Worker, NEW S \in SUBSET Held(w), \A j \in Job \ S : jobs'[j] = jobs[j], NEW k
  PROVE  Of(jobs, k, Waiting) # {} => Of(jobs', k, Waiting) # {}
<1>1. \A j \in Of(jobs, k, Waiting) : j \in Job \ S
  BY HeldBusy DEF Of, Waiting
<1> QED
  BY <1>1 DEF Of

LEMMA RetireDelivers ==
  ASSUME DInv, ~ClientOverlap, NEW w \in Worker, Retire(w)
  PROVE  DeliveryOK'
<1> DEFINE U == NextUnit(w)
<1>1. TypeOK /\ WorkerStep(w) /\ w \in Session /\ U \in SUBSET Held(w) /\ Held(w) \subseteq Job
  BY NextUnitHeld DEF DInv, HInv, IInv, WorkerStep, Session
<1>2. /\ jobs' = [j \in Job |-> IF j \in U THEN Written(jobs[j], loaded[w][j], Retired(loaded[w][j])) ELSE jobs[j]]
      /\ loaded' = [loaded EXCEPT ![w] = [j \in Job |-> IF j \in Held(w) \ U THEN loaded[w][j] ELSE Absent]]
      /\ pc[w] = "ready" /\ Undisturbed /\ U = Missing(w, U)
      /\ UNCHANGED <<wanted, remote, live, sync, draft, tx>>
  BY DEF Retire
<1> HIDE DEF U
<1>3. \A j \in U : Alike(jobs'[j], Retired(loaded[w][j])) /\ ~Alive(loaded[w][j].target) /\ j \in Job
  <2> SUFFICES ASSUME NEW j \in U
               PROVE  Alike(jobs'[j], Retired(loaded[w][j])) /\ ~Alive(loaded[w][j].target) /\ j \in Job
    OBVIOUS
  <2>1. j \in Job /\ loaded[w][j] \in Row /\ loaded[w][j] # Absent /\ Alike(jobs[j], loaded[w][j])
    BY <1>1, HeldBusy
  <2>2. jobs'[j] = Written(jobs[j], loaded[w][j], Retired(loaded[w][j]))
    BY <1>2, <2>1
  <2>3. ~Alive(loaded[w][j].target)
    BY <1>2 DEF Missing, Alive
  <2> QED
    BY <2>1, <2>2, <2>3, WrittenAlike, RetiredAlike
<1>4. \A j \in U : jobs'[j].status = "superseded" /\ jobs'[j].target = jobs[j].target /\ ~Alive(jobs[j].target)
  <2>1. \A j \in U : loaded[w][j] \in Row /\ Alike(jobs[j], loaded[w][j])
    BY <1>1, HeldBusy
  <2> QED
    BY <1>3, <2>1, RetiredAlike DEF Alike
<1>5. \A j \in Job \ U : jobs'[j] = jobs[j]
  BY <1>2
<1>6. TargetsOK'
  <2> SUFFICES ASSUME NEW k \in Key \ EntryKey, Alive(k)'
               PROVE  TargetOK(jobs', k, wanted'[k], remote'[k], SyncOf(k)')
    BY DEF TargetsOK
  <2>1. Alive(k) /\ TargetOK(jobs, k, wanted[k], remote[k], SyncOf(k)) /\ SyncOf(k)' = SyncOf(k)
    BY <1>2 DEF DInv, TargetsOK, Alive, SyncOf
  <2>2. SameRows(jobs, jobs', k)
    BY <1>4, <1>5, <2>1 DEF SameRows
  <2> QED
    BY <1>2, <2>1, <2>2, SameRowsOK
<1>7. RowsKeyed'
  BY <1>4, <1>5 DEF DInv, RowsKeyed, Keyed, Active, Waiting
<1>8. HeldAlike'
  <2>1. \A j \in Job : loaded'[w][j] = IF j \in Held(w) \ U THEN loaded[w][j] ELSE Absent
    BY <1>1, <1>2 DEF TypeOK
  <2>2. \A v \in Worker \ {w} : loaded'[v] = loaded[v]
    BY <1>1, WorkerFrame
  <2>3. \A j \in U : \A v \in Worker : j \in Held(v) => v = w
    BY <1>1 DEF DInv, HInv, HeldInProgress
  <2> QED
    BY <1>1, <1>3, <1>5, <2>1, <2>2, <2>3, HeldStays
<1>9. SoundDrafts'
  <2> SUFFICES ASSUME NEW v \in Worker, NEW j \in Unit(v)'
               PROVE  SoundDraft(v, j)'
    BY DEF SoundDrafts
  <2>1. v # w /\ j \in Unit(v) /\ SoundDraft(v, j)
    BY <1>2 DEF Unit, DInv, HInv, WorkerDrafts, SoundDrafts
  <2>2. /\ loaded'[v] = loaded[v] /\ draft'[v] = draft[v] /\ pc'[v] = pc[v] /\ sends'[v] = sends[v]
    BY <1>1, <2>1, WorkerFrame
  <2>3. \A k : Of(jobs, k, Waiting) # {} => Of(jobs', k, Waiting) # {}
    BY <1>1, <1>5, WaitersStay
  <2> QED
    BY <1>2, <2>1, <2>2, <2>3, OthersSound
<1>10. SoundTx'
  BY <1>2, NoTxSound
<1> QED
  BY <1>6, <1>7, <1>8, <1>9, <1>10 DEF DeliveryOK

\* The unit leaves progress; each job as its copy says.
LEMMA UnitLeaves ==
  ASSUME DInv, NEW w \in Worker, pc[w] \in {"settling", "throttled", "releasing"}, NEW j \in Unit(w),
         Alive(loaded[w][j].target)
  PROVE  /\ draft[w][j].status \in Waiting \cup Terminal
         /\ draft[w][j].target = loaded[w][j].target /\ draft[w][j].payload = loaded[w][j].payload
         /\ draft[w][j].status \in Active => draft[w][j].key = loaded[w][j].key
<1>1. SoundDraft(w, j)
  BY DEF DInv, SoundDrafts
<1>2. j \notin Missing(w, Unit(w))
  BY DEF Missing, Alive
<1>3. pc[w] # "releasing" => draft[w][j].status \in Outcome
  BY <1>2 DEF DInv, HInv, IInv, OutcomesRecorded
<1> QED
  BY <1>1, <1>3 DEF SoundDraft, Outcome, Waiting, Terminal

LEMMA CommitTargets ==
  ASSUME DInv, NEW w \in Worker, pc[w] \in {"settling", "throttled", "releasing"},
         jobs' = Flush(w), UniqueWaiting(Flush(w)), RowsKeyed',
         sync' = IF pc[w] = "releasing" THEN sync ELSE SyncAfter(draft[w], Unit(w) \ Missing(w, Unit(w))),
         UNCHANGED <<wanted, remote, live>>, NEW k \in Key \ EntryKey, Alive(k)
  PROVE  TargetOK(jobs', k, wanted'[k], remote'[k], SyncOf(k)')
<1> DEFINE done == Unit(w) \ Missing(w, Unit(w))
<1>1. /\ \A j \in Unit(w) : /\ j \in Job /\ j \in Held(w) /\ Alike(jobs'[j], draft[w][j])
                            /\ jobs[j].target = loaded[w][j].target
                            /\ draft[w][j].target = loaded[w][j].target
      /\ \A j \in Job \ Unit(w) : jobs'[j] = jobs[j]
  <2>1. \A j \in Unit(w) : draft[w][j].target = loaded[w][j].target
    BY DEF DInv, SoundDrafts, SoundDraft
  <2> QED
    BY <2>1, UnitHeld, FlushUnit, HeldBusy DEF Alike
<1>2. TargetOK(jobs, k, wanted[k], remote[k], SyncOf(k))
  BY DEF DInv, TargetsOK
<1>3. \A i \in done : i \in Unit(w)
  OBVIOUS
<1>4. CASE \A j \in Unit(w) : loaded[w][j].target # k
  <2>1. SameRows(jobs, jobs', k)
    BY <1>1, <1>4 DEF SameRows, Alike
  <2>2. SyncOf(k)' = SyncOf(k)
    <3>1. k \in WatchKey => SyncAfter(draft[w], done)[k] = sync[k]
      BY <1>1, <1>3, <1>4, SyncAfterNone
    <3> QED
      BY <3>1 DEF SyncOf
  <2> QED
    BY <1>2, <2>1, <2>2, SameRowsOK
<1>5. ASSUME NEW j \in Unit(w), loaded[w][j].target = k
      PROVE  TargetOK(jobs', k, wanted'[k], remote'[k], SyncOf(k)')
  <2>1. /\ draft[w][j].status \in Waiting \cup Terminal
        /\ draft[w][j].target = k /\ draft[w][j].payload = loaded[w][j].payload
    BY <1>5, UnitLeaves
  <2>2. /\ draft[w][j].status = "superseded" => Of(jobs, k, Waiting) # {}
        /\ draft[w][j].status = "succeeded" => remote[k] = loaded[w][j].payload
        /\ pc[w] = "releasing" => draft[w][j].status \in {"pending", "superseded"}
    BY <1>5 DEF DInv, SoundDrafts, SoundDraft
  <2>3. \A i \in Unit(w) : loaded[w][i].target = k => i = j
    BY <1>1, <1>5, HolderOfTarget
  <2>4. \A i \in Job \ {j} : jobs[i].target = k \/ jobs'[i].target = k => jobs'[i] = jobs[i]
    BY <1>1, <2>3 DEF Alike
  <2>5. /\ jobs[j].target = k /\ jobs[j].status = "in_progress" /\ jobs[j].payload = loaded[w][j].payload
        /\ jobs'[j].target = k /\ jobs'[j].payload = loaded[w][j].payload
        /\ jobs'[j].status = draft[w][j].status /\ j \in Job
    BY <1>1, <1>5, <2>1, HeldBusy DEF Alike
  <2>6. \/ SyncOf(k)' = jobs'[j].status
        \/ SyncOf(k)' = SyncOf(k) /\ jobs'[j].status \in Waiting \cup {"superseded"}
        \/ k \notin WatchKey
    <3>1. j \in done /\ \A i \in done : draft[w][i].target = k => i = j
      BY <1>1, <1>5, <2>3 DEF Missing, Alive
    <3> HIDE DEF done
    <3>2. k \in WatchKey => SyncAfter(draft[w], done)[k] =
                            IF draft[w][j].status = "superseded" THEN sync[k] ELSE draft[w][j].status
      BY <2>1, <3>1, SyncAfterOne
    <3> QED
      BY <2>2, <2>5, <3>2 DEF SyncOf, Waiting, done
  <2>7. /\ OneInProgress(jobs) /\ UniqueWaiting(jobs')
        /\ \A i \in Job : Keyed(jobs[i]) /\ Keyed(jobs'[i])
    BY DEF DInv, HInv, RowsKeyed
  <2>8. \E reported : /\ TargetOK(jobs', k, wanted[k], remote[k], reported)
                      /\ k \in WatchKey => reported = SyncOf(k)'
    <3>1. CASE k \in WatchKey
      BY <1>2, <2>1, <2>2, <2>4, <2>5, <2>6, <2>7, <3>1, LeaveOK
    <3>2. CASE k \notin WatchKey
      <4>1. TargetOK(jobs', k, wanted[k], remote[k], jobs'[j].status)
        BY <1>2, <2>1, <2>2, <2>4, <2>5, <2>7, LeaveOK
      <4> QED
        BY <3>2, <4>1
    <3> QED
      BY <3>1, <3>2
  <2> QED
    BY <2>8 DEF TargetOK
<1> QED
  BY <1>4, <1>5

LEMMA CommitDelivers ==
  ASSUME DInv, ~ClientOverlap, NEW w \in Worker, Commit(w)
  PROVE  DeliveryOK'
<1>1. TypeOK /\ WorkerStep(w) /\ w \in Session /\ Unit(w) \in SUBSET Held(w) /\ Held(w) \subseteq Job
  BY UnitHeld DEF DInv, HInv, IInv, WorkerStep, Session, Held
<1>2. /\ pc[w] \in {"settling", "throttled", "releasing"} /\ Undisturbed
      /\ UNCHANGED <<wanted, remote, live, tx>>
  BY DEF Commit
<1>3. PICK S \in SUBSET Held(w) : /\ S = Unit(w) \/ (S = Held(w) /\ UNCHANGED <<jobs, sync>>)
                                  /\ S = Unit(w) => \/ UNCHANGED <<jobs, sync>>
                                                    \/ /\ jobs' = Flush(w) /\ UniqueWaiting(Flush(w))
                                                       /\ sync' = IF pc[w] = "releasing" THEN sync
                                                                  ELSE SyncAfter(draft[w], Unit(w) \ Missing(w, Unit(w)))
                                  /\ Drop(w, S)
  <2>1. CASE UniqueWaiting(Flush(w)) /\ jobs' = Flush(w) /\ Drop(w, Unit(w))
    BY <1>1, <2>1 DEF Commit
  <2>2. CASE Drop(w, Held(w)) /\ UNCHANGED <<jobs, sync>>
    BY <2>2
  <2> QED
    BY <2>1, <2>2 DEF Commit
<1>4. /\ \A j \in Job : draft'[w][j] = Absent /\ loaded'[w][j] = IF j \in Held(w) \ S THEN loaded[w][j] ELSE Absent
      /\ \A v \in Session \ {w} : draft'[v] = draft[v] /\ loaded'[v] = loaded[v]
  BY <1>1, <1>3 DEF Drop, TypeOK, NoCopies
<1>5. \A j \in Job \ S : jobs'[j] = jobs[j]
  BY <1>3, FlushUnit
<1>6. RowsKeyed'
  <2> SUFFICES ASSUME NEW j \in Unit(w), jobs' = Flush(w)
               PROVE  Keyed(jobs'[j])
    BY <1>3, <1>5 DEF DInv, RowsKeyed
  <2>1. Alike(jobs'[j], draft[w][j]) /\ j \in Held(w) /\ SoundDraft(w, j)
    BY <1>1, FlushUnit DEF DInv, SoundDrafts
  <2>2. Alike(jobs[j], loaded[w][j]) /\ Keyed(jobs[j]) /\ jobs[j].status = "in_progress"
    BY <2>1, HeldBusy DEF DInv, RowsKeyed
  <2> QED
    BY <2>1, <2>2 DEF Keyed, Alike, SoundDraft, Active
<1>7. TargetsOK'
  <2>1. CASE UNCHANGED <<jobs, sync>>
    BY <1>2, <2>1 DEF DInv, TargetsOK, Alive, SyncOf
  <2>2. CASE ~UNCHANGED <<jobs, sync>>
    <3> SUFFICES ASSUME NEW k \in Key \ EntryKey, Alive(k)'
                 PROVE  TargetOK(jobs', k, wanted'[k], remote'[k], SyncOf(k)')
      BY DEF TargetsOK
    <3>1. Alive(k)
      BY <1>2 DEF Alive
    <3> QED
      BY <1>2, <1>3, <1>6, <2>2, <3>1, CommitTargets
  <2> QED
    BY <2>1, <2>2
<1>8. HeldAlike'
  <2>1. \A v \in Worker \ {w} : loaded'[v] = loaded[v]
    BY <1>1, WorkerFrame
  <2>2. \A j \in S : \A v \in Worker : j \in Held(v) => v = w
    BY DEF DInv, HInv, HeldInProgress
  <2> QED
    BY <1>1, <1>4, <1>5, <2>1, <2>2, HeldStays
<1>9. SoundDrafts'
  <2> SUFFICES ASSUME NEW v \in Worker, NEW j \in Unit(v)'
               PROVE  SoundDraft(v, j)'
    BY DEF SoundDrafts
  <2>1. v # w
    BY <1>4 DEF Unit
  <2>2. /\ loaded'[v] = loaded[v] /\ draft'[v] = draft[v] /\ pc'[v] = pc[v] /\ sends'[v] = sends[v]
    BY <1>1, <2>1, WorkerFrame
  <2>3. SoundDraft(v, j)
    BY <2>2 DEF Unit, DInv, SoundDrafts
  <2>4. \A k : Of(jobs, k, Waiting) # {} => Of(jobs', k, Waiting) # {}
    BY <1>5, WaitersStay
  <2> QED
    BY <1>2, <2>2, <2>3, <2>4, OthersSound
<1>10. SoundTx'
  BY <1>2, <1>4, SessionsApart, NoTxSound
<1> QED
  BY <1>6, <1>7, <1>8, <1>9, <1>10 DEF DeliveryOK

\* A stale job waits again, or makes way for one that waits.
LEMMA RecoveredAlike ==
  ASSUME DInv, NEW S \in SUBSET Stale
  PROVE  /\ \A j \in S : LET row == Recovered(S)[j]
                             k == jobs[j].target
                         IN /\ row.target = k /\ row.payload = jobs[j].payload
                            /\ row.status \in {"pending", "superseded"}
                            /\ row.status = "pending" => row.key = jobs[j].key
                            /\ row.status = "superseded" => Of(jobs, k, Waiting) # {}
         /\ \A j \in Job \ S : Recovered(S)[j] = jobs[j]
         /\ \A j \in Job : Keyed(Recovered(S)[j])
<1>1. ASSUME NEW row \in Row
      PROVE  Alike([row EXCEPT !.stale = FALSE], row)
  BY DEF Row, Alike
<1>2. ASSUME NEW j \in S
      PROVE  LET row == Recovered(S)[j]
                 k == jobs[j].target
             IN /\ row.target = k /\ row.payload = jobs[j].payload
                /\ row.status \in {"pending", "superseded"}
                /\ row.status = "pending" => row.key = jobs[j].key
                /\ row.status = "superseded" => Of(jobs, k, Waiting) # {}
  <2> DEFINE new == Requeued(jobs, j, jobs[j], FALSE)
  <2>1. j \in Job /\ jobs[j] \in Row /\ jobs[j].status = "in_progress"
    BY DEF Stale, DInv, HInv, IInv, TypeOK
  <2>2. Recovered(S)[j] = [new EXCEPT !.stale = FALSE]
    BY <2>1 DEF Recovered
  <2>3. new \in Row
    BY <2>1, RequeuedIsRow
  <2>4. /\ new.target = jobs[j].target /\ new.payload = jobs[j].payload
        /\ \/ new.status = "pending" /\ new.key = jobs[j].key
           \/ new.status = "superseded" /\ HasSuccessor(jobs, j, jobs[j].key)
    BY <2>1, RequeuedFields
  <2>5. HasSuccessor(jobs, j, jobs[j].key) => Of(jobs, jobs[j].target, Waiting) # {}
    BY <2>1, SuccessorWaits DEF DInv, Active
  <2> HIDE DEF new
  <2>6. Alike(Recovered(S)[j], new)
    BY <1>1, <2>2, <2>3
  <2> QED
    BY <2>4, <2>5, <2>6 DEF Alike
<1>3. \A j \in Job \ S : Recovered(S)[j] = jobs[j]
  BY DEF Recovered
<1>4. \A j \in S : j \in Job /\ jobs[j].status = "in_progress" /\ Keyed(jobs[j])
  BY DEF Stale, DInv, RowsKeyed
<1>5. \A j \in Job \ S : Keyed(jobs[j])
  BY DEF DInv, RowsKeyed
<1>6. \A j \in Job : Keyed(Recovered(S)[j])
  BY <1>2, <1>3, <1>4, <1>5 DEF Keyed, Active, Waiting
<1> QED
  BY <1>2, <1>3, <1>6

LEMMA RecoverTargets ==
  ASSUME DInv, NEW S \in SUBSET Stale, UniqueWaiting(Recovered(S)), sync' = SyncAfter(Recovered(S), S),
         NEW k \in Key \ EntryKey, Alive(k)
  PROVE  \E reported : /\ TargetOK(Recovered(S), k, wanted[k], remote[k], reported)
                       /\ k \in WatchKey => reported = sync'[k]
<1> DEFINE table == Recovered(S)
<1>1. /\ \A j \in S : /\ table[j].target = jobs[j].target /\ table[j].payload = jobs[j].payload
                      /\ table[j].status \in {"pending", "superseded"}
                      /\ table[j].status = "superseded" => Of(jobs, jobs[j].target, Waiting) # {}
      /\ \A j \in Job \ S : table[j] = jobs[j]
      /\ \A j \in Job : Keyed(table[j])
  BY RecoveredAlike
<1>2. /\ TargetOK(jobs, k, wanted[k], remote[k], SyncOf(k)) /\ OneInProgress(jobs)
      /\ \A j \in Job : Keyed(jobs[j])
  BY DEF DInv, HInv, TargetsOK, RowsKeyed
<1>3. \A j \in S : j \in Job /\ jobs[j].status = "in_progress"
  BY DEF Stale
<1> HIDE DEF table
<1>4. CASE \A j \in S : jobs[j].target # k
  <2>1. SameRows(jobs, table, k)
    BY <1>1, <1>4 DEF SameRows
  <2>2. k \in WatchKey => SyncAfter(table, S)[k] = sync[k]
    BY <1>1, <1>4, SyncAfterNone
  <2> QED
    BY <1>2, <2>1, <2>2, SameRowsOK DEF SyncOf, table
<1>5. ASSUME NEW j \in S, jobs[j].target = k
      PROVE  \E reported : /\ TargetOK(table, k, wanted[k], remote[k], reported)
                           /\ k \in WatchKey => reported = sync'[k]
  <2>1. \A i \in S : jobs[i].target = k => i = j
    BY <1>2, <1>3, <1>5, OneBusy DEF Of
  <2>2. k \in WatchKey => SyncAfter(table, S)[k] = IF table[j].status = "superseded" THEN sync[k] ELSE table[j].status
    <3>1. table[j].target = k /\ \A i \in S : table[i].target = k => i = j
      BY <1>1, <1>5, <2>1
    <3> QED
      BY <3>1, SyncAfterOne
  <2> DEFINE reported == IF table[j].status = "superseded" THEN SyncOf(k) ELSE table[j].status
  <2>3. table[j].status \in Waiting \cup Terminal /\ table[j].status # "succeeded"
        /\ (table[j].status = "superseded" \/ table[j].status \in Waiting)
    BY <1>1 DEF Waiting, Terminal
  <2>4. \A i \in Job \ {j} : jobs[i].target = k \/ table[i].target = k => table[i] = jobs[i]
    BY <1>1, <2>1
  <2>5. UniqueWaiting(table) /\ j \in Job
    BY <1>3 DEF table
  <2>6. TargetOK(table, k, wanted[k], remote[k], reported)
    <3>1. \/ reported = table[j].status
          \/ reported = SyncOf(k) /\ table[j].status \in Waiting \cup {"superseded"}
      BY <2>3
    <3> HIDE DEF reported
    <3> QED
      BY <1>1, <1>2, <1>3, <1>5, <2>3, <2>4, <2>5, <3>1, LeaveOK
  <2> QED
    BY <2>2, <2>6 DEF SyncOf, table
<1> QED
  BY <1>4, <1>5 DEF table

LEMMA ClaimDelivers ==
  ASSUME DInv, ~ClientOverlap, NEW w \in Worker, Claim(w)
  PROVE  DeliveryOK'
<1>1. TypeOK /\ WorkerStep(w) /\ w \in Session /\ pc[w] = "idle" /\ Undisturbed
  BY DEF DInv, HInv, IInv, WorkerStep, Session, Claim
<1> PICK S \in SUBSET Stale : RecoverAndTake(w, S)
  BY DEF Claim
<1> DEFINE table == Recovered(S)
           C == Due(table)
<1>2. /\ UniqueWaiting(table) /\ jobs' = Taken(table, C) /\ sync' = SyncAfter(table, S)
      /\ loaded' = [loaded EXCEPT ![w] = [j \in Job |-> IF j \in C THEN Taken(table, C)[j] ELSE Absent]]
      /\ UNCHANGED <<wanted, remote, live, draft, tx>>
  BY DEF RecoverAndTake
<1>3. /\ \A j \in S : j \in Job /\ jobs[j].status = "in_progress" /\ jobs[j].stale
      /\ \A j \in Job \ S : table[j] = jobs[j]
      /\ \A j \in Job : Keyed(table[j])
      /\ \A j \in S : table[j].status \in {"pending", "superseded"}
  BY RecoveredAlike DEF Stale
<1>4. C \in SUBSET Claimable(table)
  BY DEF Due, Oldest, Claimable
<1>5. \A k \in Key \ EntryKey : Alive(k) =>
          \E reported : /\ TargetOK(table, k, wanted[k], remote[k], reported)
                        /\ k \in WatchKey => reported = sync'[k]
  BY <1>2, RecoverTargets
<1>6. \A j \in Job : table[j] \in Row
  <2>1. ASSUME NEW row \in Row
        PROVE  [row EXCEPT !.stale = FALSE] \in Row
    BY DEF Row
  <2>2. \A j \in Job : jobs[j] \in Row /\ Requeued(jobs, j, jobs[j], FALSE) \in Row
    BY <1>1, RequeuedIsRow DEF TypeOK
  <2>3. ASSUME NEW j \in S
        PROVE  table[j] \in Row
    <3>1. Requeued(jobs, j, jobs[j], FALSE) \in Row
      BY <1>3, <2>2
    <3>2. table[j] = [Requeued(jobs, j, jobs[j], FALSE) EXCEPT !.stale = FALSE]
      BY <1>3 DEF Recovered
    <3> QED
      BY <2>1, <3>1, <3>2
  <2> HIDE DEF table
  <2> QED
    BY <1>3, <2>2, <2>3
<1> HIDE DEF table, C
<1>7. /\ \A j \in C : /\ j \in Job /\ jobs'[j].status = "in_progress" /\ jobs'[j].target = table[j].target
                      /\ jobs'[j].payload = table[j].payload /\ jobs'[j].key = table[j].key
                      /\ table[j].status \in Waiting
      /\ \A j \in Job \ C : jobs'[j] = table[j]
  <2>1. ASSUME NEW row \in Row
        PROVE  LET new == [row EXCEPT !.status = "in_progress"]
               IN new.status = "in_progress" /\ new.target = row.target /\ new.payload = row.payload /\ new.key = row.key
    BY DEF Row
  <2>2. \A j \in C : j \in Job /\ jobs'[j] = [table[j] EXCEPT !.status = "in_progress"] /\ table[j].status \in Waiting
    BY <1>2, <1>4 DEF Taken, Claimable
  <2>3. \A j \in Job \ C : jobs'[j] = table[j]
    BY <1>2 DEF Taken
  <2>4. \A j \in C : table[j] \in Row
    BY <1>6, <2>2
  <2> QED
    BY <2>1, <2>2, <2>3, <2>4
<1>8. TargetsOK'
  <2> SUFFICES ASSUME NEW k \in Key \ EntryKey, Alive(k)'
               PROVE  TargetOK(jobs', k, wanted'[k], remote'[k], SyncOf(k)')
    BY DEF TargetsOK
  <2>1. Alive(k)
    BY <1>2 DEF Alive
  <2>2. PICK reported : /\ TargetOK(table, k, wanted[k], remote[k], reported)
                        /\ k \in WatchKey => reported = sync'[k]
    BY <1>5, <2>1
  <2>3. TargetOK(jobs', k, wanted[k], remote[k], reported)
    <3>1. \A j \in C : /\ jobs'[j].status = "in_progress" /\ jobs'[j].target = table[j].target
                       /\ jobs'[j].payload = table[j].payload
      BY <1>7
    <3>2. \A j \in Job \ C : jobs'[j] = table[j]
      BY <1>7
    <3>3. \A j \in Job : Keyed(table[j])
      BY <1>3
    <3> QED
      BY <1>4, <2>2, <3>1, <3>2, <3>3, TakeOK
  <2> QED
    BY <1>2, <2>2, <2>3 DEF TargetOK, SyncOf
<1>9. RowsKeyed'
  BY <1>3, <1>7 DEF RowsKeyed, Keyed, Active
<1>10. /\ \A j \in Job : loaded'[w][j] = IF j \in C THEN jobs'[j] ELSE Absent
       /\ \A v \in Worker \ {w} : loaded'[v] = loaded[v]
  BY <1>1, <1>2, WorkerFrame DEF TypeOK
<1>11. \A v \in Worker \ {w} : \A j \in Held(v) : j \in Job /\ j \notin S /\ j \notin C /\ jobs'[j] = jobs[j]
  <2> SUFFICES ASSUME NEW v \in Worker \ {w}, NEW j \in Held(v)
               PROVE  j \in Job /\ j \notin S /\ j \notin C /\ jobs'[j] = jobs[j]
    OBVIOUS
  <2>1. j \in Job /\ jobs[j].status = "in_progress" /\ j \notin S
    BY <1>3, HeldBusy DEF DInv, HInv, HeldInProgress
  <2> QED
    BY <1>3, <1>7, <2>1 DEF Waiting
<1>12. HeldAlike'
  <2> SUFFICES ASSUME NEW v \in Worker, NEW j \in Held(v)'
               PROVE  Alike(jobs'[j], loaded'[v][j])
    BY DEF HeldAlike
  <2>1. CASE v = w
    BY <1>10, <2>1 DEF Held, Alike
  <2>2. CASE v # w
    BY <1>10, <1>11, <2>2 DEF Held, DInv, HeldAlike
  <2> QED
    BY <2>1, <2>2
<1>13. SoundDrafts'
  <2> SUFFICES ASSUME NEW v \in Worker, NEW j \in Unit(v)'
               PROVE  SoundDraft(v, j)'
    BY DEF SoundDrafts
  <2>1. v # w /\ j \in Unit(v) /\ SoundDraft(v, j) /\ j \in Held(v)
    BY <1>1, <1>2, UnitHeld DEF Unit, DInv, HInv, WorkerDrafts, SoundDrafts
  <2>2. /\ loaded'[v] = loaded[v] /\ draft'[v] = draft[v] /\ pc'[v] = pc[v] /\ sends'[v] = sends[v]
    BY <1>1, <2>1, WorkerFrame
  <2> DEFINE k == loaded[v][j].target
  <2>3. k \notin EntryKey /\ Of(jobs, k, Waiting) # {} => Of(jobs', k, Waiting) # {}
    <3> SUFFICES ASSUME k \notin EntryKey, NEW i \in Of(jobs, k, Waiting)
                 PROVE  Of(jobs', k, Waiting) # {}
      OBVIOUS
    <3>1. i \in Job /\ i \notin S /\ jobs[i].status \in Waiting /\ jobs[i].target = k /\ jobs[i].key = k /\ k # NoKey
      <4>1. i \in Job /\ jobs[i].status \in Waiting /\ jobs[i].target = k /\ i \notin S
        BY <1>3 DEF Of, Waiting
      <4> QED
        BY <4>1, KeyAssumption DEF DInv, RowsKeyed, Keyed, Active
    <3>2. j \in Job /\ j \notin S /\ jobs[j].status = "in_progress" /\ jobs[j].key = k
      BY <1>11, <2>1, HeldBusy DEF Alike, DInv, RowsKeyed, Keyed, Active
    <3>3. i \notin C
      BY <1>3, <1>4, <3>1, <3>2 DEF Claimable
    <3> QED
      BY <1>3, <1>7, <3>1, <3>3 DEF Of
  <2> QED
    BY <1>2, <2>1, <2>2, <2>3, OthersSound
<1>14. SoundTx'
  BY <1>1, <1>2, NoTxSound
<1> QED
  BY <1>8, <1>9, <1>12, <1>13, <1>14 DEF DeliveryOK

LEMMA WorkerDelivers ==
  ASSUME DInv, ~ClientOverlap, NEW w \in Worker, WorkerStep(w)
  PROVE  DeliveryOK'
  BY PrepareDelivers, ClaimDelivers, RetireDelivers, CommitDelivers DEF WorkerStep

-----------------------------------------------------------------------------
(* The client, and time. *)

OneClient == \A c, d \in Client : c = d

\* Rows that stay alike, or are the client's own, keep what workers hold and prepared sound.
LEMMA WorkersStaySound ==
  ASSUME DInv, \A w \in Worker : loaded'[w] = loaded[w] /\ draft'[w] = draft[w],
         UNCHANGED <<pc, sends, remote>>, live' \subseteq live,
         \A j \in Job : jobs[j].status = "in_progress" => Alike(jobs'[j], jobs[j]),
         \A k \in Key \ EntryKey : Alive(k)' /\ Of(jobs, k, Waiting) # {} => Of(jobs', k, Waiting) # {}
  PROVE  HeldAlike' /\ SoundDrafts'
<1>1. HeldAlike'
  <2> SUFFICES ASSUME NEW w \in Worker, NEW j \in Held(w)'
               PROVE  Alike(jobs'[j], loaded'[w][j])
    BY DEF HeldAlike
  <2>1. j \in Held(w) /\ j \in Job
    BY DEF Held
  <2> QED
    BY <2>1, HeldBusy DEF Alike
<1>2. SoundDrafts'
  <2> SUFFICES ASSUME NEW w \in Worker, NEW j \in Unit(w)'
               PROVE  SoundDraft(w, j)'
    BY DEF SoundDrafts
  <2>1. j \in Unit(w) /\ j \in Held(w) /\ SoundDraft(w, j)
    BY UnitHeld DEF Unit, DInv, SoundDrafts
  <2>2. loaded[w][j].target \in Key
    BY <2>1, HeldBusy
  <2> QED
    BY <2>1, <2>2, OthersSound
<1> QED
  BY <1>1, <1>2

\* A read changes neither rows nor what workers prepared.
LEMMA ReadDelivers ==
  ASSUME DInv, NEW c \in Client, ClientStep(c), UNCHANGED <<jobs, wanted, remote, live, sync>>
  PROVE  TargetsOK' /\ RowsKeyed' /\ HeldAlike' /\ SoundDrafts'
<1>1. TargetsOK' /\ RowsKeyed'
  BY DEF DInv, TargetsOK, RowsKeyed, Alive, SyncOf
<1>2. /\ UNCHANGED <<pc, sends, remote>>
      /\ \A w \in Worker : loaded'[w] = loaded[w] /\ draft'[w] = draft[w]
  BY ClientFrame DEF DInv, HInv, IInv
<1> QED
  BY <1>1, <1>2, WorkersStaySound DEF Alike

\* A key's active jobs are its target's, but for ratings queued under none.
LEMMA MatchesTarget ==
  ASSUME DInv, NEW k \in Key, NEW j \in Job, jobs[j].status \in Active
  PROVE  /\ jobs[j].key = k => jobs[j].target = k
         /\ jobs[j].target = k /\ k \notin EntryKey => jobs[j].key = k
  BY KeyAssumption DEF DInv, RowsKeyed, Keyed

\* An enqueue's three ways: it changes the job that waits, adds one, or finds the payload
\* in progress.
LEMMA EnqueueShapes ==
  ASSUME DInv, NEW c \in Client, NEW k \in Key, NEW p \in Payload, EnqueueRead(c, k, p)
  PROVE  \/ \E j \in Job : /\ Load(c, j, jobs[j], Coalesced(jobs[j], p)) /\ jobs[j] \in Row
                           /\ jobs[j].key = k /\ jobs[j].target = k /\ jobs[j].status \in Waiting
         \/ \E j \in Job, key \in {k, NoKey} :
               /\ Load(c, j, Absent, NewRow(k, key, p)) /\ jobs[j] = Absent
               /\ k \notin EntryKey => key = k /\ Of(jobs, k, Waiting) = {}
         \/ /\ UNCHANGED <<loaded, draft>> /\ k \notin EntryKey /\ Of(jobs, k, Waiting) = {}
            /\ \E j \in Of(jobs, k, {"in_progress"}) : k \in SuccessorKey => jobs[j].payload = p
<1> DEFINE matches == {j \in Job : jobs[j].key = k /\ jobs[j].status \in Active}
           waiting == {j \in matches : jobs[j].status # "in_progress"}
           Insert(key) == \E j \in FreshId : /\ \A i \in FreshId : j <= i
                                             /\ Load(c, j, Absent, NewRow(k, key, p))
<1>1. \/ \E j \in waiting : Load(c, j, jobs[j], Coalesced(jobs[j], p))
      \/ /\ waiting = {}
         /\ \E j \in matches :
              \/ k \in EntryKey /\ Insert(NoKey)
              \/ /\ k \notin EntryKey
                 /\ k \notin SuccessorKey \/ jobs[j].payload = p
                 /\ UNCHANGED <<loaded, draft>>
              \/ k \in SuccessorKey \ EntryKey /\ jobs[j].payload # p /\ Insert(k)
      \/ matches = {} /\ Insert(k)
  BY DEF EnqueueRead
<1>2. \A j \in waiting : /\ j \in Job /\ jobs[j] \in Row /\ jobs[j].key = k /\ jobs[j].target = k
                         /\ jobs[j].status \in Waiting
  <2>1. \A j \in waiting : jobs[j].status \in Waiting /\ jobs[j].status \in Active
    BY DEF Active
  <2> QED
    BY <2>1, MatchesTarget DEF DInv, HInv, IInv, TypeOK
<1>3. ASSUME waiting = {}, k \notin EntryKey
      PROVE  Of(jobs, k, Waiting) = {}
  <2>1. \A j \in Of(jobs, k, Waiting) : j \in waiting
    BY <1>3, MatchesTarget DEF Of, Active, Waiting
  <2> QED
    BY <1>3, <2>1
<1>4. ASSUME NEW j \in matches, waiting = {}, k \notin EntryKey
      PROVE  j \in Of(jobs, k, {"in_progress"})
  BY <1>4, MatchesTarget DEF Of
<1>5. ASSUME NEW key, Insert(key)
      PROVE  \E j \in Job : Load(c, j, Absent, NewRow(k, key, p)) /\ jobs[j] = Absent
  <2>1. PICK j \in FreshId : Load(c, j, Absent, NewRow(k, key, p))
    BY <1>5
  <2>2. j \in Job /\ jobs[j] = Absent
    BY <2>1 DEF FreshId, Job
  <2> QED
    BY <2>1, <2>2
<1>6. matches = {} => waiting = {}
  OBVIOUS
<1> HIDE DEF matches, waiting, Insert
<1> QED
  BY <1>1, <1>2, <1>3, <1>4, <1>5, <1>6

LEMMA EnqueueReadDelivers ==
  ASSUME DInv, OneClient, NEW c \in Client, NEW k \in Key, NEW p \in Payload, EnqueueRead(c, k, p)
  PROVE  SoundTx'
<1>1. c \in Session /\ TypeOK /\ \A j \in Job : draft[c][j] = Absent
  BY DEF Session, DInv, HInv, IInv, ClientDrafts, EnqueueRead
<1>2. /\ tx'[c].op = "put" /\ tx'[c].key = k /\ tx'[c].payload = p
      /\ k \in WatchKey => tx'[c].sync = sync[k]
      /\ UNCHANGED <<jobs, sync>>
  BY <1>1 DEF EnqueueRead, TypeOK
<1>3. \A d \in Client : d = c
  BY DEF OneClient
<1>4. ASSUME NEW j \in Job, NEW old, NEW new, Load(c, j, old, new)
      PROVE  /\ loaded'[c][j] = old /\ draft'[c][j] = new
             /\ \A i \in Job \ {j} : draft'[c][i] = Absent
  BY <1>1, <1>4 DEF Load, TypeOK
<1>5. ASSUME NEW j \in Job, Load(c, j, jobs[j], Coalesced(jobs[j], p)), jobs[j] \in Row,
             jobs[j].key = k, jobs[j].target = k, jobs[j].status \in Waiting
      PROVE  SoundTx'
  <2>1. ASSUME NEW row \in Row
        PROVE  LET new == Coalesced(row, p)
               IN new.target = row.target /\ new.key = row.key /\ new.payload = p /\ new.status = "pending"
    BY DEF Coalesced, Row
  <2>2. /\ draft'[c][j].target = k /\ draft'[c][j].key = k /\ draft'[c][j].payload = p
        /\ draft'[c][j].status = "pending" /\ draft'[c][j] # Absent /\ loaded'[c][j] = jobs[j]
        /\ \A i \in Job \ {j} : draft'[c][i] = Absent
    <3>1. draft'[c][j] = Coalesced(jobs[j], p) /\ loaded'[c][j] = jobs[j]
      BY <1>4, <1>5
    <3>2. /\ draft'[c][j].target = k /\ draft'[c][j].key = k /\ draft'[c][j].payload = p
          /\ draft'[c][j].status = "pending"
      BY <1>5, <2>1, <3>1
    <3>3. draft'[c][j] # Absent
      BY <3>2 DEF Absent
    <3> QED
      BY <1>4, <1>5, <3>1, <3>2, <3>3
  <2>3. SoundCopies(c)'
    BY <1>2, <1>5, <2>2 DEF SoundCopies, Keyed, Alike, Absent, Waiting
  <2>4. k \notin EntryKey => Of(jobs, k, Waiting) \subseteq {j}
    <3>1. j \in Of(jobs, k, Waiting) /\ UniqueWaiting(jobs) /\ \A i \in Job : Keyed(jobs[i])
      BY <1>5 DEF Of, DInv, HInv, RowsKeyed
    <3> QED
      BY <3>1, OneWaits
  <2>5. SoundPut(c)'
    BY <1>2, <2>2, <2>4 DEF SoundPut
  <2> QED
    BY <1>2, <1>3, <2>3, <2>5 DEF SoundTx
<1>6. ASSUME NEW j \in Job, NEW key \in {k, NoKey}, Load(c, j, Absent, NewRow(k, key, p)), jobs[j] = Absent,
             k \notin EntryKey => key = k /\ Of(jobs, k, Waiting) = {}
      PROVE  SoundTx'
  <2>1. LET new == NewRow(k, key, p)
        IN new.target = k /\ new.key = key /\ new.payload = p /\ new.status = "pending"
    BY DEF NewRow, Absent
  <2>2. /\ draft'[c][j].target = k /\ draft'[c][j].key = key /\ draft'[c][j].payload = p
        /\ draft'[c][j].status = "pending" /\ draft'[c][j] # Absent /\ loaded'[c][j] = Absent
        /\ \A i \in Job \ {j} : draft'[c][i] = Absent
    <3>1. draft'[c][j] = NewRow(k, key, p) /\ loaded'[c][j] = Absent
      BY <1>4, <1>6
    <3>2. /\ draft'[c][j].target = k /\ draft'[c][j].key = key /\ draft'[c][j].payload = p
          /\ draft'[c][j].status = "pending"
      BY <2>1, <3>1
    <3>3. draft'[c][j] # Absent
      BY <3>2 DEF Absent
    <3> QED
      BY <1>4, <1>6, <3>1, <3>2, <3>3
  <2>3. SoundCopies(c)'
    BY <1>2, <1>6, <2>2 DEF SoundCopies, Keyed
  <2>4. SoundPut(c)'
    BY <1>2, <1>6, <2>2 DEF SoundPut
  <2> QED
    BY <1>2, <1>3, <2>3, <2>4 DEF SoundTx
<1>7. ASSUME UNCHANGED <<loaded, draft>>, k \notin EntryKey, Of(jobs, k, Waiting) = {},
             \E j \in Of(jobs, k, {"in_progress"}) : k \in SuccessorKey => jobs[j].payload = p
      PROVE  SoundTx'
  <2>1. SoundCopies(c)' /\ SoundPut(c)'
    BY <1>1, <1>2, <1>7 DEF SoundCopies, SoundPut
  <2> QED
    BY <1>2, <1>3, <2>1 DEF SoundTx
<1> QED
  BY <1>5, <1>6, <1>7, EnqueueShapes

LEMMA DeleteReadDelivers ==
  ASSUME DInv, OneClient, NEW c \in Client, NEW k \in Key, DeleteRead(c, k)
  PROVE  SoundTx'
<1> DEFINE queued == {j \in Job : jobs[j].target = k /\ jobs[j].status \in Waiting}
<1>1. c \in Session /\ TypeOK /\ k \in WatchKey
  BY DEF Session, DInv, HInv, IInv, DeleteRead, TypeOK
<1>2. /\ tx'[c].op = "delete" /\ tx'[c].key = k /\ jobs' = jobs
      /\ \A j \in Job : /\ loaded'[c][j] = IF j \in queued THEN jobs[j] ELSE Absent
                        /\ draft'[c][j] = IF j \in queued THEN Retired(jobs[j]) ELSE Absent
  BY <1>1 DEF DeleteRead, TypeOK, NoTx
<1>3. \A j \in queued : jobs[j] \in Row /\ jobs[j].target = k /\ jobs[j] # Absent
  BY <1>1 DEF TypeOK, Absent, Waiting
<1> HIDE DEF queued
<1>4. SoundCopies(c)'
  BY <1>2, <1>3, RetiredAlike DEF SoundCopies, Keyed, Alike, Active, Waiting
<1> QED
  BY <1>1, <1>2, <1>4 DEF SoundTx, OneClient

\* A commit leaves the other targets' rows alone.
LEMMA CommitRows ==
  ASSUME DInv, NEW c \in Client, jobs' = Flush(c)
  PROVE  /\ RowsKeyed'
         /\ \A k \in Key : k # tx[c].key => SameRows(jobs, jobs', k)
         /\ \A j \in Job : jobs[j].status = "in_progress" => jobs'[j] = jobs[j]
<1>1. \A j \in Job : IF draft[c][j] # Absent THEN Alike(jobs'[j], draft[c][j]) ELSE jobs'[j] = jobs[j]
  BY FlushClient
<1>2. \A j \in Job : draft[c][j] # Absent =>
          /\ draft[c][j].target = tx[c].key /\ Keyed(draft[c][j])
          /\ jobs[j].target \in {NoKey, tx[c].key} /\ jobs[j].status # "in_progress"
  <2> SUFFICES ASSUME NEW j \in Job, draft[c][j] # Absent
               PROVE  /\ draft[c][j].target = tx[c].key /\ Keyed(draft[c][j])
                      /\ jobs[j].target \in {NoKey, tx[c].key} /\ jobs[j].status # "in_progress"
    OBVIOUS
  <2>1. /\ draft[c][j].target = tx[c].key /\ Keyed(draft[c][j])
        /\ jobs[j] = Absent \/ jobs[j].target = tx[c].key
    BY DEF DInv, SoundTx, SoundCopies, Alike
  <2>2. jobs[j].status # "in_progress"
    BY DEF DInv, HInv, ClientDrafts
  <2>3. Absent.target = NoKey
    BY DEF Absent
  <2> QED
    BY <2>1, <2>2, <2>3
<1>3. \A j \in Job : Keyed(jobs'[j])
  BY <1>1, <1>2 DEF DInv, RowsKeyed, Keyed, Alike
<1>4. ASSUME NEW k \in Key, k # tx[c].key
      PROVE  SameRows(jobs, jobs', k)
  BY <1>1, <1>2, <1>4, KeyAssumption DEF SameRows, Alike
<1> QED
  BY <1>1, <1>2, <1>3, <1>4 DEF RowsKeyed

\* The transaction is over.
LEMMA EndTxSound ==
  ASSUME DInv, OneClient, NEW c \in Client, EndTx(c)
  PROVE  SoundTx'
<1>1. tx'[c].op = "none" /\ \A j \in Job : draft'[c][j] = Absent
  BY DEF EndTx, NoTx, NoCopies, DInv, HInv, IInv, TypeOK, Session
<1> QED
  BY <1>1 DEF SoundTx, SoundCopies, OneClient

LEMMA EnqueueCommitDelivers ==
  ASSUME DInv, OneClient, NEW c \in Client, EnqueueCommit(c)
  PROVE  DeliveryOK'
<1> DEFINE k == tx[c].key
           p == tx[c].payload
<1>1. /\ TypeOK /\ ClientStep(c) /\ EndTx(c) /\ SoundPut(c) /\ SoundCopies(c) /\ k \in Key
      /\ UNCHANGED <<remote, live, pc, sends>>
  BY DEF DInv, HInv, IInv, ClientStep, EnqueueCommit, SoundTx, SoundPut
<1>2. SoundTx'
  BY <1>1, EndTxSound
<1>3. CASE UNCHANGED <<jobs, wanted, sync>>
  BY <1>1, <1>2, <1>3, ReadDelivers DEF DeliveryOK
<1>4. CASE /\ jobs' = Flush(c) /\ UniqueWaiting(Flush(c))
           /\ wanted' = [wanted EXCEPT ![k] = p]
           /\ sync' = IF k \in WatchKey /\ tx[c].sync # "pending" THEN [sync EXCEPT ![k] = "pending"] ELSE sync
  <2>1. /\ RowsKeyed' /\ \A n \in Key : n # k => SameRows(jobs, jobs', n)
        /\ \A j \in Job : jobs[j].status = "in_progress" => jobs'[j] = jobs[j]
    BY <1>4, CommitRows
  <2>2. /\ wanted'[k] = p /\ \A n \in Key \ {k} : wanted'[n] = wanted[n]
        /\ k \in WatchKey => sync'[k] = "pending"
        /\ \A n \in WatchKey \ {k} : sync'[n] = sync[n]
    BY <1>1, <1>4 DEF TypeOK, SoundPut
  <2>3. \A j \in Job : IF draft[c][j] # Absent THEN Alike(jobs'[j], draft[c][j]) ELSE jobs'[j] = jobs[j]
    BY <1>4, FlushClient
  <2>4. \A j \in Job : draft[c][j] # Absent => draft[c][j].target = k
    BY <1>1 DEF SoundCopies
  <2> HIDE DEF k, p
  <2>5. ASSUME k \notin EntryKey
        PROVE  \E j \in Job : /\ jobs'[j].target = k /\ (k \in SuccessorKey => jobs'[j].payload = p)
                              /\ \/ jobs'[j].status = "pending" /\ Of(jobs', k, Waiting) = {j}
                                 \/ jobs'[j].status = "in_progress" /\ Of(jobs', k, Waiting) = {}
    <3>1. CASE \E j \in Job : /\ {i \in Job : draft[c][i] # Absent} = {j} /\ Of(jobs, k, Waiting) \subseteq {j}
                              /\ draft[c][j].status = "pending" /\ draft[c][j].payload = p
      <4>1. PICK j \in Job : /\ {i \in Job : draft[c][i] # Absent} = {j} /\ Of(jobs, k, Waiting) \subseteq {j}
                             /\ draft[c][j].status = "pending" /\ draft[c][j].payload = p
        BY <3>1
      <4>2. draft[c][j] # Absent /\ \A i \in Job \ {j} : draft[c][i] = Absent
        BY <4>1
      <4>3. jobs'[j].target = k /\ jobs'[j].payload = p /\ jobs'[j].status = "pending"
        BY <2>3, <2>4, <4>1, <4>2 DEF Alike
      <4>4. Of(jobs', k, Waiting) = {j}
        BY <2>3, <4>1, <4>2, <4>3 DEF Of, Waiting
      <4> QED
        BY <4>3, <4>4
    <3>2. CASE /\ {i \in Job : draft[c][i] # Absent} = {} /\ Of(jobs, k, Waiting) = {}
               /\ \E j \in Of(jobs, k, {"in_progress"}) : k \in SuccessorKey => jobs[j].payload = p
      <4>1. \A i \in Job : jobs'[i] = jobs[i]
        BY <2>3, <3>2
      <4> QED
        BY <3>2, <4>1 DEF Of
    <3> QED
      BY <1>1, <2>5, <3>1, <3>2 DEF SoundPut, k, p
  <2>6. TargetsOK'
    <3> SUFFICES ASSUME NEW n \in Key \ EntryKey, Alive(n)'
                 PROVE  TargetOK(jobs', n, wanted'[n], remote'[n], SyncOf(n)')
      BY DEF TargetsOK
    <3>1. CASE n # k
      <4>1. TargetOK(jobs, n, wanted[n], remote[n], SyncOf(n))
        BY <1>1 DEF DInv, TargetsOK, Alive
      <4> QED
        BY <1>1, <2>1, <2>2, <3>1, <4>1, SameRowsOK DEF SyncOf
    <3>2. CASE n = k
      <4>1. /\ OneInProgress(jobs') /\ \A i \in Job : Keyed(jobs'[i])
        BY <1>1, <2>1, ClientHolds DEF RowsKeyed, DInv
      <4>2. SyncOf(n)' = "pending" \/ n \notin WatchKey
        BY <2>2, <3>2 DEF SyncOf
      <4>3. PICK j \in Job : /\ jobs'[j].target = n /\ (n \in SuccessorKey => jobs'[j].payload = p)
                             /\ \/ jobs'[j].status = "pending" /\ Of(jobs', n, Waiting) \subseteq {j}
                                \/ jobs'[j].status = "in_progress" /\ Of(jobs', n, Waiting) = {}
        BY <2>5, <3>2
      <4>4. TargetOK(jobs', n, p, remote'[n], SyncOf(n)')
        BY <4>1, <4>2, <4>3, QueueOK
      <4> QED
        BY <2>2, <3>2, <4>4
    <3> QED
      BY <3>1, <3>2
  <2>7. \A n \in Key \ EntryKey : Of(jobs, n, Waiting) # {} => Of(jobs', n, Waiting) # {}
    <3> SUFFICES ASSUME NEW n \in Key \ EntryKey, Of(jobs, n, Waiting) # {}
                 PROVE  Of(jobs', n, Waiting) # {}
      OBVIOUS
    <3>1. CASE n # k
      BY <2>1, <3>1, SameRowsOf
    <3>2. CASE n = k
      <4>1. CASE \A j \in Job : draft[c][j] = Absent
        BY <2>3, <4>1 DEF Of
      <4>2. CASE ~ \A j \in Job : draft[c][j] = Absent
        <5>1. PICK j \in Job : draft[c][j].status = "pending" /\ draft[c][j] # Absent
          BY <1>1, <3>2, <4>2 DEF SoundPut, k
        <5> QED
          BY <2>3, <2>4, <3>2, <5>1 DEF Of, Alike, Waiting
      <4> QED
        BY <4>1, <4>2
    <3> QED
      BY <3>1, <3>2
  <2>8. HeldAlike' /\ SoundDrafts'
    <3>1. \A w \in Worker : loaded'[w] = loaded[w] /\ draft'[w] = draft[w]
      BY <1>1, ClientFrame
    <3> QED
      BY <1>1, <2>1, <2>7, <3>1, WorkersStaySound DEF Alike
  <2> QED
    BY <1>2, <2>1, <2>6, <2>8 DEF DeliveryOK
<1> QED
  BY <1>3, <1>4 DEF EnqueueCommit

LEMMA DeleteCommitDelivers ==
  ASSUME DInv, OneClient, NEW c \in Client, DeleteCommit(c)
  PROVE  DeliveryOK'
<1> DEFINE k == tx[c].key
<1>1. /\ TypeOK /\ ClientStep(c) /\ EndTx(c) /\ k \in WatchKey
      /\ jobs' = Flush(c) /\ live' = live \ {k}
      /\ UNCHANGED <<wanted, remote, sync, pc, sends>>
  BY DEF DInv, HInv, IInv, ClientStep, DeleteCommit, SoundTx
<1>2. /\ RowsKeyed' /\ \A n \in Key : n # k => SameRows(jobs, jobs', n)
      /\ \A j \in Job : jobs[j].status = "in_progress" => jobs'[j] = jobs[j]
  BY <1>1, CommitRows
<1> HIDE DEF k
<1>3. \A n \in Key : Alive(n)' => Alive(n) /\ n # k
  BY <1>1 DEF Alive
<1>4. TargetsOK'
  <2> SUFFICES ASSUME NEW n \in Key \ EntryKey, Alive(n)'
               PROVE  TargetOK(jobs', n, wanted'[n], remote'[n], SyncOf(n)')
    BY DEF TargetsOK
  <2>1. TargetOK(jobs, n, wanted[n], remote[n], SyncOf(n)) /\ SyncOf(n)' = SyncOf(n)
    BY <1>1, <1>3 DEF DInv, TargetsOK, SyncOf
  <2> QED
    BY <1>1, <1>2, <1>3, <2>1, SameRowsOK
<1>5. \A n \in Key \ EntryKey : Alive(n)' /\ Of(jobs, n, Waiting) # {} => Of(jobs', n, Waiting) # {}
  BY <1>2, <1>3, SameRowsOf
<1>6. HeldAlike' /\ SoundDrafts'
  <2>1. \A w \in Worker : loaded'[w] = loaded[w] /\ draft'[w] = draft[w]
    BY <1>1, ClientFrame
  <2> QED
    BY <1>1, <1>2, <1>5, <2>1, WorkersStaySound DEF Alike
<1> QED
  BY <1>1, <1>2, <1>4, <1>6, EndTxSound DEF DeliveryOK

LEMMA ClientDelivers ==
  ASSUME DInv, OneClient, NEW c \in Client, ClientStep(c)
  PROVE  DeliveryOK'
<1>1. ASSUME NEW k \in Key, NEW p \in Payload, EnqueueRead(c, k, p)
      PROVE  DeliveryOK'
  <2>1. UNCHANGED <<jobs, wanted, remote, live, sync>>
    BY <1>1 DEF EnqueueRead
  <2> QED
    BY <1>1, <2>1, EnqueueReadDelivers, ReadDelivers DEF DeliveryOK
<1>2. ASSUME NEW k \in Key, DeleteRead(c, k)
      PROVE  DeliveryOK'
  <2>1. UNCHANGED <<jobs, wanted, remote, live, sync>>
    BY <1>2 DEF DeleteRead
  <2> QED
    BY <1>2, <2>1, DeleteReadDelivers, ReadDelivers DEF DeliveryOK
<1> QED
  BY <1>1, <1>2, EnqueueCommitDelivers, DeleteCommitDelivers DEF ClientStep

LEMMA EnvironmentDelivers ==
  ASSUME DInv, Environment \/ UNCHANGED vars
  PROVE  DeliveryOK'
<1>1. UNCHANGED <<wanted, remote, live, sync, loaded, draft, pc, sends, tx>>
  BY DEF Environment, ImportStart, ImportEnd, Age, Elapse, vars
<1>2. ASSUME NEW i \in Job
      PROVE  Alike(jobs'[i], jobs[i]) /\ (jobs[i] = Absent => jobs'[i] = Absent)
  <2>1. jobs[i] \in Row /\ jobs \in [Job -> Row]
    BY DEF DInv, HInv, IInv, TypeOK
  <2>2. ASSUME NEW row \in Row
        PROVE  Alike([row EXCEPT !.stale = TRUE], row) /\ Alike([row EXCEPT !.later = FALSE], row)
    BY DEF Row, Alike
  <2>3. \/ jobs'[i] = jobs[i]
        \/ jobs'[i] = [jobs[i] EXCEPT !.stale = TRUE] /\ jobs[i].status = "in_progress"
        \/ jobs'[i] = [jobs[i] EXCEPT !.later = FALSE] /\ jobs[i].later
    BY <2>1 DEF Environment, ImportStart, ImportEnd, Age, Elapse, vars
  <2>4. Alike(jobs'[i], jobs[i])
    BY <2>1, <2>2, <2>3 DEF Alike
  <2>5. jobs[i] = Absent => jobs[i].status # "in_progress" /\ ~jobs[i].later
    BY DEF Absent
  <2> QED
    BY <2>3, <2>4, <2>5
<1>3. \A k : SameRows(jobs, jobs', k)
  BY <1>2 DEF SameRows, Alike
<1>4. TargetsOK'
  <2> SUFFICES ASSUME NEW k \in Key \ EntryKey, Alive(k)'
               PROVE  TargetOK(jobs', k, wanted'[k], remote'[k], SyncOf(k)')
    BY DEF TargetsOK
  <2>1. TargetOK(jobs, k, wanted[k], remote[k], SyncOf(k)) /\ SyncOf(k)' = SyncOf(k)
    BY <1>1 DEF DInv, TargetsOK, Alive, SyncOf
  <2> QED
    BY <1>1, <1>3, <2>1, SameRowsOK
<1>5. RowsKeyed'
  BY <1>2 DEF DInv, RowsKeyed, Keyed, Alike
<1>6. HeldAlike' /\ SoundDrafts'
  <2>1. \A k : Of(jobs', k, Waiting) = Of(jobs, k, Waiting)
    BY <1>3, SameRowsOf
  <2> QED
    BY <1>1, <1>2, <2>1, WorkersStaySound
<1>7. SoundTx'
  <2> SUFFICES ASSUME NEW c \in Client
               PROVE  SoundCopies(c)' /\ (tx[c].op = "put" => SoundPut(c)')
    BY <1>1 DEF SoundTx, DInv
  <2>1. SoundCopies(c) /\ (tx[c].op = "put" => SoundPut(c))
    BY DEF DInv, SoundTx
  <2>2. SoundCopies(c)'
    BY <1>1, <1>2, <2>1 DEF SoundCopies, Alike
  <2>3. \A k, S : Of(jobs', k, S) = Of(jobs, k, S)
    BY <1>3, SameRowsOf
  <2>4. \A k, S : \A j \in Of(jobs, k, S) : jobs'[j].payload = jobs[j].payload
    BY <1>2 DEF Alike, Of
  <2>5. tx[c].op = "put" => SoundPut(c)'
    BY <1>1, <2>1, <2>3, <2>4 DEF SoundPut
  <2> QED
    BY <2>2, <2>5
<1> QED
  BY <1>4, <1>5, <1>6, <1>7 DEF DeliveryOK

LEMMA DInvStep ==
  ASSUME ~SlowWorkers, ~ClientOverlap, OneClient
  PROVE  DInv /\ [Next]_vars => DInv'
<1> SUFFICES ASSUME DInv, [Next]_vars
             PROVE  DInv'
  OBVIOUS
<1>1. HInv'
  BY HInvStep DEF DInv
<1>2. DeliveryOK'
  BY WorkerDelivers, ClientDelivers, EnvironmentDelivers DEF Next
<1> QED
  BY <1>1, <1>2 DEF DInv, DeliveryOK

LEMMA InitDelivers == Init => DInv
<1> SUFFICES ASSUME Init PROVE DInv
  OBVIOUS
<1>1. HInv
  BY InitHolds
<1>2. /\ \A j \in Job : jobs[j] = Absent /\ Absent.status = "absent"
      /\ \A s \in Session, j \in Job : loaded[s][j] = Absent /\ draft[s][j] = Absent
      /\ \A c \in Client : tx[c].op = "none"
      /\ \A k \in WatchKey : sync[k] = "none"
  BY DEF Init, NoCopies, Absent, NoTx
<1>3. \A k : /\ Of(jobs, k, Waiting) = {} /\ Of(jobs, k, Active) = {} /\ Of(jobs, k, {"in_progress"}) = {}
             /\ Of(jobs, k, {"succeeded"}) = {}
  BY <1>2 DEF Of, Waiting, Active
<1>4. TargetsOK
  BY <1>2, <1>3 DEF TargetsOK, TargetOK, NewestQueued, NewestStored, Reported, SyncOf
<1>5. RowsKeyed /\ HeldAlike /\ SoundDrafts
  BY <1>2 DEF RowsKeyed, Keyed, HeldAlike, SoundDrafts, Held, Unit, Session, Active, Waiting
<1>6. SoundTx
  BY <1>2 DEF SoundTx, SoundCopies, Session
<1> QED
  BY <1>1, <1>4, <1>5, <1>6 DEF DInv

LEMMA DeliveryInvariance ==
  ASSUME ~SlowWorkers, ~ClientOverlap, OneClient
  PROVE  Spec => []DInv
<1> QED
  BY InitDelivers, DInvStep, PTL DEF Spec

\* Once nothing is queued for an update's target and its newest payload's jobs are reported
\* as done, the provider stores that payload, whatever was coalesced, superseded, retried,
\* released, requeued or lost with a crash on the way.
THEOREM NewestIsDelivered ==
  ASSUME ~SlowWorkers, ~ClientOverlap, OneClient
  PROVE  Spec => []NewestDelivered
<1>1. DInv => NewestDelivered
  <2> SUFFICES ASSUME DInv, NEW k \in UpdateKey, Quiet(k), k \in WatchKey => k \in live,
                      \A j \in Job : jobs[j].target = k /\ jobs[j].payload = wanted[k] =>
                                     jobs[j].status # "failed_permanent",
                      NEW i \in Job, jobs[i].target = k, jobs[i].payload = wanted[k],
                      jobs[i].status = "succeeded"
               PROVE  remote[k] = wanted[k]
    BY DEF NewestDelivered
  <2>1. k \in Key \ EntryKey /\ k \in SuccessorKey /\ Alive(k)
    BY KeyAssumption DEF UpdateKey, Alive
  <2>2. NewestStored(jobs, k, wanted[k], remote[k])
    BY <2>1 DEF DInv, TargetsOK, TargetOK
  <2>3. Of(jobs, k, Active) = {} /\ i \in Of(jobs, k, {"succeeded"})
    BY DEF Quiet, Of
  <2>4. \A j \in Of(jobs, k, {"failed_permanent"}) : jobs[j].payload # wanted[k]
    BY DEF Of
  <2> QED
    BY <2>2, <2>3, <2>4 DEF NewestStored
<1> QED
  BY <1>1, DeliveryInvariance, PTL

\* The WatchSync status of a live watch never stays "pending" with no job or open change left
\* to settle it, be it the watch's play or an update.
THEOREM PendingIsServed ==
  ASSUME ~SlowWorkers, ~ClientOverlap, OneClient
  PROVE  Spec => [](PendingUpdateHasJob /\ PendingHasJob(WatchKey))
<1>1. DInv => PendingHasJob(WatchKey)
  <2> SUFFICES ASSUME DInv, NEW k \in live, k \in WatchKey, sync[k] = "pending"
               PROVE  ~Quiet(k)
    BY DEF PendingHasJob
  <2>1. k \in Key \ EntryKey /\ Alive(k) /\ SyncOf(k) = "pending"
    BY KeyAssumption DEF Alive, SyncOf
  <2>2. Reported(jobs, k, wanted[k], remote[k], "pending")
    BY <2>1 DEF DInv, TargetsOK, TargetOK
  <2>3. Of(jobs, k, Active) # {}
    BY <2>2 DEF Reported
  <2> QED
    BY <2>3 DEF Of, Quiet
<1>2. DInv /\ PendingHasJob(WatchKey) => PendingUpdateHasJob
  <2>1. DInv => live \subseteq WatchKey
    BY DEF DInv, HInv, IInv, TypeOK
  <2> QED
    BY <2>1 DEF PendingHasJob, PendingUpdateHasJob
<1> QED
  BY <1>1, <1>2, DeliveryInvariance, PTL

\* A live watch with nothing queued whose WatchSync status says "succeeded" is stored at the
\* provider as the user last changed it.
THEOREM SucceededIsCurrent ==
  ASSUME ~SlowWorkers, ~ClientOverlap, OneClient
  PROVE  Spec => []SucceededUpdateIsCurrent
<1>1. DInv => SucceededUpdateIsCurrent
  <2> SUFFICES ASSUME DInv, NEW k \in live, k \in UpdateKey, sync[k] = "succeeded", Quiet(k)
               PROVE  remote[k] = wanted[k]
    BY DEF SucceededUpdateIsCurrent
  <2>1. k \in WatchKey
    BY DEF DInv, HInv, IInv, TypeOK
  <2>2. k \in Key \ EntryKey /\ k \in SuccessorKey /\ Alive(k) /\ SyncOf(k) = "succeeded"
    BY <2>1, KeyAssumption DEF UpdateKey, Alive, SyncOf
  <2>3. Reported(jobs, k, wanted[k], remote[k], "succeeded")
    BY <2>1, <2>2 DEF DInv, TargetsOK, TargetOK
  <2>4. Of(jobs, k, Active) = {}
    BY DEF Of, Quiet
  <2> QED
    BY <2>2, <2>3, <2>4 DEF Reported
<1> QED
  BY <1>1, DeliveryInvariance, PTL

=============================================================================
