------------------------------- MODULE Outbox -------------------------------
(***************************************************************************)
(* The outbox: the table of provider deliveries, the transactions that     *)
(* queue and cancel jobs (core/watch_pipeline.py) and the workers that     *)
(* claim, deliver and finish them (jobs/process_outbox.py).                *)
(*                                                                         *)
(* A database session keeps ORM copies of the rows it loaded.  Sessions    *)
(* are opened with autoflush=False and expire_on_commit=False              *)
(* (db/session.py), so a copy is never refreshed, and a commit writes      *)
(* only the columns the session changed.  loaded[s][j] is the row as       *)
(* session s read it and draft[s][j] the row as s has changed it; Flush    *)
(* is the resulting UPDATE.  Everything between a read and the commit      *)
(* that follows it may interleave with the other sessions, save where a    *)
(* row lock forbids it.                                                    *)
(***************************************************************************)
EXTENDS Naturals, FiniteSets

CONSTANTS
    Worker,         \* outbox worker loops, in one or several processes
    Client,         \* API requests and imports that change watches and queue jobs
    Key,            \* delivery targets: what a dedupe_key identifies
    SuccessorKey,   \* targets of the job types in SUCCESSOR_JOB_TYPES
    WatchKey,       \* targets of the job types in WATCH_PUSH_JOB_TYPES
    EntryKey,       \* targets of jobs with a state_entry_id (independent ratings)
    BatchKey,       \* targets one provider request can deliver together
    Payload,        \* what a job asks the provider to store
    NoKey, NoPayload,
    MaxJobs,        \* bound: rows the table ever holds
    MaxAttempts,    \* settings.outbox_max_attempts
    ClaimLimit,     \* process_outbox_once's limit
    BatchSize,      \* _get_provider_max_batch_size
    MaxDisruptions, \* bound: crashes, shutdowns and imports
    Limited,        \* the provider has a rate limit bucket
    SlowWorkers,    \* a worker may outlive outbox_stale_minutes
    ClientOverlap   \* worker transactions may commit inside a client's

ASSUME KeyAssumption ==
    /\ SuccessorKey \subseteq Key /\ WatchKey \subseteq Key
    /\ EntryKey \subseteq Key     /\ BatchKey \subseteq Key
    /\ EntryKey \cap WatchKey = {} /\ EntryKey \cap BatchKey = {}
    /\ NoKey \notin Key /\ NoPayload \notin Payload
ASSUME SessionAssumption == Worker \cap Client = {}
ASSUME BoundAssumption ==
    /\ MaxJobs \in Nat /\ MaxAttempts \in Nat \ {0}
    /\ ClaimLimit \in Nat /\ BatchSize \in Nat /\ MaxDisruptions \in Nat
    /\ Limited \in BOOLEAN /\ SlowWorkers \in BOOLEAN /\ ClientOverlap \in BOOLEAN

AuthRetryAttempts == 2

VARIABLES
    jobs,        \* the outbox table, by job id; ids grow with created_at
    wanted,      \* what the user's data asks of each target
    remote,      \* what the provider stores for each target
    live,        \* the watches that exist
    sync,        \* WatchSync.status of each watch's delivery
    importing,   \* an import or merge blocks the user's outbox
    loaded, draft, \* ORM copies of each session, as read and as changed
    pc,          \* where each worker is
    sends,       \* the jobs of its unit whose request a worker sends
    tx,          \* what each client's open transaction does
    disruptions

vars == <<jobs, wanted, remote, live, sync, importing, loaded, draft, pc,
          sends, tx, disruptions>>

Job == 1 .. MaxJobs
Session == Worker \cup Client

Waiting == {"pending", "failed_retryable"}
Active == Waiting \cup {"in_progress"}
Terminal == {"succeeded", "failed_permanent", "superseded"}
SyncStatus == {"none", "pending", "succeeded", "failed_retryable", "failed_permanent"}

Row == [status : Active \cup Terminal \cup {"absent"}, target : Key \cup {NoKey},
        key : Key \cup {NoKey}, payload : Payload \cup {NoPayload},
        attempts : Nat, later : BOOLEAN, stale : BOOLEAN]

Absent == [status |-> "absent", target |-> NoKey, key |-> NoKey, payload |-> NoPayload,
           attempts |-> 0, later |-> FALSE, stale |-> FALSE]

NewRow(k, key, p) == [Absent EXCEPT !.status = "pending", !.target = k, !.key = key, !.payload = p]

NoCopies == [j \in Job |-> Absent]
NoTx == [op |-> "none", key |-> NoKey, payload |-> NoPayload, sync |-> "none"]

TypeOK ==
    /\ jobs \in [Job -> Row]
    /\ wanted \in [Key -> Payload \cup {NoPayload}]
    /\ remote \in [Key -> Payload \cup {NoPayload}]
    /\ live \subseteq WatchKey
    /\ sync \in [WatchKey -> SyncStatus]
    /\ importing \in BOOLEAN
    /\ loaded \in [Session -> [Job -> Row]]
    /\ draft \in [Session -> [Job -> Row]]
    /\ pc \in [Worker -> {"idle", "ready", "sending", "settling", "throttled", "releasing"}]
    /\ sends \in [Worker -> SUBSET Job]
    /\ tx \in [Client -> [op : {"none", "put", "delete"}, key : Key \cup {NoKey},
                          payload : Payload \cup {NoPayload}, sync : SyncStatus]]
    /\ disruptions \in 0 .. MaxDisruptions

Init ==
    /\ jobs = NoCopies
    /\ wanted = [k \in Key |-> NoPayload]
    /\ remote = [k \in Key |-> NoPayload]
    /\ live = WatchKey
    /\ sync = [k \in WatchKey |-> "none"]
    /\ importing = FALSE
    /\ loaded = [s \in Session |-> NoCopies]
    /\ draft = [s \in Session |-> NoCopies]
    /\ pc = [w \in Worker |-> "idle"]
    /\ sends = [w \in Worker |-> {}]
    /\ tx = [c \in Client |-> NoTx]
    /\ disruptions = 0

(***************************************************************************)
(* Sessions.                                                               *)
(***************************************************************************)

\* The jobs a worker has claimed and not finished, and those of its current unit.
Held(w) == {j \in Job : loaded[w][j] # Absent}
Unit(w) == {j \in Job : draft[w][j] # Absent}

\* The UPDATE or INSERT of one row: only changed columns are written; a written
\* row gets a fresh updated_at.
Written(row, old, new) ==
    IF old = Absent THEN new
    ELSE [status   |-> IF new.status = old.status THEN row.status ELSE new.status,
          target   |-> row.target,
          key      |-> IF new.key = old.key THEN row.key ELSE new.key,
          payload  |-> IF new.payload = old.payload THEN row.payload ELSE new.payload,
          attempts |-> IF new.attempts = old.attempts THEN row.attempts ELSE new.attempts,
          later    |-> IF new.later = old.later THEN row.later ELSE new.later,
          stale    |-> FALSE]

Flush(s) == [j \in Job |-> IF draft[s][j] = Absent THEN jobs[j]
                           ELSE Written(jobs[j], loaded[s][j], draft[s][j])]

\* The partial unique index uq_outbox_dedupe_key_waiting.
UniqueWaiting(table) ==
    \A i, j \in Job : /\ table[i].status \in Waiting /\ table[j].status \in Waiting
                      /\ table[i].key = table[j].key /\ table[i].key # NoKey
                      => i = j

\* A deletion holds its watch exclusively; a worker shares the live watches of its
\* unit from the liveness check to the commit; a rating's state entry is locked by the
\* transaction that changes it and by the delivery that checked it.
Deleting(k) == \E c \in Client : tx[c].op = "delete" /\ tx[c].key = k
\* Mutant: only the unit's oldest watch is locked.
SharingFirst(w, k) ==
    /\ pc[w] \in {"sending", "settling", "throttled"}
    /\ \E j \in Unit(w) : loaded[w][j].target = k /\ \A i \in Unit(w) : j <= i

Sharing(w, k) == /\ pc[w] \in {"sending", "settling", "throttled"}
                 /\ \E j \in Unit(w) : loaded[w][j].target = k
\* Mutant: the delivery locks the entry only after the provider answered.
EntryLockedLate(k) ==
    /\ k \in EntryKey
    /\ \E w \in Worker : pc[w] = "settling" /\ \E j \in Unit(w) : loaded[w][j].target = k
EntryLockedByWorker(k) ==
    /\ k \in EntryKey
    /\ \E w \in Worker : pc[w] \in {"sending", "settling"} /\ \E j \in Unit(w) : loaded[w][j].target = k
EntryLockedByClient(k) == k \in EntryKey /\ \E c \in Client : tx[c].op = "put" /\ tx[c].key = k

Undisturbed == ClientOverlap \/ \A c \in Client : tx[c] = NoTx

(***************************************************************************)
(* Clients: enqueue_outbox_job and the deletion of a watch.                *)
(***************************************************************************)

\* The newest row id not yet used by the table or by an insert that is still open.
FreshId == {j \in Job : \A i \in j .. MaxJobs : /\ jobs[i] = Absent
                                               /\ \A s \in Session : draft[s][i] = Absent}

\* The session's copies after it read row j and set the row to new.
Load(s, j, old, new) ==
    /\ loaded' = [loaded EXCEPT ![s][j] = old]
    /\ draft' = [draft EXCEPT ![s][j] = new]

\* Mutant: a waiting job keeps its old payload.
CoalescedOld(row, p) == [row EXCEPT !.status = "pending", !.later = FALSE]
Coalesced(row, p) == [row EXCEPT !.payload = p, !.status = "pending", !.later = FALSE]

\* enqueue_outbox_job, up to the flush.  A rating's state entry was written, and so
\* locked, earlier in the same transaction.
EnqueueRead(c, k, p) ==
    LET matches == {j \in Job : jobs[j].key = k /\ jobs[j].status \in Active}
        waiting == {j \in matches : jobs[j].status # "in_progress"}
        Insert(key) == \E j \in FreshId : /\ \A i \in FreshId : j <= i
                                          /\ Load(c, j, Absent, NewRow(k, key, p))
    IN /\ tx[c] = NoTx
       /\ k \in WatchKey => k \in live
       /\ ~EntryLockedByWorker(k) /\ ~EntryLockedByClient(k)
       /\ \/ \E j \in waiting : Load(c, j, jobs[j], Coalesced(jobs[j], p))
          \/ /\ waiting = {}
             /\ \E j \in matches :
                  \/ k \in EntryKey /\ Insert(NoKey)
                  \/ /\ k \notin EntryKey
                     /\ k \notin SuccessorKey \/ jobs[j].payload = p
                     /\ UNCHANGED <<loaded, draft>>
                  \/ k \in SuccessorKey \ EntryKey /\ jobs[j].payload # p /\ Insert(k)
          \/ matches = {} /\ Insert(k)
       /\ tx' = [tx EXCEPT ![c] = [op |-> "put", key |-> k, payload |-> p,
                                   sync |-> IF k \in WatchKey THEN sync[k] ELSE "none"]]
       /\ UNCHANGED <<jobs, wanted, remote, live, sync, importing, pc, sends, disruptions>>

EndTx(c) ==
    /\ tx' = [tx EXCEPT ![c] = NoTx]
    /\ loaded' = [loaded EXCEPT ![c] = NoCopies]
    /\ draft' = [draft EXCEPT ![c] = NoCopies]

\* The commit of the change and its job; a second waiting row for the key makes the
\* unique index abort the whole transaction.
EnqueueCommit(c) ==
    LET k == tx[c].key
    IN /\ tx[c].op = "put"
       /\ \/ /\ UniqueWaiting(Flush(c))
             /\ jobs' = Flush(c)
             /\ wanted' = [wanted EXCEPT ![k] = tx[c].payload]
             /\ sync' = IF k \in WatchKey /\ tx[c].sync # "pending"
                        THEN [sync EXCEPT ![k] = "pending"] ELSE sync
          \/ ~UniqueWaiting(Flush(c)) /\ UNCHANGED <<jobs, wanted, sync>>
       /\ EndTx(c)
       /\ UNCHANGED <<remote, live, importing, pc, sends, disruptions>>

Retired(row) == [row EXCEPT !.status = "superseded", !.key = NoKey, !.later = FALSE]

\* lock_watches_for_deletion, then cancel_queued_pushes.
DeleteRead(c, k) ==
    LET queued == {j \in Job : jobs[j].target = k /\ jobs[j].status \in Waiting}
    IN /\ tx[c] = NoTx /\ k \in live
       /\ ~Deleting(k) /\ \A w \in Worker : ~Sharing(w, k)
       /\ loaded' = [loaded EXCEPT ![c] = [j \in Job |-> IF j \in queued THEN jobs[j] ELSE Absent]]
       /\ draft' = [draft EXCEPT ![c] = [j \in Job |-> IF j \in queued THEN Retired(jobs[j]) ELSE Absent]]
       /\ tx' = [tx EXCEPT ![c] = [NoTx EXCEPT !.op = "delete", !.key = k]]
       /\ UNCHANGED <<jobs, wanted, remote, live, sync, importing, pc, sends, disruptions>>

DeleteCommit(c) ==
    /\ tx[c].op = "delete"
    /\ jobs' = Flush(c)
    /\ live' = live \ {tx[c].key}
    /\ EndTx(c)
    /\ UNCHANGED <<wanted, remote, sync, importing, pc, sends, disruptions>>

(***************************************************************************)
(* Workers: process_outbox_once.                                           *)
(***************************************************************************)

\* Another job with the same key waits in table (_has_waiting_successor).
HasSuccessor(table, j, key) ==
    key # NoKey /\ \E i \in Job \ {j} : table[i].key = key /\ table[i].status \in Waiting

\* _requeue_job, for a row or an ORM copy of it.
Requeued(table, j, row, later) ==
    IF HasSuccessor(table, j, row.key) THEN Retired(row)
    ELSE [row EXCEPT !.status = "pending", !.later = later]

\* Mutant: recovery looks for waiting rows.
StalePending == {j \in Job : jobs[j].status = "pending" /\ jobs[j].stale}
\* _recover_stale_jobs: the table after the stale rows were requeued, and the rows.
Stale == {j \in Job : jobs[j].status = "in_progress" /\ jobs[j].stale}
Recovered(S) == [j \in Job |-> IF j \in S THEN [Requeued(jobs, j, jobs[j], FALSE) EXCEPT !.stale = FALSE]
                               ELSE jobs[j]]

\* Mutant: successors are claimed while their predecessor is in progress.
ClaimableAnyKey(table) == {j \in Job : table[j].status \in Waiting /\ ~table[j].later}
Claimable(table) ==
    {j \in Job : /\ table[j].status \in Waiting /\ ~table[j].later
                 /\ ~\E i \in Job : /\ table[i].key = table[j].key /\ table[j].key # NoKey
                                    /\ table[i].status = "in_progress"}
Oldest(S, n) == {j \in S : Cardinality({i \in S : i < j}) < n}

\* Mutant: only a success is reported.
SyncAfterSuccess(rows, S) ==
    [k \in WatchKey |-> IF \E j \in S : rows[j].target = k /\ rows[j].status = "succeeded"
                        THEN "succeeded" ELSE sync[k]]
\* WatchSync.status once the rows in S are written: superseded rows report nothing.
SyncAfter(rows, S) ==
    LET Reports(j, k) == rows[j].target = k /\ rows[j].status # "superseded"
    IN [k \in WatchKey |-> IF \E j \in S : Reports(j, k)
                           THEN rows[CHOOSE j \in S : Reports(j, k)].status ELSE sync[k]]

\* The oldest jobs that are due, unless an import blocks the user.
Due(table) == IF importing THEN {} ELSE Oldest(Claimable(table), ClaimLimit)
Taken(table, C) == [j \in Job |-> IF j \in C THEN [table[j] EXCEPT !.status = "in_progress"] ELSE table[j]]

RecoverAndTake(w, S) ==
    LET table == Recovered(S)
        C == Due(table)
    IN /\ S \cup C # {} /\ UniqueWaiting(table)
       /\ jobs' = Taken(table, C)
       /\ sync' = SyncAfter(table, S)
       /\ loaded' = [loaded EXCEPT ![w] = [j \in Job |-> IF j \in C THEN Taken(table, C)[j] ELSE Absent]]
       /\ pc' = [pc EXCEPT ![w] = IF C = {} THEN "idle" ELSE "ready"]
       /\ UNCHANGED <<wanted, remote, live, importing, draft, sends, tx, disruptions>>

\* One transaction: requeue as many stale rows as the limit allows, then claim.
Claim(w) ==
    /\ pc[w] = "idle" /\ Undisturbed
    /\ \E S \in SUBSET Stale : /\ Cardinality(S) <= ClaimLimit /\ (S = Stale \/ Cardinality(S) = ClaimLimit)
                               /\ RecoverAndTake(w, S)

\* Batches go first, each cut to the provider's size; what is left goes one by one.
NextUnit(w) ==
    LET batch == {j \in Held(w) : loaded[w][j].target \in BatchKey}
    IN IF Cardinality(batch) >= 2 /\ BatchSize >= 2 THEN Oldest(batch, BatchSize) ELSE Oldest(Held(w), 1)
Missing(w, U) == {j \in U : loaded[w][j].target \in WatchKey \ live}
BucketFree(w) == Limited => \A v \in Worker \ {w} : pc[v] \notin {"sending", "settling", "throttled"}
Changed(w, U, New(_)) ==
    [draft EXCEPT ![w] = [j \in Job |-> IF j \in Missing(w, U) THEN Retired(loaded[w][j])
                                        ELSE IF j \in U THEN New(j) ELSE Absent]]

\* _lock_live_watches waits for a deletion in progress; the unit then needs a bucket.
CanStart(w, U) ==
    /\ pc[w] = "ready" /\ U \subseteq Held(w) /\ U \ Missing(w, U) # {}
    /\ \A j \in U : ~Deleting(loaded[w][j].target)
    /\ BucketFree(w)

\* Every watch of the unit is gone: nothing is sent.
Retire(w) ==
    LET U == NextUnit(w)
        rest == Held(w) \ U
    IN /\ pc[w] = "ready" /\ U = Missing(w, U) /\ Undisturbed
       /\ jobs' = [j \in Job |-> IF j \in U THEN Written(jobs[j], loaded[w][j], Retired(loaded[w][j])) ELSE jobs[j]]
       /\ loaded' = [loaded EXCEPT ![w] = [j \in Job |-> IF j \in rest THEN loaded[w][j] ELSE Absent]]
       /\ pc' = [pc EXCEPT ![w] = IF rest = {} THEN "idle" ELSE "ready"]
       /\ UNCHANGED <<wanted, remote, live, sync, importing, draft, sends, tx, disruptions>>

\* A token was granted: count the attempt and send, but for a rating only if its
\* state entry still asks for this payload.
Begin(w) ==
    LET U == NextUnit(w)
        Attempt(j) == [loaded[w][j] EXCEPT !.attempts = @ + 1]
    IN /\ CanStart(w, U)
       /\ \A j \in U : LET k == loaded[w][j].target IN ~EntryLockedByWorker(k) /\ ~EntryLockedByClient(k)
       /\ draft' = Changed(w, U, Attempt)
       /\ sends' = [sends EXCEPT ![w] = {j \in U \ Missing(w, U) :
              LET row == loaded[w][j] IN row.target \in EntryKey => row.payload = wanted[row.target]}]
       /\ pc' = [pc EXCEPT ![w] = "sending"]
       /\ UNCHANGED <<jobs, wanted, remote, live, sync, importing, loaded, tx, disruptions>>

\* The rate limiter refused.
Throttle(w) ==
    LET U == NextUnit(w)
        Later(j) == Requeued(jobs, j, loaded[w][j], TRUE)
    IN /\ Limited /\ CanStart(w, U)
       /\ draft' = Changed(w, U, Later)
       /\ pc' = [pc EXCEPT ![w] = "throttled"]
       /\ UNCHANGED <<jobs, wanted, remote, live, sync, importing, loaded, sends, tx, disruptions>>

\* What the provider stores once it has applied the requests of w.
Applied(w) ==
    [k \in Key |-> IF \E j \in sends[w] : loaded[w][j].target = k
                   THEN loaded[w][CHOOSE j \in sends[w] : loaded[w][j].target = k].payload
                   ELSE remote[k]]

\* _finalize_job on an ORM copy; throttled is a 429.
Finalized(j, row, status, throttled) ==
    LET attempts == IF throttled /\ row.attempts > 0 THEN row.attempts - 1 ELSE row.attempts
        tried == IF status = "failed_retryable" /\ attempts >= MaxAttempts THEN "failed_permanent" ELSE status
        final == IF tried = "failed_retryable" /\ HasSuccessor(jobs, j, row.key) THEN "superseded" ELSE tried
    IN [row EXCEPT !.status = final, !.attempts = attempts, !.later = (final = "failed_retryable"),
                   !.key = IF final = "failed_retryable" THEN row.key ELSE NoKey]

\* The unit's outcome, before the commit: Status(row) is the verdict on the answer.
Settle(w, Status(_), throttled) ==
    /\ pc[w] = "sending"
    /\ draft' = [draft EXCEPT ![w] = [j \in Job |->
          IF j \in Unit(w) \ Missing(w, Unit(w))
          THEN Finalized(j, draft[w][j], Status(draft[w][j]), throttled) ELSE draft[w][j]]]
    /\ pc' = [pc EXCEPT ![w] = "settling"]
    /\ UNCHANGED <<jobs, wanted, live, sync, importing, loaded, sends, tx, disruptions>>

\* The provider accepted, or there was nothing to send.
Succeed(w) ==
    LET Status(row) == "succeeded"
    IN Settle(w, Status, FALSE) /\ remote' = Applied(w)

\* A server error or a lost answer: the request may have been applied.
Fail(w) ==
    LET Status(row) == "failed_retryable"
    IN Settle(w, Status, FALSE) /\ sends[w] # {} /\ remote' \in {remote, Applied(w)}

\* The provider refused the request for good.
Reject(w) ==
    LET Status(row) == "failed_permanent"
    IN Settle(w, Status, FALSE) /\ sends[w] # {} /\ UNCHANGED remote

\* 429: try again later without counting the attempt.
TooMany(w) ==
    LET Status(row) == "failed_retryable"
    IN Settle(w, Status, TRUE) /\ sends[w] # {} /\ UNCHANGED remote

\* 401: retried while the attempts allow it, if the stored token could be expired.
Unauthorized(w) ==
    LET Status(row) == IF row.attempts <= AuthRetryAttempts THEN "failed_retryable" ELSE "failed_permanent"
    IN Settle(w, Status, FALSE) /\ sends[w] # {} /\ UNCHANGED remote

\* Shutdown between two units: _release_claimed_jobs.
Release(w) ==
    /\ pc[w] = "ready" /\ disruptions < MaxDisruptions
    /\ draft' = [draft EXCEPT ![w] = [j \in Job |-> IF j \in Held(w) THEN Requeued(jobs, j, loaded[w][j], FALSE)
                                                    ELSE Absent]]
    /\ pc' = [pc EXCEPT ![w] = "releasing"]
    /\ disruptions' = disruptions + 1
    /\ UNCHANGED <<jobs, wanted, remote, live, sync, importing, loaded, sends, tx>>

\* The session is closed: its copies are gone, and so is whatever it had claimed.
Drop(w, S) ==
    LET rest == Held(w) \ S
    IN /\ loaded' = [loaded EXCEPT ![w] = [j \in Job |-> IF j \in rest THEN loaded[w][j] ELSE Absent]]
       /\ draft' = [draft EXCEPT ![w] = NoCopies]
       /\ sends' = [sends EXCEPT ![w] = {}]
       /\ pc' = [pc EXCEPT ![w] = IF rest = {} THEN "idle" ELSE "ready"]

\* The commit of a unit.  A successor inserted since the check makes the unique index
\* refuse a row that goes back to waiting; the error ends the run and strands the rest.
Commit(w) ==
    LET done == Unit(w) \ Missing(w, Unit(w))
    IN /\ pc[w] \in {"settling", "throttled", "releasing"} /\ Undisturbed
       /\ \/ /\ UniqueWaiting(Flush(w))
             /\ jobs' = Flush(w)
             /\ sync' = IF pc[w] = "releasing" THEN sync ELSE SyncAfter(draft[w], done)
             /\ Drop(w, Unit(w))
          \/ ~UniqueWaiting(Flush(w)) /\ Drop(w, Held(w)) /\ UNCHANGED <<jobs, sync>>
       /\ UNCHANGED <<wanted, remote, live, importing, tx, disruptions>>

\* The process dies; a request on the wire may have been applied.
Crash(w) ==
    /\ pc[w] # "idle" /\ disruptions < MaxDisruptions
    /\ remote' \in {remote, Applied(w)} /\ (pc[w] # "sending" => remote' = remote)
    /\ Drop(w, Held(w))
    /\ disruptions' = disruptions + 1
    /\ UNCHANGED <<jobs, wanted, live, sync, importing, tx>>

(***************************************************************************)
(* Time and imports.                                                       *)
(***************************************************************************)

\* outbox_stale_minutes pass since the row was claimed.
Age(j) ==
    /\ jobs[j].status = "in_progress" /\ ~jobs[j].stale
    /\ SlowWorkers \/ \A w \in Worker : j \notin Held(w)
    /\ jobs' = [jobs EXCEPT ![j].stale = TRUE]
    /\ UNCHANGED <<wanted, remote, live, sync, importing, loaded, draft, pc, sends, tx, disruptions>>

\* run_after passes.
Elapse(j) ==
    /\ jobs[j].later
    /\ jobs' = [jobs EXCEPT ![j].later = FALSE]
    /\ UNCHANGED <<wanted, remote, live, sync, importing, loaded, draft, pc, sends, tx, disruptions>>

\* load_blocked_outbox_users: an import or merge of the user is pending, then done.
ImportStart ==
    /\ ~importing /\ disruptions < MaxDisruptions
    /\ importing' = TRUE /\ disruptions' = disruptions + 1
    /\ UNCHANGED <<jobs, wanted, remote, live, sync, loaded, draft, pc, sends, tx>>
ImportEnd ==
    /\ importing /\ importing' = FALSE
    /\ UNCHANGED <<jobs, wanted, remote, live, sync, loaded, draft, pc, sends, tx, disruptions>>

Respond(w) == Succeed(w) \/ Fail(w) \/ Reject(w) \/ TooMany(w) \/ Unauthorized(w)
WorkerStep(w) == \/ Claim(w) \/ Retire(w) \/ Begin(w) \/ Throttle(w) \/ Respond(w)
                 \/ Commit(w) \/ Release(w) \/ Crash(w)
ClientStep(c) == \/ \E k \in Key, p \in Payload : EnqueueRead(c, k, p)
                 \/ \E k \in Key : DeleteRead(c, k)
                 \/ EnqueueCommit(c) \/ DeleteCommit(c)
Environment == ImportStart \/ ImportEnd \/ \E j \in Job : Age(j) \/ Elapse(j)

Next == \/ \E w \in Worker : WorkerStep(w)
        \/ \E c \in Client : ClientStep(c)
        \/ Environment

Spec == Init /\ [][Next]_vars

(***************************************************************************)
(* Properties.                                                             *)
(***************************************************************************)

Quiet(k) == /\ \A j \in Job : jobs[j].target = k => jobs[j].status \notin Active
            /\ \A c \in Client : tx[c].key # k

\* The targets whose newest payload must win.  Independent ratings are compared with the
\* state entry instead, see RatingNeverStale.
UpdateKey == SuccessorKey \ EntryKey

OneHolder(K) ==
    \A v, w \in Worker : \A i \in Held(v), j \in Held(w) :
        loaded[v][i].key = loaded[w][j].key /\ loaded[v][i].key \in K => v = w /\ i = j

\* At most one worker has claimed a job of a target's updates, so the provider never gets
\* two of them out of order (_claim_jobs' in-flight filter together with _requeue_job and
\* _finalize_job, which give way to a waiting successor).
OneHolderPerUpdate == OneHolder(UpdateKey)

\* Once nothing is queued for a target and the newest payload's jobs are reported as
\* done, the provider stores that payload ("a newer payload queued while one is in
\* flight must still be delivered").
NewestDelivered ==
    \A k \in UpdateKey :
        LET newest == {j \in Job : jobs[j].target = k /\ jobs[j].payload = wanted[k]}
        IN /\ Quiet(k) /\ (k \in WatchKey => k \in live)
           /\ \A j \in newest : jobs[j].status # "failed_permanent"
           /\ \E j \in newest : jobs[j].status = "succeeded"
           => remote[k] = wanted[k]

PendingHasJob(K) == \A k \in live \cap K : sync[k] = "pending" => ~Quiet(k)

\* A live watch whose WatchSync row says "pending" has a job that will settle it, or a
\* change on its way: enqueue_new skips a pending row, so nothing else would.
PendingUpdateHasJob == PendingHasJob(UpdateKey)

\* A live watch with nothing queued whose WatchSync row says "succeeded" is stored at the
\* provider as the user last changed it.
SucceededUpdateIsCurrent ==
    \A k \in live \cap UpdateKey : sync[k] = "succeeded" /\ Quiet(k) => remote[k] = wanted[k]

\* Nothing is written to a provider for a watch that has been deleted, whether the
\* push was queued, claimed or being retried when the deletion committed.
NoPushAfterDelete ==
    [][\A k \in WatchKey \ live : remote'[k] = remote[k]]_vars

\* A provider is only ever sent the rating the state entry holds at that moment.
RatingNeverStale ==
    [][\A k \in EntryKey : remote'[k] # remote[k] => remote'[k] = wanted'[k]]_vars

(***************************************************************************)
(* Fairness: worker loops keep polling, open transactions end, requests    *)
(* return or time out, imports finish and time passes.  The rate limiter   *)
(* grants a token again and the provider answers something other than 429  *)
(* again and again, which is strong fairness.                              *)
(***************************************************************************)
Answer(w) == Succeed(w) \/ Fail(w) \/ Reject(w) \/ Unauthorized(w)
Fairness ==
    /\ \A w \in Worker : /\ SF_vars(Claim(w)) /\ WF_vars(Retire(w)) /\ SF_vars(Begin(w))
                         /\ WF_vars(Respond(w)) /\ SF_vars(Answer(w)) /\ WF_vars(Commit(w))
    /\ \A c \in Client : WF_vars(EnqueueCommit(c)) /\ WF_vars(DeleteCommit(c))
    /\ WF_vars(ImportEnd)
    /\ \A j \in Job : WF_vars(Age(j)) /\ WF_vars(Elapse(j))

FairSpec == Spec /\ Fairness

\* Every queued job is delivered, given up or superseded in the end, whatever worker
\* crashes, is shut down or loses a commit while it holds the job.
EveryJobSettles ==
    \A j \in Job : jobs[j].status \in Active ~> jobs[j].status \in Terminal

=============================================================================
