----------------------------- MODULE ImportRuns -----------------------------
(***************************************************************************)
(* The runs of one user's imports: jobs/imports.py with core/import_all.py *)
(* and core/import_control.py, the requests of api/routes_integrations.py  *)
(* and the merge job's loop (jobs/merge_history.py, run_merge_history).    *)
(* What a provider's import does is in HistoryImport.tla.                  *)
(*                                                                         *)
(* Both kinds of run, the schedule, the preferred order and the merge      *)
(* share one JSON document, the config of the "system" integration.  Loops *)
(* claim a run under its row lock, hold it by a lease while they import    *)
(* one provider, and write the whole document back; requests and the merge *)
(* job write the whole document they read earlier.                         *)
(***************************************************************************)
EXTENDS Integers, Sequences, FiniteSets

CONSTANTS
    Workers,     \* import loops of all processes
    Clients,     \* requests in flight
    Queues,      \* the orders the user may prefer
    Settings,    \* what the user may change: the "order", the schedule ("every")
    MaxStamp,    \* bound: timestamps drawn
    MaxRequests, \* bound: requests of the user
    MaxFaults    \* bound: failed imports and merges, crashes, outlived leases

Kinds == {"quick", "all"}

ASSUME QueuesAssumption == Queues # {} /\ \A q \in Queues : q \in Seq(STRING) /\ q # <<>>
ASSUME SettingsAssumption == Settings \subseteq {"order", "every"}
ASSUME ImportBounds == MaxStamp \in Nat /\ MaxRequests \in Nat /\ MaxFaults \in Nat

VARIABLES
    clock,     \* the latest timestamp drawn
    cfg,       \* the document
    job,       \* per loop: the claim it works on, with the document as of then
    lapsed,    \* claims whose lease is over
    request,   \* per client: a request between its read and its commit
    mergeJob,  \* the merge job between its read and its write
    imported,  \* history: providers imported, by run
    ended,     \* history: import steps that are over ...
    covered,   \* ... and how many of them the latest merge came after
    requested, faults, \* requests and faults so far
    raced, overdue     \* history: a stale document was written; a lease was outlived

importVars ==
    <<clock, cfg, job, lapsed, request, mergeJob, imported, ended, covered, requested, faults, raced, overdue>>

Stamp == 0 .. MaxStamp
Statuses == {"none", "pending", "in_progress", "completed", "failed"}

\* A kind's keys; id stands for its requested_at, which asked says is still there; lease
\* is the claim that holds it.
Run == [status : Statuses, queue : Queues \cup {<<>>}, index : Nat, id : Stamp, asked : BOOLEAN, lease : Stamp]
Document == [quick : Run, all : Run, order : Queues, every : BOOLEAN,
             need : Stamp, merged : Stamp, error : BOOLEAN]
NoRun == [status |-> "none", queue |-> <<>>, index |-> 0, id |-> 0, asked |-> FALSE, lease |-> 0]
Idle == [kind |-> "none"]

Claimed == [kind : Kinds, stamp : Stamp, copy : Document]
Requested == [kind : Kinds \cup Settings, copy : Document]
Merging == [kind : {"merge"}, copy : Document, stamp : Stamp, ended : Nat]

ImportTypeOK ==
    /\ clock \in Stamp /\ cfg \in Document /\ lapsed \subseteq Stamp
    /\ \A k \in Kinds : cfg[k].index <= Len(cfg[k].queue) /\ (cfg[k].lease # 0 => cfg[k].status = "in_progress")
    /\ job \in [Workers -> Claimed \cup {Idle}] /\ request \in [Clients -> Requested \cup {Idle}]
    /\ mergeJob \in Merging \cup {Idle}
    /\ ended \in Nat /\ covered \in Nat /\ covered <= ended
    /\ requested \in 0 .. MaxRequests /\ faults \in 0 .. MaxFaults /\ raced \in BOOLEAN /\ overdue \in BOOLEAN

ImportInit ==
    /\ clock = 0
    /\ cfg \in {[quick |-> NoRun, all |-> NoRun, order |-> q, every |-> FALSE, need |-> 0, merged |-> 0, error |-> FALSE] :
                  q \in Queues}
    /\ job = [w \in Workers |-> Idle] /\ request = [c \in Clients |-> Idle] /\ mergeJob = Idle
    /\ lapsed = {} /\ imported = {} /\ ended = 0 /\ covered = 0
    /\ requested = 0 /\ faults = 0 /\ raced = FALSE /\ overdue = FALSE

Now == clock + 1
Draw == clock < MaxStamp /\ clock' = Now
Fault == faults < MaxFaults /\ faults' = faults + 1

-----------------------------------------------------------------------------
(* The document: core/import_control.py, core/import_all.py.               *)

Active(c, k) == c[k].status \in {"pending", "in_progress"}
AnyActive(c) == \E k \in Kinds : Active(c, k)

\* should_run_quick_import; an import-all runs only when asked for.
Due(c, k) ==
    IF k = "quick" THEN ~Active(c, "all") /\ (Active(c, k) \/ c[k].asked \/ c.every) ELSE Active(c, k)

\* Mutant: a lease is held until it is given back.
LeaseBlockedForever(c, k) == c[k].lease # 0

LeaseBlocked(c, k) == c[k].lease \notin lapsed \cup {0}

\* Mutant: a new run goes on where the one before stopped.
BuiltOn(c, k, at) ==
    [c EXCEPT ![k].status = "pending", ![k].queue = c.order, ![k].id = at, ![k].asked = TRUE]

\* build_import_all_config, build_quick_import_config: a lease key is left as it is.
Built(c, k, at) ==
    [c EXCEPT ![k].status = "pending", ![k].queue = c.order, ![k].index = 0, ![k].id = at, ![k].asked = TRUE]

MergeRequired(c, at) == [c EXCEPT !.need = at]

MergePending(c) == c.need # 0 /\ (c.merged < c.need \/ c.error)

\* load_blocked_outbox_users.
Blocked(c) == AnyActive(c) \/ MergePending(c)

Started(c, k, at) ==
    LET s == [c EXCEPT ![k].status = "in_progress", ![k].lease = at]
    IN  IF c.need = 0 THEN MergeRequired(s, at) ELSE s

\* Mutant: the end of a step leaves the lease.
ReleasedNever(c, k) == c

Released(c, k) == [c EXCEPT ![k].lease = 0]

\* mark_quick_import_completed, mark_import_all_completed.
Completed(c, k) == [Released(c, k) EXCEPT ![k].status = "completed", ![k].asked = @ /\ k = "all"]

\* mark_quick_import_failed, mark_import_all_failed.
MarkFailed(c, k) == [Released(c, k) EXCEPT ![k].status = "failed"]

-----------------------------------------------------------------------------
(* The loops. *)

Free(k) == Due(cfg, k) /\ ~LeaseBlocked(cfg, k)

\* _claim_quick_import_runs and _claim_import_all_runs.
Claim(w, k) ==
    /\ job[w] = Idle /\ Free(k) /\ Draw
    /\ LET c == IF Active(cfg, k) THEN cfg ELSE MergeRequired(Built(cfg, k, Now), Now)
       IN  /\ cfg' = Started(c, k, Now)
           /\ job' = [job EXCEPT ![w] = [kind |-> k, stamp |-> Now, copy |-> Started(c, k, Now)]]
    /\ UNCHANGED <<lapsed, request, mergeJob, imported, ended, covered, requested, faults, raced, overdue>>

\* _process_import_run writes what it makes of the document it claimed; a provider that is
\* no longer connected is passed over (_advance_import_run) to the same effect.
ProcessRun(w) ==
    LET k == job[w].kind
        c == job[w].copy
        next == [c EXCEPT ![k].index = @ + 1]
    IN  /\ job[w] # Idle
        /\ cfg' = IF next[k].index = Len(c[k].queue)
                  THEN Completed(MergeRequired(next, job[w].stamp), k)
                  ELSE Released(next, k)
        /\ imported' = imported \cup {<<k, c[k].id, c[k].queue[next[k].index]>>}
        /\ job' = [job EXCEPT ![w] = Idle] /\ ended' = ended + 1
        /\ UNCHANGED <<clock, lapsed, request, mergeJob, covered, requested, faults, raced, overdue>>

\* The import raises: rolled back but for what it committed, and the run is over.
FailRun(w) ==
    /\ job[w] # Idle /\ Fault
    /\ cfg' = MergeRequired(MarkFailed(job[w].copy, job[w].kind), job[w].stamp)
    /\ job' = [job EXCEPT ![w] = Idle] /\ ended' = ended + 1
    /\ UNCHANGED <<clock, lapsed, request, mergeJob, imported, covered, requested, raced, overdue>>

Crash(w) ==
    /\ job[w] # Idle /\ Fault
    /\ job' = [job EXCEPT ![w] = Idle] /\ ended' = ended + 1
    /\ UNCHANGED <<clock, cfg, lapsed, request, mergeJob, imported, covered, requested, raced, overdue>>

\* Time passes the lease of a claim whose loop is dead, or only slow.
Lapse(k) ==
    /\ LeaseBlocked(cfg, k)
    /\ lapsed' = lapsed \cup {cfg[k].lease}
    /\ IF \E w \in Workers : job[w] # Idle /\ job[w].stamp = cfg[k].lease
       THEN Fault /\ overdue' = TRUE
       ELSE UNCHANGED <<faults, overdue>>
    /\ UNCHANGED <<clock, cfg, job, request, mergeJob, imported, ended, covered, requested, raced>>

-----------------------------------------------------------------------------
(* Requests: trigger_quick_import, trigger_import_all,                     *)
(* update_import_queue_order and update_quick_import_schedule.             *)

\* The triggers answer 409 while an import is active.
ReadDocument(r, kind) ==
    /\ request[r] = Idle /\ requested < MaxRequests
    /\ kind \in Kinds => ~AnyActive(cfg)
    /\ requested' = requested + 1
    /\ request' = [request EXCEPT ![r] = [kind |-> kind, copy |-> cfg]]
    /\ UNCHANGED <<clock, cfg, job, lapsed, mergeJob, imported, ended, covered, faults, raced, overdue>>

Commit(r) ==
    LET c == request[r].copy
        kind == request[r].kind
    IN  /\ request[r] # Idle
        /\ CASE kind \in Kinds -> Draw /\ cfg' = MergeRequired(Built(c, kind, Now), Now)
             [] kind = "order" -> UNCHANGED clock /\ \E q \in Queues : cfg' = [c EXCEPT !.order = q]
             [] kind = "every" -> UNCHANGED clock /\ cfg' = [c EXCEPT !.every = ~@]
        /\ raced' = (raced \/ c # cfg)
        /\ request' = [request EXCEPT ![r] = Idle]
        /\ UNCHANGED <<job, lapsed, mergeJob, imported, ended, covered, requested, faults, overdue>>

-----------------------------------------------------------------------------
(* run_merge_history loads all documents first and then merges user after  *)
(* user.                                                                   *)

MergeStart ==
    /\ mergeJob = Idle /\ MergePending(cfg) /\ ~AnyActive(cfg) /\ Draw
    /\ mergeJob' = [kind |-> "merge", copy |-> cfg, stamp |-> Now, ended |-> ended]
    /\ UNCHANGED <<cfg, job, lapsed, request, imported, ended, covered, requested, faults, raced, overdue>>

MergeEnd ==
    /\ mergeJob # Idle
    /\ cfg' = [mergeJob.copy EXCEPT !.merged = mergeJob.stamp, !.error = FALSE]
    /\ covered' = mergeJob.ended /\ raced' = (raced \/ mergeJob.copy # cfg)
    /\ mergeJob' = Idle
    /\ UNCHANGED <<clock, job, lapsed, request, imported, ended, requested, faults, overdue>>

\* mark_merge_failed, or the job dies before it writes.
MergeFail ==
    /\ mergeJob # Idle /\ Fault
    /\ \/ cfg' = [mergeJob.copy EXCEPT !.merged = mergeJob.stamp, !.error = TRUE] /\ raced' = (raced \/ mergeJob.copy # cfg)
       \/ UNCHANGED <<cfg, raced>>
    /\ mergeJob' = Idle
    /\ UNCHANGED <<clock, job, lapsed, request, imported, ended, covered, requested, overdue>>

ImportNext ==
    \/ \E w \in Workers : ProcessRun(w) \/ FailRun(w) \/ Crash(w) \/ (\E k \in Kinds : Claim(w, k))
    \/ \E k \in Kinds : Lapse(k)
    \/ \E r \in Clients : Commit(r) \/ (\E kind \in Kinds \cup Settings : ReadDocument(r, kind))
    \/ MergeStart \/ MergeEnd \/ MergeFail

\* The loops go on polling, time passes and a started request commits.
ImportFairness ==
    /\ \A k \in Kinds : WF_importVars(\E w \in Workers : Claim(w, k)) /\ WF_importVars(Lapse(k))
    /\ \A w \in Workers : WF_importVars(ProcessRun(w))
    /\ \A r \in Clients : WF_importVars(Commit(r))
    /\ WF_importVars(MergeStart) /\ WF_importVars(MergeEnd)

ImportSpec == ImportInit /\ [][ImportNext]_importVars
FairImportSpec == ImportSpec /\ ImportFairness

-----------------------------------------------------------------------------
(* OneImporter: no two loops import for the user at once, whatever their   *)
(* kinds and processes (jobs/imports.py, "a per-claim token keeps a live   *)
(* lease exclusive between them as well"), unless one outlived its lease   *)
(* or a stale document was written over the lease.                         *)
OneImporter ==
    \A v, w \in Workers : (job[v] # Idle /\ job[w] # Idle /\ v # w) => raced \/ overdue

(* CompletedIsWhole: a run that completed has imported every provider of   *)
(* its queue, whichever loops took its steps, also when two loops worked   *)
(* on it, a crash cut a step short or a stale document brought an older    *)
(* run back.                                                               *)
CompletedIsWhole ==
    \A k \in Kinds : cfg[k].status = "completed" =>
        \A i \in 1 .. Len(cfg[k].queue) : <<k, cfg[k].id, cfg[k].queue[i]>> \in imported

(* MergedBeforePush: the outbox serves the user (load_blocked_outbox_users)*)
(* only when no import is going on and a merge has begun since the last    *)
(* one ended: duplicates of an import are never pushed.                    *)
MergedBeforePush ==
    (~Blocked(cfg) /\ ~raced /\ ~overdue) => covered = ended /\ \A w \in Workers : job[w] = Idle

(* RunsAreWhole: what completed is whole, nobody imports next to another,  *)
(* and nothing is pushed before it is merged, at every moment.             *)
RunsAreWhole == CompletedIsWhole /\ OneImporter /\ MergedBeforePush

(* FailureIsFinal: jobs/imports.py records a failure, "otherwise the run   *)
(* stays in_progress and retries the same failing provider forever": a     *)
(* failed run begins again only if it is requested or scheduled.           *)
FailureIsFinal ==
    [][\A k \in Kinds : (cfg[k].status = "failed" /\ cfg'[k].status = "in_progress") => cfg.every]_importVars

(* EveryImportIsServed: a run in the document ends, and the user's outbox  *)
(* is served again, whatever fails, crashes or is slow in between.         *)
EveryImportIsServed == Blocked(cfg) ~> ~Blocked(cfg)
=============================================================================
