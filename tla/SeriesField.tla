---------------------------- MODULE SeriesField ----------------------------
(***************************************************************************)
(* The episodes of one series between the local history and Stremio, which *)
(* keeps a single field for all of them.  Each watch or deletion queues a  *)
(* job of its own, but every delivery writes the whole field from the      *)
(* local history, and one is skipped while a later job of the series waits *)
(* (jobs/process_outbox.py).  The import reads the field back              *)
(* (jobs/stremio_import.py).  Meanwhile Cinemeta's list of the series      *)
(* grows, and a process may go on with the list it fetched before.         *)
(***************************************************************************)
EXTENDS WatchedBitField, FiniteSets

CONSTANTS
    Videos,      \* every video the series ever lists, in order
    Specials,    \* those of season 0
    MaxJobs,     \* bound: jobs ever queued
    MaxAttempts, \* settings.outbox_max_attempts
    MaxEvents    \* bound: failures, crashes, growth of the list and marks in Stremio

VideosAssumption ==
    /\ Videos \in Seq(STRING) /\ Len(Videos) > 0
    /\ Specials \subseteq {Videos[i] : i \in 1 .. Len(Videos)}
BoundAssumption ==
    MaxJobs \in Nat /\ MaxAttempts \in Nat \ {0} /\ MaxEvents \in Nat

VARIABLES
    first, last, \* Cinemeta lists Videos[first .. last]
    cached,      \* the first and last of the lists before, in some process's _cinemeta_cache
    watched,     \* the episodes with a local watch
    sync,        \* their WatchSync.status
    noted,       \* those whose WatchSync has an external_id
    jobs,        \* the waiting jobs, by number: a later job has a higher one
    at,          \* the job in hand, the field it is about to write and the watches not on its list
    field,       \* what Stremio stores
    marked,      \* history: marked or unmarked in Stremio since, or not asked to go there
    skipped,     \* history: reported delivered by a job skipped for a later one, as yet
    lost,        \* history: reported delivered although no field was written for it
    omitted,     \* history: the watches that the list of the last field written lacked
    queued, events

vars == <<first, last, cached, watched, sync, noted, jobs, at, field, marked, skipped, lost, omitted, queued, events>>

Episode == {Videos[i] : i \in 1 .. Len(Videos)}
Listed == SubSeq(Videos, first, last)
Within(list) == {list[i] : i \in 1 .. Len(list)}
Status == {"none", "pending", "succeeded", "synced_from_stremio", "failed_retryable",
           "failed_permanent"}
Number == 1 .. MaxJobs
Job == [kind : {"push", "remove"}, video : Episode, attempts : 0 .. MaxAttempts]
NoJob == [kind |-> "none", video |-> "", attempts |-> 0]
NoField == [anchor |-> "undefined", length |-> 1, bits |-> {}]
Idle == [step |-> "none", number |-> 0, job |-> NoJob, new |-> NoField, omitted |-> {}]

TypeOK ==
    /\ first \in 1 .. Len(Videos) /\ last \in first .. Len(Videos)
    /\ cached \subseteq (1 .. Len(Videos)) \X (1 .. Len(Videos))
    /\ watched \subseteq Episode /\ noted \subseteq Episode
    /\ sync \in [Episode -> Status]
    /\ jobs \in [Number -> Job \cup {NoJob}]
    /\ at.step \in {"none", "build", "send", "settle"} /\ at.number \in Number \cup {0}
    /\ at.job \in Job \cup {NoJob}
    /\ \A f \in {at.new, field} : /\ f.anchor \in Episode \cup {"undefined"}
                                  /\ f.length \in 1 .. Len(Videos)
                                  /\ f.bits \subseteq 0 .. Len(Videos) - 1
    /\ marked \subseteq Episode /\ skipped \subseteq Episode /\ lost \subseteq Episode
    /\ omitted \subseteq Episode /\ at.omitted \subseteq Episode
    /\ queued \in 0 .. MaxJobs /\ events \in 0 .. MaxEvents

Init ==
    /\ first \in 1 .. 2 /\ last \in Len(Videos) - 1 .. Len(Videos) /\ first <= last /\ cached = {}
    /\ watched = {} /\ noted = {}
    /\ sync = [e \in Episode |-> "none"]
    /\ jobs = [n \in Number |-> NoJob]
    /\ at = Idle
    /\ field = NoField
    /\ marked = {} /\ skipped = {} /\ lost = {} /\ omitted = {}
    /\ queued = 0 /\ events = 0

\* fetch_cinemeta_video_ids, with one process's cache or another's.  How long a list is kept
\* (CINEMETA_CACHE_TTL) is left out.
Lists == {Listed} \cup {SubSeq(Videos, c[1], c[2]) : c \in cached}

Waiting == {n \in Number : jobs[n] # NoJob}
Event == events < MaxEvents /\ events' = events + 1

\* enqueue_outbox_job: the waiting job of the same kind and watch takes the new payload.
Queue(kind, e, table) ==
    LET same == {n \in Waiting : jobs[n].kind = kind /\ jobs[n].video = e}
    IN  IF same # {} THEN jobs' = table /\ UNCHANGED queued
        ELSE /\ queued < MaxJobs /\ queued' = queued + 1
             /\ jobs' = [table EXCEPT ![queued + 1] = [kind |-> kind, video |-> e, attempts |-> 0]]

\* A watch is added here, of any episode, listed or not; its fan-out queues a push.
Add(e) ==
    /\ e \in Episode \ watched
    /\ watched' = watched \cup {e}
    /\ sync' = [sync EXCEPT ![e] = "pending"]
    /\ Queue("push", e, jobs)
    /\ marked' = marked \ {e} /\ lost' = lost \ {e} /\ skipped' = skipped \ {e}
    /\ UNCHANGED <<first, last, cached, noted, at, field, omitted, events>>

\* cancel_queued_pushes: the waiting push of the watch.
Cancelled(e) ==
    [n \in Number |-> IF jobs[n].kind = "push" /\ jobs[n].video = e THEN NoJob ELSE jobs[n]]

\* delete_watched_item, with or without delete_integrations; a deletion waits for the push
\* of the watch in hand and cancels the waiting one.  Other deliveries of the series may have
\* been skipped for that one, and no later job need replace it.
Delete(e, downstream) ==
    /\ e \in watched
    /\ ~(at.job.kind = "push" /\ at.job.video = e)
    /\ watched' = watched \ {e}
    /\ sync' = [sync EXCEPT ![e] = "none"] /\ noted' = noted \ {e}
    /\ IF downstream THEN Queue("remove", e, Cancelled(e))
       ELSE jobs' = Cancelled(e) /\ UNCHANGED queued
    /\ marked' = IF downstream THEN marked \ {e} ELSE marked \cup {e}
    /\ LET unserved == Cancelled(e) # jobs /\ ~\E n \in Number : jobs'[n] # NoJob
       IN  lost' = (IF unserved THEN lost \cup skipped ELSE lost) \ {e}
    /\ skipped' = skipped \ {e}
    /\ UNCHANGED <<first, last, cached, at, field, omitted, events>>

\* Mutant: the delivery writes only the episode of its job.
LocalOfJob(job) == (watched \ Specials) \cap {job.video}

\* _load_series_watched_ids: every local watch of the series but those of season 0.
Local(job) == watched \ Specials

\* _has_newer_stremio_series_job.
Newer(n) == \E other \in Waiting : other > n

\* The delivery begins, and is skipped for a later job.
Begin(n) ==
    /\ at = Idle /\ n \in Waiting
    /\ at' = [Idle EXCEPT !.step = IF Newer(n) THEN "settle" ELSE "build", !.number = n,
                          !.job = [jobs[n] EXCEPT !.attempts = @ + 1]]
    /\ jobs' = [jobs EXCEPT ![n] = NoJob]
    /\ skipped' = IF Newer(n) THEN skipped \cup {jobs[n].video} ELSE skipped
    /\ UNCHANGED <<first, last, cached, watched, sync, noted, field, marked, lost, omitted, queued, events>>

\* _build_stremio_series_change: it reads the list, then the local history; a watch that the
\* list lacks is left out.
Build ==
    /\ at.step = "build"
    /\ at.job.kind = "remove" \/ Local(at.job) # {}
    /\ \E list \in Lists :
          at' = [at EXCEPT !.step = "send", !.new = Encoded(Local(at.job), list), !.omitted = watched \ Within(list)]
    /\ UNCHANGED <<first, last, cached, watched, sync, noted, jobs, field, marked, skipped, lost, omitted, queued, events>>

\* It has nothing to send and passes for delivered: a push that finds no watch but of season
\* 0, and a removal that finds Cinemeta's list empty.
Unsent ==
    /\ at.step = "build"
    /\ \/ at.job.kind = "push" /\ Local(at.job) = {} /\ UNCHANGED events
       \/ at.job.kind = "remove" /\ Event
    /\ at' = [at EXCEPT !.step = "settle"]
    /\ lost' = lost \cup skipped \cup {at.job.video}
    /\ UNCHANGED <<first, last, cached, watched, sync, noted, jobs, field, marked, skipped, omitted, queued>>

Written ==
    /\ field' = at.new /\ omitted' = at.omitted

\* update_library_items is answered.
Send ==
    /\ at.step = "send"
    /\ Written /\ skipped' = {} /\ lost' = {}
    /\ at' = [at EXCEPT !.step = "settle"]
    /\ UNCHANGED <<first, last, cached, watched, sync, noted, jobs, marked, queued, events>>

SyncAfter(status) ==
    IF at.job.kind = "push" /\ at.job.video \in watched THEN [sync EXCEPT ![at.job.video] = status] ELSE sync

Settle ==
    /\ at.step = "settle"
    /\ sync' = SyncAfter("succeeded")
    /\ noted' = IF at.job.kind = "push" THEN noted \cup ({at.job.video} \cap watched) ELSE noted
    /\ at' = Idle
    /\ UNCHANGED <<first, last, cached, watched, jobs, field, marked, skipped, lost, omitted, queued, events>>

\* A request fails, at Cinemeta or at Stremio, which may have taken the field; so does a push
\* that finds Cinemeta's list empty.  A job out of attempts or refused for good takes those
\* with it that were skipped for it.
Fail(permanent) ==
    /\ at.step \in {"build", "send"} /\ Event
    /\ UNCHANGED <<field, omitted>> \/ (at.step = "send" /\ Written)
    /\ LET over == permanent \/ at.job.attempts >= MaxAttempts
       IN  /\ sync' = SyncAfter(IF over THEN "failed_permanent" ELSE "failed_retryable")
           /\ jobs' = IF over THEN jobs ELSE [jobs EXCEPT ![at.number] = at.job]
           /\ lost' = IF over THEN lost \cup skipped \cup {at.job.video} ELSE lost
    /\ at' = Idle
    /\ UNCHANGED <<first, last, cached, watched, noted, marked, skipped, queued>>

\* The worker dies; the job waits again under its old number, its attempt uncounted.
Crash ==
    /\ at # Idle /\ Event
    /\ jobs' = [jobs EXCEPT ![at.number] = [at.job EXCEPT !.attempts = @ - 1]]
    /\ at' = Idle
    /\ UNCHANGED <<first, last, cached, watched, sync, noted, field, marked, skipped, lost, omitted, queued>>

\* The series gets a new video, or a list that lacked its first one gets it.
Announce ==
    /\ Event
    /\ \/ last < Len(Videos) /\ last' = last + 1 /\ UNCHANGED first
       \/ first > 1 /\ first' = first - 1 /\ UNCHANGED last
    /\ cached' = cached \cup {<<first, last>>}
    /\ UNCHANGED <<watched, sync, noted, jobs, at, field, marked, skipped, lost, omitted, queued>>

\* The user marks an episode in Stremio, or takes its mark away.
Mark(e) ==
    /\ e \in Within(Listed) /\ Event
    /\ LET now == Decoded(field, Listed)
       IN  field' = Encoded(IF e \in now THEN now \ {e} ELSE now \cup {e}, Listed)
    /\ marked' = marked \cup {e}
    /\ UNCHANGED <<first, last, cached, watched, sync, noted, jobs, at, skipped, lost, omitted, queued>>

\* _import_series_bitfield: marked episodes without a watch get one, and no push to Stremio,
\* unless an earlier import's event or a clear forbids it; what has an external_id already is
\* left alone.
Import ==
    /\ \E list \in Lists :
        LET found == Decoded(field, list) \ (Specials \cup noted)
        IN  /\ found # {}
            /\ \E new \in SUBSET (found \ watched) :
                  LET seen == new \cup (found \cap watched)
                  IN  /\ watched' = watched \cup new
                      /\ sync' = [e \in Episode |-> IF e \in seen THEN "synced_from_stremio" ELSE sync[e]]
                      /\ noted' = noted \cup seen
    /\ UNCHANGED <<first, last, cached, jobs, at, field, marked, skipped, lost, omitted, queued, events>>

Next ==
    \/ \E e \in Episode : Add(e) \/ Mark(e) \/ \E downstream \in BOOLEAN : Delete(e, downstream)
    \/ \E n \in Number : Begin(n)
    \/ \E permanent \in BOOLEAN : Fail(permanent)
    \/ Build \/ Unsent \/ Send \/ Settle \/ Crash \/ Announce \/ Import

Spec == Init /\ [][Next]_vars

Quiet == Waiting = {} /\ at = Idle

\* Whatever is skipped, retried or overtaken, once the jobs of the series are done Stremio
\* shows every episode whose WatchSync says so, unless
\* - it is of season 0, or the list that the last field was made from lacked it (omitted): a
\*   delivery that leaves an episode out succeeds all the same;
\* - its delivery passed for done and no field has been written since (lost): it was skipped
\*   for one that was cancelled, given up or had nothing to send;
\* - the user has marked or unmarked it in Stremio.
SucceededIsMarked ==
    Quiet => \A e \in watched \ Specials : sync[e] = "succeeded" =>
                e \in Decoded(field, Listed) \/ e \in omitted \cup lost \cup marked

\* And none that was deleted here with its removal asked for, but for the last two reasons;
\* a removal that finds Cinemeta's list empty has nothing to send either.
RemovedIsUnmarked ==
    Quiet => \A e \in Decoded(field, Listed) : e \in watched \cup lost \cup marked

\* A field that was written before the list grew at either end marks, in the new list,
\* exactly the episodes it was written for.
GrowthKeepsMarks ==
    [][Announce => Decoded(field, Listed') = Decoded(field, Listed)]_vars

=============================================================================
