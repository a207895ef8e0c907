------------------------------ MODULE Delivery ------------------------------
(***************************************************************************)
(* The plays of one title at a provider that keeps a history (Letterboxd,  *)
(* Trakt, SIMKL, PublicMetaDB): how watches, edits and deletions become    *)
(* jobs (core/watch_pipeline.py, api/routes_history.py) and which requests *)
(* a job's handler sends (jobs/process_outbox.py, connectors/services/).   *)
(*                                                                         *)
(* Claims, locks and coalescing at the level of rows are in Outbox.tla.    *)
(* Here a job is claimed and begun in one step, and one delivery of the    *)
(* provider is in hand at a time: the worker holds the row lock of the     *)
(* user's bucket from its begin to its commit.  Retry delays and several   *)
(* workers let any waiting job be the next.  Ratings, tags and the rewatch *)
(* flag are left out.                                                      *)
(***************************************************************************)
EXTENDS Naturals, FiniteSets

CONSTANTS
    Provider,   \* the providers the user may have connected
    Watch,      \* watches of the title
    Day,        \* days a watch may have
    MaxPlays,   \* bound: plays the provider ever stores
    MaxAttempts,\* settings.outbox_max_attempts
    MaxEvents   \* bound: edits, deletions, resynchronisations, failed requests and crashes

ASSUME ProviderAssumption ==
    Provider \subseteq {"letterboxd", "trakt", "simkl", "publicmetadb"}
ASSUME DataAssumption == IsFiniteSet(Watch) /\ Day \subseteq Nat \ {0}
ASSUME DeliveryBounds ==
    /\ MaxPlays \in Nat /\ MaxAttempts \in Nat \ {0}
    /\ MaxEvents \in Nat

VARIABLES
    provider,   \* the connected provider
    watch,      \* WatchedItem: the day of each live watch
    sync,       \* WatchSync of each watch: status and external_id
    queue,      \* the waiting job of each kind and watch
    at,         \* the delivery in hand and its next request
    plays,      \* the provider's plays of the title
    made,       \* plays the provider ever stored; their ids
    cause,      \* history: what may have disturbed each watch's plays
    events

deliveryVars == <<provider, watch, sync, queue, at, plays, made, cause, events>>

Kind == {"push", "update", "remove"}
Status == {"none", "pending", "succeeded", "assumed_tracked", "failed_retryable",
           "failed_permanent"}
Id == 0 .. MaxPlays     \* a play's id; 0 where none is known
Job == [day : Day \cup {0}, was : Day \cup {0}, play : Id, attempts : 0 .. MaxAttempts]
NoJob == [day |-> 0, was |-> 0, play |-> 0, attempts |-> 0]
Play == [id : Id \ {0}, of : Watch, day : Day]

\* What can leave a watch's plays other than the user asked for:
Cause == {
    "forgotten",    \* a crash took a sent push's attempt count with it
    "batched",      \* a batch was sent again, without a look at the provider's history
    "unchecked",    \* the look at the provider's history failed and was ignored
    "resent",       \* an update's new play was stored, and the update is sent again
    "overtaken",    \* an update began before the push of the play it moves
    "coalesced",    \* two edits became one update that knows neither the play nor its day
    "abandoned",    \* such an update failed for good, so the next one knows a wrong day
    "raced",        \* an update was queued with the id of a play about to be replaced
    "early",        \* a Letterboxd edit came before the entry's id was known
    "reset",        \* a retried push gave an edited watch its old day again
    "resynced",     \* the user asked for another push
    "mistook",      \* a delivery of the watch took another watch's play for its own
    "swept",        \* the play was taken for another watch's
    "unheard",      \* the watch was deleted before the play's id was known
    "refused"}      \* the removal failed for good

NoDelivery == [kind |-> "none", step |-> "none", found |-> 0, made |-> 0,
         jobs |-> [w \in {} |-> NoJob]]

DeliveryTypeOK ==
    /\ provider \in Provider
    /\ watch \in [Watch -> [state : {"new", "live", "gone"}, day : Day \cup {0}]]
    /\ sync \in [Watch -> [status : Status, play : Id]]
    /\ queue \in [Kind \X Watch -> Job]
    /\ at.kind \in Kind \cup {"none"}
    /\ at.step \in {"none", "check", "remove", "add", "move", "settle"}
    /\ at.found \in Id /\ at.made \in Id
    /\ DOMAIN at.jobs \subseteq Watch
    /\ \A w \in DOMAIN at.jobs : at.jobs[w] \in Job
    /\ plays \subseteq Play
    /\ made \in Id
    /\ cause \in [Watch -> SUBSET Cause]
    /\ events \in 0 .. MaxEvents

NoSync == [status |-> "none", play |-> 0]

DeliveryInit ==
    /\ provider \in Provider
    /\ watch = [w \in Watch |-> [state |-> "new", day |-> 0]]
    /\ sync = [w \in Watch |-> NoSync]
    /\ queue = [k \in Kind \X Watch |-> NoJob]
    /\ at = NoDelivery
    /\ plays = {} /\ made = 0
    /\ cause = [w \in Watch |-> {}]
    /\ events = 0

Event == events < MaxEvents /\ events' = events + 1

Live(w) == watch[w].state = "live"
Waits(kind, w) == queue[kind, w] # NoJob
InHand(kind, w) == at.kind = kind /\ w \in DOMAIN at.jobs
Of(w) == {p \in plays : p.of = w}
Blame(S, c) == [w \in Watch |-> IF w \in S THEN cause[w] \cup {c} ELSE cause[w]]

(***************************************************************************)
(* Requests of the user.                                                   *)
(***************************************************************************)

\* Mutant: an update in flight gets no successor.
EnqueuedOnce(kind, w, day, was, play) ==
    IF InHand(kind, w) /\ ~Waits(kind, w) THEN queue
    ELSE [queue EXCEPT ![<<kind, w>>] = [day |-> day, was |-> was, play |-> play, attempts |-> 0]]

\* The job a payload becomes: it replaces the waiting one of its kind, whose attempts it
\* keeps; in flight, only an update (SUCCESSOR_JOB_TYPES) gets a successor.
Enqueued(kind, w, day, was, play) ==
    LET job == [day |-> day, was |-> was, play |-> play, attempts |-> queue[kind, w].attempts]
    IN  IF InHand(kind, w) /\ ~Waits(kind, w) /\ kind # "update" THEN queue
        ELSE [queue EXCEPT ![<<kind, w>>] = job]

Add(w, d) ==
    /\ watch[w].state = "new"
    /\ watch' = [watch EXCEPT ![w] = [state |-> "live", day |-> d]]
    /\ UNCHANGED <<provider, sync, queue, at, plays, made, cause, events>>

\* Another watch of the same day that the provider is known to have; Letterboxd's own
\* check of its diary stands for this.
SameDaySynced(w) ==
    /\ provider # "letterboxd"
    /\ \E v \in Watch \ {w} :
          Live(v) /\ watch[v].day = watch[w].day /\ sync[v].status = "succeeded"

\* enqueue_new.
EnqueueNew(w) ==
    IF SameDaySynced(w)
    THEN /\ sync' = [sync EXCEPT ![w].status = "assumed_tracked"]
         /\ UNCHANGED queue
    ELSE /\ sync' = [sync EXCEPT ![w].status = "pending"]
         /\ queue' = Enqueued("push", w, watch[w].day, 0, 0)

\* The internal new_item job of a watch.
FanOut(w) ==
    /\ Live(w) /\ sync[w].status = "none"
    /\ EnqueueNew(w)
    /\ UNCHANGED <<provider, watch, at, plays, made, cause, events>>

\* sync_watched_items: push again whatever the WatchSync says.
Resync(w) ==
    /\ Live(w) /\ Event
    /\ EnqueueNew(w)
    /\ cause' = Blame({w}, "resynced")
    /\ UNCHANGED <<provider, watch, at, plays, made>>

\* update_watched_item: without a WatchSync nothing is queued, at Letterboxd not without the
\* id of the entry either.
Edit(w, d) ==
    /\ Live(w) /\ d # watch[w].day /\ Event
    /\ watch' = [watch EXCEPT ![w].day = d]
    /\ IF sync[w].status = "none" \/ (provider = "letterboxd" /\ sync[w].play = 0)
       THEN UNCHANGED <<sync, queue>>
       ELSE /\ sync' = [sync EXCEPT ![w].status = "pending"]
            /\ queue' = Enqueued("update", w, d, watch[w].day, sync[w].play)
    /\ LET gap == IF sync[w].status = "none" THEN {}
                  ELSE IF provider = "letterboxd" THEN (IF sync[w].play = 0 THEN {"early"} ELSE {})
                  ELSE IF InHand("update", w) THEN {"raced"}
                  ELSE IF Waits("update", w) /\ sync[w].play = 0 THEN {"coalesced"} ELSE {}
       IN  cause' = [cause EXCEPT ![w] = @ \cup gap]
    /\ UNCHANGED <<provider, at, plays, made>>

\* A delivery holds the watch's row lock (_lock_live_watches).
Held(w) == InHand("push", w) \/ InHand("update", w)

\* delete_watched_item with delete_integrations: waits for the delivery that holds the watch,
\* cancels the queued pushes and takes the WatchSync with it.
Delete(w) ==
    /\ Live(w) /\ Event
    /\ ~Held(w)
    /\ watch' = [watch EXCEPT ![w].state = "gone"]
    /\ sync' = [sync EXCEPT ![w] = NoSync]
    /\ LET known == IF provider = "simkl" THEN 0 ELSE sync[w].play
           removal == IF provider = "letterboxd" /\ known = 0 THEN NoJob
                      ELSE [NoJob EXCEPT !.day = watch[w].day, !.play = known]
       IN /\ queue' = [queue EXCEPT ![<<"push", w>>] = NoJob, ![<<"update", w>>] = NoJob,
                                    ![<<"remove", w>>] = removal]
          /\ cause' = IF \/ Of(w) = {} \/ {p.id : p \in Of(w)} = {known}
                         \/ known = 0 /\ provider \in {"trakt", "simkl"}
                      THEN cause ELSE Blame({w}, "unheard")
    /\ UNCHANGED <<provider, at, plays, made>>

(***************************************************************************)
(* Deliveries.                                                             *)
(***************************************************************************)

Only(f) == CHOOSE w \in DOMAIN f : TRUE
W == Only(at.jobs)          \* the watch of a single delivery
J == at.jobs[W]             \* and its job

\* The first request of each provider's handlers: where they look at its history first,
\* and where they change it at once.
LetterboxdFirst(kind, job) ==
    CASE kind = "push" -> "check" [] kind = "update" -> "move" [] kind = "remove" -> "remove"
SimklFirst(kind, job) == IF kind = "remove" THEN "remove" ELSE "add"
TraktFirst(kind, job) ==
    CASE kind = "push" -> IF job.attempts > 1 THEN "check" ELSE "add"
      [] kind = "update" -> IF job.play = 0 THEN "check" ELSE "remove"
      [] kind = "remove" -> "remove"
PublicMetaDbFirst(kind, job) ==
    CASE kind = "push" -> IF job.attempts > 1 THEN "check" ELSE "add"
      [] OTHER -> IF job.play = 0 THEN "check" ELSE "remove"

FirstStep(kind, job) ==
    CASE provider = "letterboxd" -> LetterboxdFirst(kind, job)
      [] provider = "trakt" -> TraktFirst(kind, job)
      [] provider = "simkl" -> SimklFirst(kind, job)
      [] provider = "publicmetadb" -> PublicMetaDbFirst(kind, job)

\* _process_job begins: the attempt counts from here on, in the session.
Begin(kind, w) ==
    /\ at = NoDelivery /\ Waits(kind, w)
    /\ LET job == [queue[kind, w] EXCEPT !.attempts = @ + 1]
       IN  at' = [NoDelivery EXCEPT !.kind = kind, !.step = FirstStep(kind, job), !.found = job.play,
                              !.jobs = [v \in {w} |-> job]]
    /\ queue' = [queue EXCEPT ![<<kind, w>>] = NoJob]
    /\ cause' = IF kind = "update" /\ Waits("push", w) THEN Blame({w}, "overtaken") ELSE cause
    /\ UNCHANGED <<provider, watch, sync, plays, made, events>>

\* _process_job_batch: one request for the pushes of several watches, without any look.
BeginBatch(S) ==
    /\ at = NoDelivery /\ provider \in {"trakt", "simkl"}
    /\ Cardinality(S) > 1 /\ \A w \in S : Waits("push", w)
    /\ at' = [NoDelivery EXCEPT !.kind = "push", !.step = "add",
                          !.jobs = [w \in S |-> [queue["push", w] EXCEPT !.attempts = @ + 1]]]
    /\ queue' = [k \in Kind \X Watch |-> IF k[1] = "push" /\ k[2] \in S THEN NoJob ELSE queue[k]]
    /\ cause' = Blame({w \in S : queue["push", w].attempts > 0}, "batched")
    /\ UNCHANGED <<provider, watch, sync, plays, made, events>>

\* What the look may return: at Letterboxd an entry of the day; at Trakt a play of the day, for
\* an update one of the old day first; at PublicMetaDB, unless a push is retried, any play.
On(day) == {p \in plays : p.day = day}
LetterboxdFinds(kind, job) == On(job.day)
TraktFinds(kind, job) == IF kind = "update" /\ On(job.was) # {} THEN On(job.was) ELSE On(job.day)
PublicMetaDbFinds(kind, job) == IF kind = "push" THEN On(job.day) ELSE plays

Matches(kind, job) ==
    CASE provider = "letterboxd" -> LetterboxdFinds(kind, job)
      [] provider = "publicmetadb" -> PublicMetaDbFinds(kind, job)
      [] OTHER -> TraktFinds(kind, job)

\* The look is answered: what is found is taken for the watch's own play.  A retried push
\* also gives the watch the day of the play found (_sync_local_watched_at).
CheckFinds(p) ==
    /\ at.step = "check" /\ p \in Matches(at.kind, J)
    /\ IF at.kind = "push"
       THEN /\ at' = [at EXCEPT !.step = "settle", !.made = p.id]
            /\ watch' = IF provider = "letterboxd" \/ ~Live(W) THEN watch
                        ELSE [watch EXCEPT ![W].day = p.day]
            /\ cause' = IF watch[W].day # p.day /\ provider # "letterboxd"
                        THEN Blame({W}, "reset") ELSE cause
       ELSE /\ at' = [at EXCEPT !.step = "remove", !.found = p.id]
            /\ UNCHANGED <<watch, cause>>
    /\ UNCHANGED <<provider, sync, queue, plays, made, events>>

CheckFindsNone ==
    /\ at.step = "check" /\ Matches(at.kind, J) = {}
    /\ at' = [at EXCEPT !.step = IF at.kind = "remove" THEN "settle" ELSE "add"]
    /\ UNCHANGED <<provider, watch, sync, queue, plays, made, cause, events>>

\* A failed look is ignored where it only guards against a second play.
CheckIgnored ==
    /\ at.step = "check" /\ at.kind = "push" /\ provider # "letterboxd"
    /\ Event
    /\ at' = [at EXCEPT !.step = "add"]
    /\ cause' = Blame({W}, "unchecked")
    /\ UNCHANGED <<provider, watch, sync, queue, plays, made>>

\* What a removal takes: the play of an id, or, without one, every play of the title.
Removed == IF at.found = 0 THEN plays ELSE {p \in plays : p.id = at.found}

\* The watches a set of plays stands for: Letterboxd's check and a retried push let a watch
\* share the play of another one.
Sharers(P) == {w \in Watch : \E p \in P : p.of = w \/ p.id = sync[w].play}

\* Where a request takes the plays of the watches S for those of its own.
Sweep(S, also) == [w \in Watch |-> cause[w]
                     \cup (IF w \in S \ DOMAIN at.jobs THEN {"swept"} ELSE {})
                     \cup (IF w \in DOMAIN at.jobs
                            THEN also \cup IF S \subseteq DOMAIN at.jobs THEN {} ELSE {"mistook"}
                            ELSE {})]

\* The provider after each request; also is what else disturbs the delivery's watches.
RemoveEffect(also) ==
    /\ plays' = plays \ Removed
    /\ cause' = Sweep(Sharers(Removed), also)
    /\ UNCHANGED made

\* The new ids the provider may give the plays of one request.
NewIds == {f \in [DOMAIN at.jobs -> made + 1 .. made + Cardinality(DOMAIN at.jobs)] :
             \A v, w \in DOMAIN at.jobs : v # w => f[v] # f[w]}

\* SIMKL keeps one play of a title, the others a history.
AddEffect(also) ==
    /\ made + Cardinality(DOMAIN at.jobs) <= MaxPlays
    /\ made' = made + Cardinality(DOMAIN at.jobs)
    /\ \E id \in NewIds :
         LET added == {[id |-> id[w], of |-> w, day |-> at.jobs[w].day] : w \in DOMAIN at.jobs}
         IN  IF provider = "simkl"
             THEN \E p \in added :
                    /\ plays' = {p}
                    /\ cause' = Sweep(Sharers(plays),
                                      also \cup IF added = {p} THEN {} ELSE {"swept"})
             ELSE plays' = plays \cup added /\ cause' = Sweep({}, also)

MoveEffect(also) ==
    /\ plays' = {IF p.id = J.play THEN [p EXCEPT !.day = J.day] ELSE p : p \in plays}
    /\ cause' = Sweep(Sharers({p \in plays : p.id = J.play}), also)
    /\ UNCHANGED made

\* Letterboxd refuses to change or delete an entry that is gone (404).
Gone == provider = "letterboxd" /\ at.step \in {"move", "remove"} /\ \A p \in plays : p.id # at.found

Effect(also) == \/ at.step = "remove" /\ ~Gone /\ RemoveEffect(also)
                \/ at.step = "add" /\ AddEffect(also)
                \/ at.step = "move" /\ ~Gone /\ MoveEffect(also)

\* PublicMetaDB's 409: a play of the title is removed and the push sent again.
Conflict(p) ==
    /\ at.step = "add" /\ at.kind = "push" /\ provider = "publicmetadb" /\ p \in plays
    /\ plays' = plays \ {p}
    /\ cause' = Sweep(Sharers({p}), {})
    /\ UNCHANGED <<provider, watch, sync, queue, at, made, events>>

\* The request's answer arrives.  A batch's answer names no play.
Answered ==
    /\ Effect({})
    /\ at' = CASE at.step = "remove" /\ at.kind = "update" -> [at EXCEPT !.step = "add"]
               [] at.step = "add" /\ Cardinality(DOMAIN at.jobs) = 1 ->
                    [at EXCEPT !.step = "settle", !.made = made']
               [] at.step = "move" -> [at EXCEPT !.step = "settle", !.made = J.play]
               [] OTHER -> [at EXCEPT !.step = "settle"]
    /\ UNCHANGED <<provider, watch, sync, queue, events>>

(***************************************************************************)
(* How a delivery ends.                                                    *)
(***************************************************************************)

\* _update_watch_sync: the rows of deleted watches are gone, and removals name none.
SyncAfter(status) ==
    [w \in Watch |-> IF w \notin DOMAIN at.jobs \/ at.kind = "remove" \/ ~Live(w) THEN sync[w]
                     ELSE [status |-> status[w],
                           play |-> IF status[w] = "succeeded" /\ at.made # 0 THEN at.made ELSE sync[w].play]]

Settle ==
    /\ at.step = "settle"
    /\ sync' = SyncAfter([w \in DOMAIN at.jobs |-> "succeeded"])
    /\ at' = NoDelivery
    /\ UNCHANGED <<provider, watch, queue, plays, made, cause, events>>

Exhausted(w) == at.jobs[w].attempts >= MaxAttempts

\* The jobs that wait again, unless a successor does, with spent attempts taken off.
Requeued(S, off) ==
    [k \in Kind \X Watch |->
        IF k[1] = at.kind /\ k[2] \in S /\ queue[k] = NoJob
        THEN [at.jobs[k[2]] EXCEPT !.attempts = @ - off] ELSE queue[k]]

\* _finalize_job without an answer: retried until the attempts are used up; a job whose
\* successor waits is superseded and leaves the WatchSync alone.
Fails ==
    /\ Event
    /\ sync' = SyncAfter([w \in DOMAIN at.jobs |->
                            IF Exhausted(w) THEN "failed_permanent"
                            ELSE IF Waits(at.kind, w) THEN sync[w].status ELSE "failed_retryable"])
    /\ queue' = Requeued({w \in DOMAIN at.jobs : ~Exhausted(w)}, 0)
    /\ at' = NoDelivery
    /\ UNCHANGED <<provider, watch>>

\* A removal that ends without its play removed, and an update that looked for the play.
GivenUp == CASE at.kind = "remove" -> Blame(DOMAIN at.jobs, "refused")
             [] at.kind = "update" /\ J.play = 0 -> Blame(DOMAIN at.jobs, "abandoned")
             [] OTHER -> cause

\* The request never reached the provider, or its answer was a retryable error.
Unsent ==
    /\ at.step \in {"check", "remove", "add", "move"}
    /\ Fails
    /\ cause' = IF \E w \in DOMAIN at.jobs : Exhausted(w) THEN GivenUp ELSE cause
    /\ UNCHANGED <<plays, made>>

\* The provider did what was asked, but the answer was lost.
Unanswered ==
    /\ Effect(IF at.kind = "update" /\ at.step = "add" THEN {"resent"} ELSE {})
    /\ Fails

\* The provider refuses for good (_classify_failure).
Refused ==
    /\ at.step \in {"check", "remove", "add", "move"}
    /\ \/ Gone /\ UNCHANGED events
       \/ Event
    /\ sync' = SyncAfter([w \in DOMAIN at.jobs |-> "failed_permanent"])
    /\ at' = NoDelivery
    /\ cause' = IF Gone THEN cause ELSE GivenUp
    /\ UNCHANGED <<provider, watch, queue, plays, made>>

\* The worker dies.  Its transaction is rolled back, the attempt with it, and
\* _recover_stale_jobs queues the jobs again.
DeliveryCrash ==
    /\ at # NoDelivery
    /\ Event
    /\ queue' = Requeued(DOMAIN at.jobs, 1)
    /\ cause' = IF at.step # "settle" THEN cause
                ELSE IF at.kind = "update" THEN Blame(DOMAIN at.jobs, "resent")
                ELSE IF at.kind = "push"
                     THEN Blame({w \in DOMAIN at.jobs : at.jobs[w].attempts = 1}, "forgotten")
                ELSE cause
    /\ at' = NoDelivery
    /\ UNCHANGED <<provider, watch, sync, plays, made>>

DeliveryNext ==
    \/ \E w \in Watch : FanOut(w) \/ Resync(w) \/ Delete(w)
    \/ \E w \in Watch, d \in Day : Add(w, d) \/ Edit(w, d)
    \/ \E kind \in Kind, w \in Watch : Begin(kind, w)
    \/ \E S \in SUBSET Watch : BeginBatch(S)
    \/ \E p \in plays : CheckFinds(p) \/ Conflict(p)
    \/ CheckFindsNone \/ CheckIgnored
    \/ Answered \/ Unanswered \/ Unsent \/ Refused \/ Settle \/ DeliveryCrash

DeliverySpec == DeliveryInit /\ [][DeliveryNext]_deliveryVars

(***************************************************************************)
(* Properties.                                                             *)
(***************************************************************************)

\* A watch never has two plays at the provider, whatever is retried, unless it went through
\* one of the listed gaps; at Letterboxd, whose diary is always read first, none of the
\* gaps of retries and crashes counts.
OnePlayPerWatch ==
    \A w \in Watch : Cardinality(Of(w)) > 1 =>
        cause[w] \cap (IF provider = "letterboxd" THEN {"resynced", "swept"}
                       ELSE {"forgotten", "batched", "unchecked", "resent", "overtaken",
                             "coalesced", "abandoned", "raced", "reset", "resynced", "mistook", "swept"}) # {}

Quiet(w) == \A kind \in Kind : ~Waits(kind, w) /\ ~InHand(kind, w)

\* A watch whose WatchSync says "succeeded" and which has no job left is at the provider,
\* on the day it has here, unless another watch's delivery took its play or the edit that
\* moved it was lost.
SucceededMeansThere ==
    \A w \in Watch : Live(w) /\ sync[w].status = "succeeded" /\ Quiet(w) =>
        \/ \E p \in plays : (p.of = w \/ p.id = sync[w].play) /\ p.day = watch[w].day
        \/ cause[w] \cap {"early", "overtaken", "reset", "swept"} # {}

\* Once the jobs of a deleted watch are done, the provider keeps no play of it that the
\* deletion could know of.
DeletedLeavesNothing ==
    \A w \in Watch : watch[w].state = "gone" /\ Quiet(w) =>
        Of(w) = {} \/ cause[w] \cap {"unheard", "refused", "swept"} # {}

\* What the provider has of the title is what the history here says.
ProviderMirrorsHistory == OnePlayPerWatch /\ SucceededMeansThere /\ DeletedLeavesNothing

\* What the retry of a push is for ("retry precheck skips duplicate push_watched"): that a
\* push is sent again does not, on its own, give a watch a second play.
RetrySkipsDuplicate ==
    \A w \in Watch : Cardinality(Of(w)) > 1 => cause[w] # {"forgotten"}

=============================================================================
