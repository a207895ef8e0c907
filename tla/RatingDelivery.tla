--------------------------- MODULE RatingDelivery ---------------------------
(***************************************************************************)
(* The rating of a title at a provider: ratings that devices send or the   *)
(* user gives (core/watch_state_ratings.py, whose entry is independent of  *)
(* any watch), ratings of an imported watch (core/watch_pipeline.py), and  *)
(* the requests that deliver both (jobs/process_outbox.py).  At AniList a  *)
(* title has one list entry, whose score, status and progress the pushes   *)
(* of watches write too.                                                   *)
(* SIMKL is asked as Trakt is.                                             *)
(*                                                                         *)
(* One title and one watch of it.  A delivery holds the provider's bucket  *)
(* until its commit, so one is in hand at a time; its batch mates are of   *)
(* other titles.  Requests of the user are atomic (see Outbox for others). *)
(***************************************************************************)
EXTENDS Integers, FiniteSets

CONSTANTS
    Provider,     \* among those of RatingScopes
    Rating,
    MaxJobs,      \* bound: jobs at a time
    MaxAttempts,
    MaxEvents     \* bound: what users and others do

\* RATING_SCOPES, without Trakt's seasons, which have no watches of their own; a rating that
\* is not supported is a job that failed from the start.
RatingScopes ==
    [trakt |-> {"movie", "series", "episode"}, simkl |-> {"movie", "series"},
     publicmetadb |-> {"movie", "series", "episode"}, anilist |-> {"series"}]

ASSUME RatingProviders == Provider \subseteq DOMAIN RatingScopes
ASSUME RatingValues == "none" \notin Rating
ASSUME RatingBounds == MaxJobs \in Nat \ {0} /\ MaxAttempts \in Nat \ {0} /\ MaxEvents \in Nat

VARIABLES
    target,  \* the provider
    scope,   \* of the title that is rated
    part,    \* of the watch: the same, or an episode of the series (AniList)
    entry,   \* the independent rating
    watch,   \* its rating, and whether AniList's id of its list entry is known
    jobs,
    hand,    \* the delivery in hand
    remote,  \* what the provider has
    excuse,  \* history: why the provider need not have the rating
    shown,   \* history: the status AniList was given for a watch or at its site
    count

ratingVars == <<target, scope, part, entry, watch, jobs, hand, remote, excuse, shown, count>>

NoScore == "none"   \* of a provider, a watch, or a cleared entry
Score == Rating \cup {NoScore}
NoEntry == [at |-> 0, rating |-> NoScore]
NoWatch == [there |-> FALSE, rating |-> NoScore, known |-> FALSE]
NoJob == [kind |-> "none"]
Idle == [step |-> "idle"]
Kind == {"entry", "rating", "watch", "removal"}
Status == {"none", "PLANNING", "CURRENT", "COMPLETED", "PAUSED"}
Job == [kind : Kind, rating : Score, at : Nat, attempts : 0 .. MaxAttempts, taken : BOOLEAN, keyed : BOOLEAN]

Supported(s) == s \in RatingScopes[target]

RatingTypeOK ==
    /\ target \in Provider /\ scope \in {"movie", "series", "episode"} /\ part \in {scope, "episode"}
    /\ entry \in [at : Nat, rating : Score]
    /\ watch \in [there : BOOLEAN, rating : Score, known : BOOLEAN]
    /\ jobs \in [1 .. MaxJobs -> Job \cup {NoJob}]
    /\ hand # Idle => hand \in [step : {"send", "look", "delete", "create", "save"}, job : 1 .. MaxJobs,
                                seen : Score \cup Status]
    /\ remote \in [score : Score, status : Status]
    /\ excuse \subseteq {"refused", "overwritten", "edited"} /\ shown \in Status /\ count \in 0 .. MaxEvents

RatingInit ==
    /\ target \in Provider /\ scope \in {"movie", "series", "episode"}
    /\ part \in {scope} \cup (IF target = "anilist" /\ scope = "series" THEN {"episode"} ELSE {})
    /\ entry = NoEntry /\ watch = NoWatch /\ jobs = [s \in 1 .. MaxJobs |-> NoJob] /\ hand = Idle
    /\ remote = [score |-> NoScore, status |-> "none"]
    /\ excuse = {} /\ shown = "none" /\ count = 0

Event == count < MaxEvents /\ count' = count + 1
Active(kind) == {s \in DOMAIN jobs : jobs[s].kind = kind}
Keyed(kind) == {s \in Active(kind) : jobs[s].keyed}
Waiting(kind) == {s \in Keyed(kind) : ~jobs[s].taken}
FreeSlots(box) == {s \in DOMAIN box : box[s] = NoJob}

-----------------------------------------------------------------------------
(* Requests.                                                               *)

\* enqueue_outbox_job: a job that waits takes the new payload.  Next to one in flight, an
\* entry's successor has no key, a rating's has one unless it is the same, others have none.
\* Bound: there is a free slot.
Enqueued(box, kind, rating, at) ==
    LET new(keyed) ==
            {[box EXCEPT ![s] = [kind |-> kind, rating |-> rating, at |-> at, attempts |-> 0,
                                 taken |-> FALSE, keyed |-> keyed]] :
                s \in {f \in FreeSlots(box) : \A g \in FreeSlots(box) : f <= g}}
    IN  IF Waiting(kind) # {} THEN {[s \in DOMAIN box |->
            IF s \in Waiting(kind) THEN [box[s] EXCEPT !.rating = rating, !.at = at] ELSE box[s]]}
        ELSE IF Keyed(kind) = {} THEN new(TRUE)
        ELSE IF kind = "entry" THEN new(FALSE)
        ELSE IF kind # "rating" \/ \E s \in Keyed(kind) : jobs[s].rating = rating THEN {box}
        ELSE new(TRUE)

\* An entry is written under its lock, which the delivery of an entry holds.
EntryLocked == hand # Idle /\ jobs[hand.job].kind = "entry"

\* _write_entry and enqueue_rating_delivery: by a device, or at the edit of a watch.
Entered(box, rating, at) == IF Supported(scope) THEN Enqueued(box, "entry", rating, at) ELSE {box}
Enter(rating, at) ==
    /\ ~EntryLocked /\ at \in {entry.at, entry.at + 1} \ {0}
    /\ entry' = [at |-> at, rating |-> rating] /\ excuse' = {}

Rate(rating, at) ==
    /\ Event /\ Enter(rating, at) /\ jobs' \in Entered(jobs, rating, at)
    /\ UNCHANGED <<target, scope, part, watch, hand, remote, shown>>

\* enqueue_new, for a watch that was imported.
Import(rating) ==
    /\ Event /\ ~watch.there
    /\ watch' = [there |-> TRUE, rating |-> rating, known |-> FALSE]
    /\ jobs' \in IF target = "anilist" THEN Enqueued(jobs, "watch", rating, 0)
                 ELSE IF rating # NoScore THEN Enqueued(jobs, "rating", rating, 0) ELSE {jobs}
    /\ UNCHANGED <<target, scope, part, entry, hand, remote, excuse, shown>>

\* update_watched_item, where the watch is of the title that is rated: it writes the entry
\* and its job, and enqueue_update the watch's.
Edit(rating, at) ==
    /\ Event /\ watch.there /\ part = scope /\ rating # watch.rating /\ Enter(rating, at)
    /\ watch' = [watch EXCEPT !.rating = rating]
    /\ \E box \in Entered(jobs, rating, at) :
          jobs' \in IF rating # NoScore /\ (target = "anilist" => watch.known)
                    THEN Enqueued(box, "rating", rating, 0) ELSE {box}
    /\ UNCHANGED <<target, scope, part, hand, remote, shown>>

\* Of an episode: the series has an entry of its own.
EditPart(rating) ==
    /\ Event /\ watch.there /\ part # scope /\ rating \notin {NoScore, watch.rating} /\ watch.known
    /\ watch' = [watch EXCEPT !.rating = rating] /\ jobs' \in Enqueued(jobs, "rating", rating, 0)
    /\ UNCHANGED <<target, scope, part, entry, hand, remote, excuse, shown>>

\* delete_watched_item, with or without the provider's entry; pushes that wait are cancelled.
Delete ==
    /\ Event /\ watch.there /\ (hand # Idle => jobs[hand.job].kind \in {"entry", "removal"})
    /\ watch' = NoWatch
    /\ LET box == [s \in DOMAIN jobs |-> IF jobs[s].kind \in {"rating", "watch"} THEN NoJob ELSE jobs[s]]
       IN  jobs' \in {box} \cup IF target = "anilist" THEN Enqueued(box, "removal", NoScore, 0) ELSE {}
    /\ UNCHANGED <<target, scope, part, entry, hand, remote, excuse, shown>>

\* At the provider's site.
SiteRates(rating) ==
    /\ Event /\ rating # remote.score
    /\ remote' = [score |-> rating, status |-> IF target = "anilist" THEN "COMPLETED" ELSE "none"]
    /\ shown' = remote'.status /\ excuse' = excuse \cup {"edited"}
    /\ UNCHANGED <<target, scope, part, entry, watch, jobs, hand>>
SitePauses ==
    /\ Event /\ target = "anilist" /\ remote.status # "PAUSED"
    /\ remote' = [remote EXCEPT !.status = "PAUSED"] /\ shown' = "PAUSED"
    /\ UNCHANGED <<target, scope, part, entry, watch, jobs, hand, excuse>>

-----------------------------------------------------------------------------
(* Deliveries.                                                             *)

Claim(s) ==
    /\ jobs[s] # NoJob /\ ~jobs[s].taken
    /\ jobs[s].keyed => \A r \in Keyed(jobs[s].kind) : ~jobs[r].taken
    /\ jobs' = [jobs EXCEPT ![s].taken = TRUE]
    /\ UNCHANGED <<target, scope, part, entry, watch, hand, remote, excuse, shown, count>>

\* Mutant: what was queued is sent.
StaleNever(job) == FALSE

\* The job of an entry that has changed (OutboxDispatcher.deliver).
Stale(job) == job.at # entry.at \/ job.rating # entry.rating

\* _superseded_history_rating: there is an entry for what the watch is of.
Superseded == Supported(part) /\ part = scope /\ entry # NoEntry

Skipped(job) == (job.kind = "entry" /\ Stale(job)) \/ (job.kind = "rating" /\ Superseded)

FirstStep(kind) ==
    IF target = "publicmetadb" \/ (target = "anilist" /\ kind = "entry") THEN "look" ELSE "send"

Begin(s) ==
    /\ hand = Idle /\ jobs[s] # NoJob /\ jobs[s].taken
    /\ IF Skipped(jobs[s])
       THEN jobs' = [jobs EXCEPT ![s] = NoJob] /\ UNCHANGED hand
       ELSE hand' = [step |-> FirstStep(jobs[s].kind), job |-> s, seen |-> NoScore] /\ UNCHANGED jobs
    /\ UNCHANGED <<target, scope, part, entry, watch, remote, excuse, shown, count>>

Now == jobs[hand.job]

\* _finalize_job; E is why the provider need not have the rating.
Finish(E) == jobs' = [jobs EXCEPT ![hand.job] = NoJob] /\ hand' = Idle /\ excuse' = E
GivesUp(E) == Finish(IF Now.kind = "entry" THEN E \cup {"refused"} ELSE E)
Retry(attempts, E) ==
    IF attempts >= MaxAttempts THEN GivesUp(E)
    ELSE /\ hand' = Idle /\ excuse' = E
         /\ jobs' = [jobs EXCEPT ![hand.job] =
                IF Now.keyed /\ Waiting(Now.kind) # {} THEN NoJob
                ELSE [@ EXCEPT !.taken = FALSE, !.attempts = attempts]]

\* An error before anything happened: to be tried again, a 429, or for good.
RefusedAtOnce ==
    /\ hand # Idle
    /\ Retry(Now.attempts + 1, excuse) \/ Retry(Now.attempts, excuse) \/ GivesUp(excuse)
    /\ UNCHANGED <<target, scope, part, entry, watch, remote, shown, count>>

\* The worker dies; the attempt is not counted.
Dies == hand' = Idle /\ jobs' = [jobs EXCEPT ![hand.job].taken = FALSE]
WorkerCrash ==
    /\ hand # Idle /\ Dies
    /\ UNCHANGED <<target, scope, part, entry, watch, remote, excuse, shown, count>>

\* A request that looks: at PublicMetaDB for the rating, at AniList for the list entry.
Found == IF target = "anilist" THEN remote.status ELSE remote.score
LookUp ==
    /\ hand # Idle /\ hand.step = "look"
    /\ IF Found = "none" /\ Now.rating = NoScore THEN Finish({})
       ELSE /\ hand' = [hand EXCEPT !.seen = Found, !.step = IF target = "anilist" THEN "save"
                                                          ELSE IF Found = "none" THEN "create" ELSE "delete"]
            /\ UNCHANGED <<jobs, excuse>>
    /\ UNCHANGED <<target, scope, part, entry, watch, remote, shown, count>>

\* What comes of the last request: its answer, an error although it was done, or a crash.
Answered(E) == Finish(E) \/ Retry(Now.attempts + 1, E) \/ (Dies /\ excuse' = E)
Written == IF Now.kind = "entry" THEN {} ELSE excuse

\* PublicMetaDB deletes the rating it found, then creates another; its answer to a rating
\* that came in between is 409, which for good is the end.
Remove ==
    /\ hand # Idle /\ hand.step = "delete"
    /\ remote' = [remote EXCEPT !.score = NoScore]
    /\ IF Now.rating = NoScore THEN Answered({})
       ELSE \/ Retry(Now.attempts + 1, excuse)
            \/ hand' = [hand EXCEPT !.step = "create"] /\ UNCHANGED <<jobs, excuse>>
    /\ UNCHANGED <<target, scope, part, entry, watch, shown, count>>
Create ==
    /\ hand # Idle /\ hand.step = "create"
    /\ IF remote.score # NoScore THEN GivesUp(excuse) /\ UNCHANGED remote
       ELSE remote' = [remote EXCEPT !.score = Now.rating] /\ Answered(Written)
    /\ UNCHANGED <<target, scope, part, entry, watch, shown, count>>

\* _deliver_anilist_rating of an entry: the score, with the status that was found.
Saved == IF hand.seen = "none" THEN "PLANNING" ELSE hand.seen
SaveEntry ==
    /\ hand # Idle /\ hand.step = "save"
    /\ remote' = [score |-> Now.rating, status |-> Saved] /\ Answered({})
    /\ shown' = IF remote.status = hand.seen THEN shown ELSE hand.seen   \* it changed since the look
    /\ UNCHANGED <<target, scope, part, entry, watch, count>>

\* What AniList makes of the push of a watch, of its rating, and of its removal.
AniListAfter ==
    IF Now.kind = "removal" THEN [score |-> NoScore, status |-> "none"]
    ELSE [score |-> IF Now.rating = NoScore THEN remote.score ELSE Now.rating,
          status |-> IF Now.kind = "watch" /\ part = "episode" THEN "CURRENT" ELSE "COMPLETED"]

\* The other pushes.  At AniList those of watches, episodes and removals write over the rating.
SendPush ==
    /\ hand # Idle /\ hand.step = "send"
    /\ IF target = "anilist"
       THEN /\ remote' = AniListAfter /\ shown' = remote'.status
            /\ \E E \in {excuse \cup IF Now.kind = "rating" /\ part = scope THEN {} ELSE {"overwritten"}} :
                  \/ Answered(E) /\ UNCHANGED watch
                  \/ Finish(E) /\ watch' = [watch EXCEPT !.known = @ \/ Now.kind = "watch"]
       ELSE remote' = [remote EXCEPT !.score = Now.rating] /\ Answered(Written) /\ UNCHANGED <<shown, watch>>
    /\ UNCHANGED <<target, scope, part, entry, count>>

RatingNext ==
    \/ \E rating \in Score : \/ Import(rating) \/ EditPart(rating)
                             \/ \E at \in {entry.at, entry.at + 1} : Rate(rating, at) \/ Edit(rating, at)
    \/ \E rating \in Rating : SiteRates(rating)
    \/ Delete \/ SitePauses
    \/ \E s \in DOMAIN jobs : Claim(s) \/ Begin(s)
    \/ RefusedAtOnce \/ WorkerCrash \/ LookUp \/ Remove \/ Create \/ SaveEntry \/ SendPush

RatingSpec == RatingInit /\ [][RatingNext]_ratingVars

-----------------------------------------------------------------------------
(* RatingSettles: once no job of the independent rating is left, the       *)
(* provider has that rating, whatever was retried, overtaken or asked for  *)
(* twice, and whatever ratings of watches were queued before it.  Unless   *)
(* the last job was refused for good, or somebody rated the title at the   *)
(* provider, or AniList's entry was written for a watch.                   *)
RatingSettles ==
    (Supported(scope) /\ entry # NoEntry /\ Active("entry") = {} /\ excuse = {}) => remote.score = entry.rating

(* RatingsLeaveStatus: an independent rating puts a title that AniList     *)
(* does not list on it as planned, and leaves the status of others: what   *)
(* was last shown there for a watch, or by the user, is still there.       *)
RatingsLeaveStatus ==
    target = "anilist" => remote.status = shown \/ (shown = "none" /\ remote.status = "PLANNING")

(* RatingsSettle: both, at whatever step a delivery, a crash or a request  *)
(* of the user is.                                                         *)
RatingsSettle == RatingSettles /\ RatingsLeaveStatus
=============================================================================
