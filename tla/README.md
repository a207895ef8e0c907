# Verification of librarySync

librarySync keeps a user's watch history, ratings and watchlists in step with
Trakt, SIMKL, Letterboxd, Stremio, AniList and PublicMetaDB.  Web requests,
worker loops of several processes, importers and an addon protocol write one
PostgreSQL database and talk to the providers.  This directory models the parts
in which the order of those steps matters, checks them with TLC and proves
results about eight of them with TLAPS.

Paths below are relative to `src/backend/src/librarysync/`.

- [Inventory](#inventory)
- [Modules](#modules)
- [Runs](#runs)
- [Disagreements with the code's own words](#disagreements-with-the-codes-own-words)
- [Other observations](#other-observations)
- [Proofs](#proofs)
- [What is left out](#what-is-left-out)
- [Plan](#plan)

## Inventory

`PROJECT.json` lists every component with its status and, under `hazards`, what
is hard to test in each.  These are the ones with state and concurrency of their
own.

**Outbox** (`core/watch_pipeline.py`, `jobs/process_outbox.py`).
State: `OutboxJob` rows with a status, a dedupe key, a payload, attempts and
`run_after`; `WatchSync` rows that tell the user whether a watch reached a
provider.  Clients (API requests, imports, jobs) queue a job in the transaction
that makes the change, coalescing it into a waiting job of the same key.
Workers claim jobs with `FOR UPDATE SKIP LOCKED`, deliver them alone or in
batches under a rate limit, and finish, requeue, throttle or release them; a
job left in progress longer than `outbox_stale_minutes` is recovered.  A handler
per provider turns a job into requests, looking first where a request may be a
repeat.  Hard: two kinds of row lock, rows read before they are locked, workers
that die or hang between the provider's answer and their commit, answers that
are lost, ids of the provider that a later edit must know.  Correct when the
newest payload wins, nothing is pushed after a deletion, every job settles,
`WatchSync` tells the truth and the provider comes to show what the history says.

**Independent ratings** (`core/watch_state_ratings.py`).  A rating that belongs
to a title, not to a watch, is delivered next to the older ratings of watches,
under the lock of its state entry.  Correct when the newest one is what the
provider ends with, and AniList's status of a title is not touched.

**Rate limiter** (`core/rate_limiter.py`).  One token bucket per user and
provider, drawn under a row lock in the transaction that sends.  Hard: the
clock is read before the lock, the first two users insert the row, a rollback
gives the token back.  Correct when the requests of any window are bounded and
the returned `retry_at` is late enough.

**Scheduler leases** (`core/scheduler.py`, `core/worker_identity.py`,
`worker.py`).  A row per background job with the end of its lease, the owner
and the next run.  Hard: loops that outlive their lease, dead processes,
several loops of one process.  Correct when the lease excludes, a late loop
disturbs nobody and the job always runs again.

**Watchlist** (`core/watchlist*.py`, `api/routes_watchlist.py`,
`jobs/watchlist_pipeline.py`, the importers).  `WatchlistItem` rows with a
status and an origin, links to the sources that list them, the provider's own
lists, read page by page.  Hard: lists that change while they are read, several
sources per row, drops against stale lists, deliveries retried out of order.
Correct when what was added by hand stays, a drop is sticky, what a list holds is
not removed, and an undisturbed import mirrors the provider.

**Watch-state protocol** (`core/watch_state_*.py`, `jobs/watch_state.py`,
`api/routes_addon_watch_state.py`).  Devices push events, which are kept as
receipts, turned into newest-wins entries, history and list membership, and pull
complete snapshots guarded by a version.  Hard: duplicated and reordered pushes,
mapping that resolves later, snapshots read while imports write.  Correct when
the newest event wins, a clear removes what it should and nothing else, and a
device never holds a mixture of two states.

**Import runs** (`jobs/imports.py`, `core/import_*.py`,
`api/routes_integrations.py`).  One JSON document per user holds both kinds of
run, the queue and position, a lease with a token per claim, and the flags that
block the outbox until the merge of duplicates ran; loops, requests and the merge
write it back whole.  Correct when a completed run imported everything, one loop
imports at a time, and the outbox is neither served too early nor blocked for ever.

**Importers** (`jobs/*_import.py`, `jobs/import_pipeline.py`).  A snapshot of the
provider's history, the keys of what was imported before, what the user cleared,
and a commit; SIMKL keeps a cursor.  Correct when a play becomes one watch,
nothing is passed over, and what was cleared or deleted stays so.

**Catalogue** (`db/models.py` `MediaItem`, `EpisodeItem`; the find and create
functions of every writer).  Titles named by subsets of their ids, with unique
constraints on some.  **Merge of duplicates** (`jobs/merge_history.py`) and
**merge of titles** (`api/routes_admin.py`) fold rows that others refer to.

**Integration tokens** (`core/integration_tokens.py`).  Refresh tokens that may
be used once, refreshed under the lock of the secret's row.

**External catalogs** (`core/external_catalog.py`,
`jobs/external_catalog_refresh.py`) and **metadata lookups**
(`jobs/metadata_lookup.py`, `core/metadata_lookup_engine.py`,
`api/routes_metadata.py`).  Queues of slow requests to other services, with
failures that must not spoil their neighbours.

The rest is I/O, data or CRUD: authentication, dashboards, the frontend, the
calendar, retention, migrations, packaging.

How they interact: a request, a push of a device or an import changes the history
and queues outbox jobs in one transaction; a worker draws from the rate limiter
and refreshes a token while it delivers; an import blocks the outbox of its user
until duplicates are merged; imports and pushes change what snapshots are made of;
deliveries change the lists and histories the next import reads.

## Modules

| Module | Models | State and actions |
| --- | --- | --- |
| `Outbox` | queue, worker, deletion, `WatchSync` at the level of rows and sessions | committed rows `jobs`, each session's ORM copies `loaded`, the unit being sent `draft`, open client transactions `tx`; `EnqueueRead`/`EnqueueCommit`, `DeleteRead`/`DeleteCommit`, `Claim`, `Begin`, the provider's answers, `Commit`, `Release`, `Crash`, passing time |
| `Delivery` | the plays of a title at Letterboxd, Trakt, SIMKL or PublicMetaDB | watches, their syncs and jobs, the delivery in hand and its next request, the provider's plays |
| `RatingDelivery` | an independent rating among those of watches, and AniList's list entry | the entry, the watch, their jobs, the delivery in hand, the provider's score and status |
| `WatchedBitField`, `SeriesField` | Stremio's one field per series; its deliveries and import | list of videos, older copies of it, watched episodes, jobs, the delivery in hand, the field |
| `RateLimiter` | `try_acquire` within its caller's transaction | bucket, each session's clock reading; `Stamp`, `Look`, `Insert`, `Grant`, `Refuse`, `Commit`, `Rollback` |
| `ScheduledLease` | claim, extend, complete, fail, release of one job | the row, the loops inside their run |
| `Watchlist` | rows, sources, imports and deliveries of one user | `item`, `linked`, the provider's lists, the import's position and fetched list |
| `Listing` | a list read page by page and reconciled | parts, pages read, completeness, links |
| `WatchStatePull` | version-gated snapshots | tables and counters, the cached snapshot, each pull's position; one action per statement |
| `WatchStatePush` | receipts and what they do | receipts, entries, watches, the list item; push, drain, mapping, the user's edits |
| `ImportRuns` | both kinds of run and the merge flag | the document, each loop's claim, requests between read and commit |
| `HistoryImport` | six importers | the provider's plays, watches, event keys, clears, the cursors, runs with the parts to come, the entries left and those checked |
| `TokenStore`, `TokenRefresh` | what the tokens promise; the protocol under the row lock that implements it | token accepted, token stored, lock, each worker's copy |
| `MediaIdentity` | look-up, creation and filling of catalogue rows | rows, each transaction's look-ups so far |
| `MergeHistory` | merge of duplicate watches | watches, syncs, jobs, the merge between load and end |
| `MediaMerge` | merge of titles by an administrator | rows, ids, episodes, plays, list items, jobs, the request |
| `ExternalCatalog` | refreshes by the job and by requests | listings at their sources, catalogs, tasks |
| `MetadataLookup`, `CandidateGroups` | claims and answers of lookups; what a user chooses from | requests, candidates, workers' batches |

The same part of the program is modelled at two grains where one would be too
large: `Outbox` has sessions, locks and commits and an opaque provider;
`Delivery`, `RatingDelivery` and `SeriesField` take a job's claim as one step and
have the provider's requests one by one.  They may: a worker holds the row lock of
the user's bucket for the provider from its begin to its commit, so one delivery
of a provider is in hand at a time, and `Outbox` shows what the queue does to
jobs.  Likewise `Watchlist` takes a fetch as one step that `Listing` takes apart,
and `ImportRuns` has the runs whose content is in `HistoryImport`.

Constants with names like `MaxJobs`, `MaxEvents` or `MaxFaults` are bounds and are
commented as such.  Variables commented "history" are read by no action of the
program's: properties use them to say what must have happened for something to
be excused.  Each such excuse is a gap of the code, listed under
[Other observations](#other-observations); without it the property fails.

### Outbox

A session is a worker or a client.  What a session loads stays in its identity
map until its next commit, so `loaded` may be older than `jobs`; a commit writes
only the columns that differ from what was loaded (`Written`), as SQLAlchemy
does.  Row locks are predicates on where the sessions are: a worker shares the
watches of its unit until it commits (`Sharing`), a deletion waits for them, an
independent rating holds its entry (`EntryLockedByWorker`).  Targets (`Key`) are
of the kinds of dedupe key the code has; sets of keys say which kinds may queue a
successor next to a job in flight, stand for a watch or an entry, or go in
batches.

Abstractions: one user and one provider; payloads are opaque; a claim is one
step, because it is one transaction under row locks; the locks, the token and
the entry are acquired in one step `Begin`; a dying worker's request takes
effect before its locks are released; pruning, `SyncAttempt`, error texts
and the order between users are left out.  Three restrictions are constants:
`SlowWorkers` (may a worker outlive the stale window), `ClientOverlap` (may a
client's transaction overlap a claim; `FALSE` makes client transactions atomic),
`Limited` (is there a bucket).

### Delivery, RatingDelivery, SeriesField

`Delivery`: two or more watches of one title.  `CASE provider` says which request
each handler begins with; requests may fail before or after they took effect, and
a crash rolls the attempt count back.  `cause` records, per watch, which gap of
the code a history went through; `OnePlayPerWatch`, `SucceededMeansThere` and
`DeletedLeavesNothing` hold but for the gaps they name, fewer at Letterboxd, whose
diary is always read first.

`RatingDelivery`: an entry's jobs have one key for ratings and for clears, and a
successor next to a job in flight has none, so that several can be waiting;
whatever their order, one that is not of the present entry is not sent.  Ratings
of watches are dropped once there is an entry for what they are of.  SIMKL is
asked as Trakt is; ratings of seasons, which only Trakt takes, are left out.
PublicMetaDB's rating is deleted and made again, AniList's list entry is read and
saved with the status that was found.

`SeriesField`: each job writes the whole field, computed from the local history
when it runs (`Build`), and is skipped while a later job of the series waits.  Any
episode may be watched, listed or not.  The list of videos may grow at either end,
and a delivery or an import may go on with one that its process fetched before
(`cached`; for how long, two hours in the code, is left out).  Watches that the list
lacks and specials get no mark, and the job succeeds all the same (`omitted`,
`Specials`); so does one with nothing to send (`Unsent`), and with it those that were
skipped for it (`lost`).  An import may leave an unknown mark alone, because of an
earlier import's event, a clear or the blacklist.

### RateLimiter, ScheduledLease

Time and tokens are whole units.  A session's reading of the clock may be older
than the readings of those that came before it, which is what happens when it
waits for the row lock.  `RequestsBounded` therefore holds with what the code
really allows: capacity, refill, the age of late readings (`waited`) and tokens
that were given back after the request was sent (`refunded`).

Every operation of the scheduler is one transaction under the row's lock, hence
one step.  Durations are relative and count down with `Tick`.  The two inserts
of a first claim race on the primary key and the second fails, which is a claim
that was refused.

### Watchlist, Listing

A request or job is one transaction, except for adding a title, which commits
the row before its link and its push (`Add`, `AddFinish`, `AddCrash`).  An
import fetches each list in a step of its own and processes it in a later one,
so that the user, the provider's site and deliveries act in between.  A fetch may
fail or be complete only in part.  Deliveries abstract the outbox as far as it
concerns this component: at most one waits per kind and row, they are sent in any
order, partially applied, retried or given up.  Left out: rewatch requests, the
legacy statuses, anime against shows, air dates (a constant says what is not
released), several providers at once.

`Listing` has Trakt, Letterboxd, AniList and SIMKL's two lists, each with its rule
for when to stop and when not to reconcile.  The list changes between pages.

### WatchStatePull, WatchStatePush

Every read of a pull is a statement of its own and sees what is committed then.
A version is the triple of the user's revision, the catalog's revision and the
date, which are read one after the other.  A transaction counts once, however
many rows it changes.  Pushes are writers like any other; that they take the
user's lock only makes them wait.  The playback positions, which every answer
takes fresh and no version covers, are left out.  The status page is a pull
that holds no version.

A push holds the user's row, so it is one step.  A drain holds it, too, from its
first receipt to its commit: it takes a step for each receipt of its `batch`, and
others wait until the batch is empty, save that access may be switched off in
between.  A drain that dies leaves nothing behind and is as if it had not begun.  A
video may be known by an absolute number whose episode is found later, in which case
the two ids have an entry each.  A receipt may be impossible to process for good
(`stuck`).

### ImportRuns, HistoryImport

A loop's claim copies the document; what it writes back after the provider's
import is the copy with its own changes, as the code does under the row lock it
takes again.  A request or the merge job writes the whole document as it read it.
`raced` and `overdue` record that a stale document was written, or a lease
outlived.

A run of `HistoryImport` fetches one part of the history after the other (movies and
shows; Stremio's chunks of ids) and takes the entries of each in batches: it reads
the keys and clears of a batch, and commits it, before it goes on.  It may die
between any two of these steps, with what was committed in place.  SIMKL's first
asks for the activities (`Ask`), or is not told and goes on without (`AskInVain`);
the time to start from, the categories and the cursors of each, `simkl_activity_all`
and `simkl_activity_<category>`, follow the code's cases, also where earlier runs
have committed plays but left no cursor.  What such a run will put behind the cursor
although nobody has asked for it is kept in `passed`, with the reason in `why`: the
window of a quick import with no plays imported yet, a restart without a cursor, or
a tie with the category's cursor.  Days are the unit of all times.  The importers
differ in their windows, entry keys, use of the pipeline and what they take for a
pushed watch.  Of the batches' size only that there are several is kept, and of a
fetch that fails in part AniList's statuses and Stremio's chunks.

### TokenStore, TokenRefresh

`TokenStore` is the abstract specification: a stale token is refreshed once,
whoever needs it, and the store holds the latest.  `TokenRefresh` has the row
lock, the second look and the commit of a worker's own transaction;
`RefreshedOnce` says that it implements `TokenStore` under the mapping
`current`, `stored`, `fresh`: a rotation counts once it is committed or lost.

### Catalogue, merges, catalogs and lookups

`MediaIdentity`: a source looks a title up by one id after the other; each look-up
is a step, and other transactions write between them.  The flush fails as a whole
if a unique constraint breaks.  `MergeHistory` loads all watches, then reads the
syncs and jobs of a group and commits it, one group at a time, while the user adds,
edits and deletes watches and pushes are queued and answered.  Two histories say
which watches of the groups left were edited since the load (`edited`) and of which
of the group at hand a sync has changed since it was read (`pushed`): only the group
they are in is excused.  `MediaMerge`
follows the statements of one transaction: what it loaded is stale, what it
updates by statement is not, and the unique constraints are tested in the order
in which the flush writes.  `ExternalCatalog` has the job's one session for all
catalogs, which a rollback expires.  `MetadataLookup` claims requests in a batch and
processes them one by one.  `CandidateGroups` is an algorithm: its only action
is an answer that arrives, its property compares the groups with the transitive
closure of sharing an id.

## Runs

A run of a sum checks several systems that do not touch each other.  They all begin
together, a variable `which` names the one that moves, and the others stay as they
begin; so the states are those of the systems one by one, and a property says
`which = "..." => ...` of its own.  The sums are grouped by what they are about
and kept small enough to explore in minutes.

| Run | Question | Size |
| --- | --- | --- |
| `outbox` | Does the newest payload of a watch win with a truthful `WatchSync`, is nothing pushed after a deletion, is no outdated rating sent? Three scenarios. | 1.4 million states |
| `live` | Does everything that must happen happen? Leases, outbox, pulls, tokens, imports, catalogs, lookups, receipts, each with faults. | 92 thousand |
| `services` | Rate limit, marks and lists of devices, tokens, six histories in parts and batches, a paged list, ratings at three providers. | 1.6 million |
| `library` | Snapshots, plays at four providers, a series at Stremio, import runs, titles, both merges, lookups and their groups. | 1.0 million |
| `watchlist` | What stays, what goes, what mirrors the provider: a show and a movie, three changes. | 5.8 million |
| `outbox_lost` | violated, see 1 below | |
| `lease_shared` | violated, see 2 | |
| `watchlist_restore` | violated, see 3 | |
| `watchlist_status` | violated, see 4 | |
| `delivery_crash` | violated, see 5 | |
| `history_anilist` | violated, see 6 | |
| `imports_retry` | violated, see 7 | |

A property of a sum may gather several of a module: `ProviderMirrorsHistory` is
`OnePlayPerWatch`, `SucceededMeansThere` and `DeletedLeavesNothing`,
and `KeepsWhatIsListed` is `ListedStays` and `GoneIsDropped`;
the comment at each names its parts.

Bounds, and why they are enough:

- `outbox`: `MaxJobs` is the number of rows ever inserted.  Two rows give a job
  in flight and its successor, or two plays of a batch (`OneJobEach`).  Two attempts, in
  the scenario of updates, distinguish a retry from the last, and three disruptions let
  a worker crash twice around an import.  Pushes suffer no crash there: a crash only
  adds the retries that `Delivery` has.  No worker of the first two scenarios outlives
  the stale window; the rating's may.  All six properties are also theorems, which
  have none of these bounds.
- Deliveries: two watches of two days, two disturbances, four plays: a repeat, a
  move and a play of the other watch all fit.  Ratings: three jobs (one in flight,
  its successor, one of a watch) and three changes; a movie stands for the titles that
  Trakt and PublicMetaDB rate, whose scopes the code treats alike.  The series has three
  videos, one a special, of which one to three are listed at first, so that it grows at
  either end; two jobs, so that one is skipped for the other, and two events.  Each
  excuse of its properties is needed: without it TLC finds a violation.
- `RateLimiter`: two sessions, four units of capacity, two per request, three ticks: a
  full bucket, an empty one and one that refills to a fraction all occur.
- `ScheduledLease`: the lease, the interval and the retry delay are different
  lengths, and nothing else is bounded but the deaths.
- `Watchlist`: `MaxEvents` bounds the changes made by hand, here or at the
  provider; imports and deliveries are not bounded.  The restore needs four
  changes, which only the violated runs have.
- Pulls: two tries instead of three still distinguish the last; one committed write
  can hit each gap of a pull.  The proofs have none of these bounds.
- Pushes: three receipts, which are two in the wrong order and a repeat; a third
  only where no edit and no clash happens.
- Imports: two loops and two requests, two providers, one fault.  Histories: one
  play of each importer with a quick and a full run at once, a change by the user and
  a mishap (for SIMKL's either), and for SIMKL's cursors two plays, of a movie and of
  a show, with both runs and a mishap; two days and a window of the day itself, so
  that plays fall out of it, and one mishap, so that a run dies between the movies
  and the shows and a full one follows.  TLC finds
  `CursorMissesNothing` violated without the excuse "window", "restart", "tie" or
  "failed"; the others of its excuses ("undated", "backdated", "refused",
  "forgotten") need more days or acts than that and are only met by the proof, which
  has none of these bounds.
- Tokens: three tokens, that is two rotations; a lookup, a catalog, a merge: two of
  everything that can collide.  Titles: a film, a show and an episode whose numbers
  coincide.

The bounds stop the systems, so the sums say `CHECK_DEADLOCK FALSE`; that nothing
hangs is what `live` is for.  Symmetry is used where the module orders none of
the values: workers, clients, payloads, watches, ids.  The run of liveness uses none.

Fairness (`live`).  One system moves per behaviour, so the union of one action of
each system is as fair as each of them is; this keeps the number of fairness
conditions small (`Union`).

- Leases: time passes, loops poll (`worker.py`) and runs end.
- Outbox: weak fairness of the worker's steps, of commits and of time; strong
  fairness of `Claim` and `Begin`, which an import or an empty bucket disables again
  and again, and of an answer other than 429, since a provider that throttles for
  ever is never done by design.
- Pulls: devices poll and their requests are served.  Nothing is assumed of writers.
- Tokens: calls return, and PostgreSQL grants a row lock to who waits for it
  (strong fairness, per worker).
- Imports, catalogs, lookups, receipts: the loops poll, requests end, time passes.
  Nothing is assumed of the user or of faults, whose number is bounded.

Every property of a passing run has a mutant in `PROJECT.json`: a definition of
the code in a plausibly wrong form, written next to the right one, under which
TLC finds the property violated.

## Disagreements with the code's own words

1. **A newer payload can be lost** (`outbox_lost`).  `enqueue_outbox_job`
   promises that a newer payload queued while one is in flight is delivered.  It
   selects the waiting row without a lock; a worker may claim, deliver and finish
   that row before the client commits, and the newer payload ends on a row that
   is done.  If the row had failed before, the commit also writes "pending" over the
   claim, and a second worker takes the job while the first is sending it.
2. **A late loop disturbs its sibling** (`lease_shared`).  The lease's owner is
   the process, and one process runs several loops of a job's mode: a loop whose
   lease expired passes for the loop that took the job over.
3. **A restored show is hidden again** (`watchlist_restore`).  The removal queued
   by the drop and the push queued by the restore have different dedupe keys, so
   a retried removal may come last.
4. **No episode counts as watched** (`watchlist_status`).  The query compares a
   column with `is None` in Python; the evaluation after a watch computes a status
   from zero watched episodes.
5. **A retry after a crash repeats the push** (`delivery_crash`).  The attempt is
   counted in the session and rolled back by the crash, so the recovered push takes
   itself for the first and skips the look that is to prevent duplicates.
6. **A snapshot undoes a clear** (`history_anilist`).  The check that "a delayed
   provider snapshot must not undo an explicit clear" is in the pipeline;
   AniList's importer writes its watches without it.
7. **A failed quick import never stops** (`imports_retry`).  Recording a failure
   keeps `requested_at`, which the next poll takes for a run to begin.

The properties of the passing runs hold with these behaviours in the model:
`ClientOverlap` is `FALSE` only in the scenario of updates, whose properties the
first one breaks, and the leases' exclusion is stated for one loop per process.

## Other observations

Met while modelling; the modules have these behaviours unless said otherwise, and
the properties name the ones they must except.

Deliveries.
- An update queued while another is in flight carries the id of the play that one
  replaces; an update retried after a lost answer adds a second play; pushes sent in
  batches are repeated without a look.
- A Letterboxd edit made before the entry's id is known is never sent; a retried
  push resets a day edited meanwhile; two watches of a day share an entry.
- A deletion with no known id removes all plays of the title at Trakt; one whose
  push's answer was lost leaves Letterboxd's entry.
- Clearing a rating of a watch leaves `WatchSync` "pending" with no job.
- A Stremio job skipped for one that is then cancelled, given up or has nothing to send
  is reported as delivered; a list of videos that shrinks at its front loses marks.
- An episode that Cinemeta's list lacks, or lacked up to two hours ago in the cache
  of that process (`connectors/services/stremio.py` 15, 170), gets no mark and
  `WatchSync` says "succeeded" (`jobs/process_outbox.py` 2440); a process with an
  older list also takes away the mark another has set.  Specials are never marked
  (2564), and a special's mark set in Stremio goes with the next delivery.  A
  removal that finds Cinemeta's list empty passes for delivered and leaves the mark
  (2336); so does a push when only specials are watched (2292).
- AniList: the removal of one episode's watch deletes the show's entry with its
  independent score; a watch's push and an episode's rating overwrite that score; a
  rating saves the status it read, over one that was changed in between.
- PublicMetaDB: a rating is deleted before it is made again, so a refusal for good
  of the second request loses it.

Imports.
- Stremio's fallback to the whole library calls `_import_library_item` without
  `now`, fails for every item and imports nothing.
- SIMKL's cursor passes entries that failed or are dated back.  Moreover
  (`jobs/simkl_import.py` 271–295): after a run that committed movies and failed at
  the shows, was not told the activities, or is still running, the next finds plays
  but no cursor; a full import then starts at the latest activity and a quick one at
  its window, and what was not imported is behind the cursor for good.  What is
  older than the window of a quick first import stays behind as well: a full import
  asked for later starts at the cursor, although the repository's README gives its
  window as the full history (`-1`).  And a change at the very time of its
  category's cursor is not asked for.  Undated movies are keyed by the day of the
  run.  Trakt, SIMKL, Letterboxd and AniList hand back pushed plays as watches of
  their own.
- A request or the merge that writes back a document it read earlier forgets an
  import triggered, or settings changed, in between.
- An entry removed from a page already read pulls another past the reader, which is
  then reconciled away; AniList does not tell that its page cap cut a list off.
- Trakt and SIMKL never look a show up by its TVDB id but create it with one, so
  an entry of a show that exists breaks a constraint each time.  Providers' own ids
  have no constraint, and two transactions make twins.

Merges.
- `_merge_media` of `jobs/merge_history.py` (297) and the merge of titles copy ids
  to the row that stays while the other row still has them: the constraint fails, the
  merge of that user every time, and with it the outbox of the user stays blocked
  (not in `MergeHistory`, which has the case without a copy; in `MediaMerge` such a
  merge aborts).  After one user's failure the session's other rows are expired and
  the users after it are not merged.
- Edits and deletions of a watch of a group between the load and the group's commit
  lose plays; a push answered while the group is merged is forgotten.  Jobs
  repointed keep their dedupe keys.
- In the merge of titles a play inserted between the update of plays and the
  deletion is deleted with the row.

Watch state, tokens, catalogs, lookups.
- Two ids of one episode have an entry each and may disagree.  Receipts that can
  never be processed stay pending, and as many as a batch hold up all others.
- A refresh whose secret a disconnect removed stores credentials again, over a
  new connection's too; a lost answer leaves a spent refresh token.
- After one external catalog fails, the rollback expires the rows of the others,
  which fail too; order by `updated_at` lets them catch up in later runs.
- Lookups claimed together are processed one by one, and a request that has waited
  five minutes is claimed by another worker too.

## Proofs

TLC checks small instances; the theorems hold for every value of the constants
that satisfies the named assumptions.  All are safety results; the modules
proved about have no recursive operator.

- `OutboxProofs`.  `TypeCorrect`.  `DeletedStaysDeleted`: what makes it inductive is
  that a worker that has begun to send shares the lock of each watch it sends, and
  that those watches are live; a deletion needs that no unit shares its watch.
  `RatingsAreCurrent`: the unit holding an entry's lock holds the payload the entry
  has, so no second worker and no client changes it before the request is out.
  Neither needs the jobs to be handled one at a time.  `HoldersAreUnique` does: of
  the jobs in progress at most one has a given key, and of those waiting
  (`OneInProgress`, `UniqueWaiting`, of the rows); a worker's copies are of rows it
  claimed and a client's of rows that wait, which keeps every commit within that
  (`HeldInProgress`, `WorkerDrafts`, `ClientDrafts`).  `NewestIsDelivered`,
  `PendingIsServed` and `SucceededIsCurrent` rest on one invariant, `DInv`.  Per
  target (`TargetOK`): a waiting job carries the newest payload, or if none waits
  the one in progress does; with nothing queued a success is at the provider;
  `WatchSync` agrees with the rows.  That survives a commit only because of what the
  sessions' copies say, each to be carried along: a row a worker holds differs from
  its copy in times and counts alone (`HeldAlike`); a worker gives a job up only for
  one that waits and calls it delivered only when the provider has its payload,
  which stays so until its commit, since nobody else holds that key (`SoundDrafts`,
  where `HoldersAreUnique` comes in); and an open transaction of the client has
  either made the only waiting job or found the payload in progress (`SoundTx`).
  Commits of whole batches are proved target by target: at most one row of a target
  is taken, leaves or is queued (`TakeOK`, `LeaveOK`, `QueueOK`).
- `ServicesProofs`, of four components that do not interact.  For the rate limiter,
  `LimiterTypeCorrect`, `LimiterBoundsRequests` and `RetryAtIsEnough`.  The
  invariant is a conservation law: what was sent in the window, what the bucket
  still holds and what rolled-back grants returned add up to no more than capacity
  and refill, where refill is counted from readings that may be late.  For the
  tokens, `TokenTypeCorrect`, `TokensStayCurrent`, and `RefreshesOnce`, the
  refinement of `TokenStore`: every step is a step of the store or a stutter.  That
  a worker asks with the stored token while it holds the lock (`Asker`) is not
  inductive alone: a worker that found no row to lock asks too, so its token must be
  one that no row will ever hold again (`Unsaved`, `Asker`'s second half).  For the
  independent ratings, `RatingTypeCorrect` and `RatingsReachProvider`.  Until the
  provider was told, a job of the present entry is left (`SettlingInv`).  Three
  facts make that inductive: the entry cannot change while its job is in hand
  (`HandInv`); keyed jobs of entries are unique, so a retry never drops the job in
  hand for a successor (`JobsInv`); and a watch's rating begun before there was an
  entry is followed by the entry's job.  For AniList, what is not listed has no
  score (`ListInv`), so a clear may end without a request.  For lists read by the
  page, `ListingTypes` and `FetchesKeepWhatIsListed`.  A title that is listed all
  through a fetch and not yet read stays ahead of the reader (`IsAhead`): new
  entries come first and only push it back.  What pulls it past the reader is an
  entry of a page already read that goes, or a move between parts, which the code
  cannot see; the property excepts both (`shifted`).  A short or last page is the
  end only if nothing is ahead of it, rule by rule for each provider (`EntriesAre`).
- `ScheduledLeaseProofs`.  `LeaseExcludes`, `RunsInTimeExclude`, `LeaseFences`:
  the owner column names the latest claimant's process, so with one loop per
  process (`Distinct`, the hypothesis that `lease_shared` shows to be needed) a
  superseded loop owns nothing.
- `WatchlistProofs`.  `WatchlistTypeCorrect`, `HandAddedStays`, `NoRowIsOrphaned`.
  A title added by hand can be told from others in two ways, by the row's origin
  or by a link of the manual source; no import and no deletion of a source touches
  either, and between the two commits of an addition the origin alone must do.
  `CleanImportMirrors` and `CleanImportKeepsDropped` add to the invariant what an
  undisturbed import has done so far: the fetched list is the provider's, and the
  sources it has passed are exact; the last step then gives the mirror, and the
  order of the sources (dropped first) the second.  `DropStays` goes through every
  assignment of a status.
- `WatchStateProofs`, of two components.  For pulls, `PullTypeCorrect`,
  `ClientsHoldOneState`, `SnapshotMovesForward`.  Counters only grow and every write
  raises one.  So if a counter is found unchanged it was constant between its two
  readings, and the build lies within those spans for all three, although no instant
  is common to all readings.  The invariant says, for each place in the second
  reading: if the counters read so far, and the present values of the others, are
  those read before, the payload is the state at that version.  For pushes,
  `PushTypeCorrect`, `NewestMarksWin` and `RemovalsStayExact`.  That every entry
  tells the newest of what was taken needs two more facts: a mark's playback entry
  is never older than its watched entry, as one event feeds both but each is
  compared on its own (`EntriesOK`), and a receipt that cannot be processed was
  never taken (`ReceiptOK`), or what was taken once could be pending again.
  `EntriesStem` says which event an entry is of while the user changes nothing.  A
  clear removes watches by episode and marks the entry by id; an episode the user
  remapped keeps the watches of its other id, which is why the property compares
  both.  A dropped show has a link of the drop (`ItemOK`), so a favourite that goes
  cannot remove it.
- `ImportsProofs`, of two components.  For the runs, `ImportTypeCorrect` and
  `ImportsAreWhole`.  Everybody writes the document back whole, so what is to be
  true of the stored one must be true of every copy that may yet replace it
  (`DocumentsInv`), and of what each copy was taken for (`HoldersInv`).  Without
  races a loop's copy differs from the stored document only in the user's settings,
  at most one loop is at work, and what the outbox may be served for has been merged
  (`LeaseInv`).  For the histories, `HistoryTypesHold`, `PlaysImportedOnce`,
  `CursorLosesNothing` and `RemovalsLast`.  Plays stay what they are, causes stay,
  and keys of entries go only when the user had them forgotten (`Grows`).  An item
  is of a play whose key is recorded (`ItemInv`), an entry has the key of its play
  (`EntryInv`), and the play of an entry that was checked has no item but one
  recorded under that key (`CheckedInv`): so the unique key at the commit suffices
  against every other run, and a clear after the check names the entries it does not
  reach.  For the cursor, from SIMKL's first answer to the end of the run, each play
  that had changed before that answer has been handled, is passed over, is at hand,
  or belongs to a part still to be fetched and changed since the time the run asks
  from (`AsOfInv`, `ToCome`), which is why the cursor may only be set to the time of
  that answer, and why a run that dies between two parts may leave no cursor behind.
  The proof showed that deleted watches need no excuse for clears that raced with a
  run, which the property once had.
- `DeliveryProofs`.  `DeliveryTypes` and `DeliveriesMirrorHistory`.  The property
  speaks of a watch with nothing queued; the invariant says, per watch, what holds
  before that.  Until a push has ended, every play of the watch is of the push's day
  and no id is known (`PushIsFirst`), and only a second attempt can meet a play, for
  which it looks (`LooksAgain`).  An update moves the play it knows by id
  (`KnowsPlay`) or by the day it had (`KnowsDay`); these four give one play
  (`OnePlay`), as long as none of the watch's gaps was met.  `Tracked` follows what
  a success stands for, `Cleared` the plays a removal will still take away.  `Shape`
  and `Lifecycle` say which jobs, statuses and steps go together.  The attempt
  showed a gap that two days and one retry had not: an update that knows no id and
  fails for good leaves the next one looking on the wrong day (`abandoned`).
- `LibraryProofs`, of four components.  For rows and titles, `IdentityTypes` and
  `RowsStayTitles`.  A row that a transaction took was found by an id of its title,
  so what it fills in is the title's; that is the first half.  For twins and aborts
  the invariant says what an undisturbed transaction knows (`Informed`): of the ids
  it has looked up, no row but the one it took has any, and the ids it means to fill
  are in no other row.  Each commit by another marks it as raced, which is why the
  property may speak of races at all.  For the merge of duplicates, `MergeTypes` and
  `MergesLoseNothing`: the watches of the groups left are as loaded but for those
  edited since (`AsLoaded`), the syncs of the group at hand as read but for those of
  watches whose syncs changed since (`SyncsAsRead`), and what is added meanwhile is in
  no group, because a sync is there only with its watch (`Owned`).  Groups of one load
  are disjoint, so committing one leaves the others so.  For the merge of titles,
  `UpdateTypes` and `MergesOfTitlesKeepAll`: under the request others can only
  remove what it has read (`ReadStays`: an episode read is as it was, an item read
  as it was or removed, each row has one item at most), and what its statements
  found is all that was there, and only of what is to go (`PlaysRead`).  The
  constraints that the flush tests are what keeps a row from having two items.  That
  pushes name the ids of the title turned out not to need that nothing is written
  meanwhile, and the property was made to say so.  For the lookups,
  `CompletedLookupsAreOneAnswer`: a request that was not claimed twice is in one
  batch at most, and the candidates it has are those its attempt has numbered so far
  or, as long as that has stored none, those it is about to delete (`LookupOK`).  A
  worker that dies leaves the first kind behind, which is why the deletion must go
  out with the next attempt's first candidates and not after them.

The hypotheses beyond the constants' assumptions are these.  `Distinct` of the
leases: `lease_shared` shows that it is needed.  `~SlowWorkers` and
`~ClientOverlap` of `HoldersAreUnique` and those after it: TLC finds
`OneHolderPerUpdate`, `NewestDelivered` and `SucceededUpdateIsCurrent` violated without
either.  A worker that outlives the stale window shares its job with the one that
recovers it, by design; the overlap is described under
[1](#disagreements-with-the-codes-own-words).  `OneClient` of the last three: two
clients that read one target before either commits mix their rows, because `UPDATE`
writes the changed columns only, and TLC finds the first and the last violated; this is
the same disagreement without a worker.  `PendingIsServed` has these hypotheses from the
invariant it shares; TLC finds it violated with overlap, but not with two clients.
No hypothesis bounds workers, targets, jobs, attempts, batches or faults.

Only model-checked:

- liveness (the run `live`), which the installed provers cannot treat;
- the properties of `CandidateGroups` and `SeriesField`, which are about data built up
  recursively (`OneGroupPerTitle`, one half of `ChoicesAreWhole`, and `MarksAreKept`);
- the types of `ExternalCatalog` and `MetadataLookup`: the bound on a lookup's attempts
  only counts the faults the model allows.

## What is left out

Formats, parsing, texts and logging everywhere; the contents of payloads where no
property reads them; the order between users and providers in a batch of the
outbox.  And, component by component:

- Reviews, tags, the progress number of an AniList entry, rounding of scores.
- Custom catalogs of the addon and their order; the catalogs it serves are reads.
- Next episode: a query; two requests at once record the same episode twice.
- Enrichment, cache and backfill of metadata, and reverse look-ups of ids over the
  network: they fill in data.
- An administrator's reset and purge of jobs, which write without looking again.
- The order in which locks are taken: PostgreSQL aborts one of two transactions
  that wait for each other, and the models take the locks of a step together.
- The evaluation of a watchlist status apart from its commit.
- Users, sessions and login throttle; dashboards, settings, the frontend; migrations
  and packaging.

`hazards` in `PROJECT.json` names the hazards no property covers, with a note.

## Plan

1. An abstract delivery service (wanted, delivered, deleted) that `Outbox`
   implements, for `Watchlist` and `RatingDelivery` to instantiate.
2. The order of locks between worker, drain and requests, as a module whose
   property is that a cycle is always broken and its work repeated.
3. The watchlist's evaluation split into read and write, in a model of one title.
