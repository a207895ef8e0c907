----------------------------- MODULE Watchlist -----------------------------
(***************************************************************************)
(* The watchlist of one user and its exchange with one provider that keeps *)
(* a personal watchlist and a section of dropped shows (Trakt): the rows   *)
(* and their status (core/watchlist.py), the sources that list them        *)
(* (core/watchlist_sources.py), the API that changes them, the internal    *)
(* jobs that follow the history, the import that reads the provider's      *)
(* lists and the deliveries that write them.                               *)
(*                                                                         *)
(* A request, a job and the processing of one fetched list are a database  *)
(* transaction each and one step here; the time between the fetch of a     *)
(* list and its processing, between the two commits of an addition, and    *)
(* between queueing a delivery and its requests is open to everything      *)
(* else.  Outbox models how deliveries are queued and retried; here a      *)
(* waiting delivery is delivered sooner or later, in any order with those  *)
(* of other dedupe keys.                                                   *)
(***************************************************************************)
EXTENDS Naturals, Sequences

CONSTANTS
    Show, Movie,   \* the titles, by media type
    Unreleased,    \* titles that are not out yet
    MaxEpisodes,   \* bound: released episodes of a show
    MaxEvents      \* bound: what the user does here or at the provider

ASSUME MediaAssumption == Show \cap Movie = {} /\ Unreleased \subseteq Show \cup Movie
ASSUME BoundAssumption == MaxEpisodes \in Nat \ {0} /\ MaxEvents \in Nat

Media == Show \cup Movie

VARIABLES
    item,      \* WatchlistItem of each title
    linked,    \* WatchlistSourceItem: the titles each source lists
    hasUrl,    \* a URL source is configured
    adding,    \* between the two commits of add_watchlist_item, and its was_dropped
    watched,   \* released episodes with a WatchedItem; 1 for a watched movie
    newItems, updates, \* waiting new_item_added and watchlist_update jobs
    queue,     \* waiting deliveries
    remote,    \* the provider's lists
    todo,      \* the sources the running import still has to process
    fetched,   \* the list it fetched and has not processed
    asked,     \* titles the user added by hand and has not removed
    clean,     \* since the last import began: every fetch complete and nothing else happened
    events

local == <<item, linked, adding>>
run == <<todo, fetched>>
vars == <<item, linked, hasUrl, adding, watched, newItems, updates, queue,
          remote, todo, fetched, asked, clean, events>>

Status == {"not_released", "added", "in_progress", "watched", "dropped"}
Row == [status : Status, source : {"manual", "provider", "auto_from_history"}]
NoRow == [status |-> "none", source |-> "none"]

List == {"personal", "dropped", "url"}
Source == List \cup {"manual"}

\* flag: unhide_dropped of a push, hide_dropped of a removal; old: queued for a row of the
\* title that is gone (the dedupe key names the row).
Delivery == [kind : {"push", "remove"}, media : Media, flag : BOOLEAN, old : BOOLEAN]

NoFetch == [from |-> "none", listed |-> {}, got |-> {}, complete |-> FALSE]

TypeOK ==
    /\ item \in [Media -> Row \cup {NoRow}]
    /\ linked \in [Source -> SUBSET Media]
    /\ hasUrl \in BOOLEAN
    /\ adding \in [Media -> {"no", "plain", "unhide"}]
    /\ watched \in [Media -> 0 .. MaxEpisodes]
    /\ newItems \subseteq Media /\ updates \subseteq Media
    /\ queue \subseteq Delivery
    /\ remote \in [List -> SUBSET Media]
    /\ todo \in Seq(List)
    /\ fetched \in [from : List, listed : SUBSET Media, got : SUBSET Media, complete : BOOLEAN] \cup {NoFetch}
    /\ asked \subseteq Media /\ clean \in BOOLEAN
    /\ events \in 0 .. MaxEvents

Init ==
    /\ item = [m \in Media |-> NoRow]
    /\ linked = [s \in Source |-> {}]
    /\ hasUrl \in BOOLEAN
    /\ adding = [m \in Media |-> "no"]
    /\ watched = [m \in Media |-> 0]
    /\ newItems = {} /\ updates = {} /\ queue = {}
    /\ remote \in {[l \in List |-> IF l = "dropped" THEN {} ELSE M] : M \in SUBSET Media}
    /\ todo = <<>> /\ fetched = NoFetch
    /\ asked = {} /\ clean = FALSE
    /\ events = 0

Has(m) == item[m] # NoRow
Dropped(m) == item[m].status = "dropped"

Released(m) == IF m \in Unreleased THEN 0 ELSE IF m \in Movie THEN 1 ELSE MaxEpisodes

(***************************************************************************)
(* Status.                                                                 *)
(***************************************************************************)

\* determine_show_watchlist_status.
ShowStatus(total, seen) ==
    CASE total = 0 -> "not_released"
      [] total > 0 /\ seen = 0 -> "added"
      [] total > 0 /\ seen > 0 /\ seen < total -> "in_progress"
      [] OTHER -> "watched"

\* determine_movie_watchlist_status.
MovieStatus(m) ==
    IF watched[m] > 0 THEN "watched" ELSE IF Released(m) = 0 THEN "not_released" ELSE "added"

\* The query of evaluate_show_watchlist_status for watched episodes: its condition
\* "WatchedItem.media_item_id is None" is Python's False, so no row matches.
CountWatched(m) == 0

\* apply_watchlist_status_change leaves a dropped row alone.
Changed(row, status) == IF row.status = "dropped" THEN row ELSE [row EXCEPT !.status = status]

\* evaluate_show_watchlist_status.
Evaluated(m, row) == Changed(row, ShowStatus(Released(m), CountWatched(m)))

\* Mutant: imports restore dropped rows too.
UpsertedAlways(m, source, restore) ==
    IF Has(m) /\ ~Dropped(m) THEN item[m] ELSE [status |-> "added", source |-> source]
\* The row upsert_watchlist_item returns for a title; imports do not restore.
Upserted(m, source, restore) ==
    CASE ~Has(m) /\ m \in Show -> Evaluated(m, [status |-> "added", source |-> source])
      [] ~Has(m) /\ m \in Movie -> [status |-> MovieStatus(m), source |-> source]
      [] Has(m) /\ Dropped(m) /\ restore ->
            [status |-> "added", source |-> IF item[m].source = "manual" THEN "manual" ELSE source]
      [] OTHER -> item[m]

(***************************************************************************)
(* Deliveries.                                                             *)
(***************************************************************************)

\* enqueue_outbox_job: a waiting delivery of the row is replaced.
Queued(kind, m, flag) ==
    {d \in queue : d.kind # kind \/ d.media # m \/ d.old}
        \cup {[kind |-> kind, media |-> m, flag |-> flag, old |-> FALSE]}

\* The waiting deliveries once the rows of S are deleted.
Outlived(S) == {IF d.media \in S THEN [d EXCEPT !.old = TRUE] ELSE d : d \in queue}

\* _deliver_trakt_watchlist and _deliver_trakt_watchlist_remove: the watchlist first, then
\* for a flagged show the dropped section.
AfterFirst(d) ==
    [remote EXCEPT !["personal"] = IF d.kind = "push" THEN @ \cup {d.media} ELSE @ \ {d.media}]
AfterBoth(d) ==
    IF d.flag /\ d.media \in Show
    THEN [AfterFirst(d) EXCEPT !["dropped"] = IF d.kind = "push" THEN @ \ {d.media} ELSE @ \cup {d.media}]
    ELSE AfterFirst(d)

Deliver(d) ==
    /\ d \in queue
    /\ remote' = AfterBoth(d) /\ queue' = queue \ {d}
    /\ UNCHANGED <<local, hasUrl, watched, newItems, updates, run, asked, events>>

\* An error or a lost answer; the delivery waits for its retry.
Retry(d) ==
    /\ d \in queue
    /\ remote' \in {AfterFirst(d), AfterBoth(d)}
    /\ UNCHANGED <<local, hasUrl, watched, newItems, updates, queue, run, asked, events>>

\* The delivery failed for good.
GiveUp(d) ==
    /\ d \in queue
    /\ queue' = queue \ {d}
    /\ UNCHANGED <<local, hasUrl, watched, newItems, updates, remote, run, asked, events>>

(***************************************************************************)
(* Requests of the user.                                                   *)
(***************************************************************************)

Act == events < MaxEvents /\ events' = events + 1

\* add_watchlist_item.  A new or restored row is committed before its link and its push;
\* one addition of a title at a time.
Add(m) ==
    /\ Act /\ adding[m] = "no"
    /\ item' = [item EXCEPT ![m] = Upserted(m, "manual", TRUE)]
    /\ asked' = asked \cup {m}
    /\ IF Has(m) /\ ~Dropped(m)
       THEN /\ linked' = [linked EXCEPT !["manual"] = @ \cup {m}]
            /\ queue' = Queued("push", m, FALSE)
            /\ UNCHANGED adding
       ELSE /\ adding' = [adding EXCEPT ![m] = IF Dropped(m) THEN "unhide" ELSE "plain"]
            /\ UNCHANGED <<linked, queue>>
    /\ UNCHANGED <<hasUrl, watched, newItems, updates, remote, run>>

AddFinish(m) ==
    /\ adding[m] # "no"
    /\ linked' = [linked EXCEPT !["manual"] = @ \cup {m}]
    /\ queue' = Queued("push", m, adding[m] = "unhide")
    /\ adding' = [adding EXCEPT ![m] = "no"]
    /\ UNCHANGED <<item, hasUrl, watched, newItems, updates, remote, run, asked, events>>

\* The process dies between the two commits.
AddCrash(m) ==
    /\ adding[m] # "no"
    /\ adding' = [adding EXCEPT ![m] = "no"]
    /\ UNCHANGED <<item, linked, hasUrl, watched, newItems, updates, queue, remote, run, asked, events>>

\* The database without the rows of S: their links go with them, and an addition that
\* has not linked its row yet fails.
Delete(S) ==
    /\ item' = [m \in Media |-> IF m \in S THEN NoRow ELSE item[m]]
    /\ linked' = [s \in Source |-> linked[s] \ S]
    /\ adding' = [m \in Media |-> IF m \in S THEN "no" ELSE adding[m]]

\* remove_watchlist_item: the removal is queued for the row that is deleted.
Remove(m) ==
    /\ Act /\ Has(m)
    /\ Delete({m})
    /\ queue' = Outlived({m}) \cup {[kind |-> "remove", media |-> m, flag |-> Dropped(m), old |-> TRUE]}
    /\ asked' = asked \ {m}
    /\ UNCHANGED <<hasUrl, watched, newItems, updates, remote, run>>

\* drop_watchlist_item.
Drop(m) ==
    /\ Act /\ m \in Show /\ Has(m) /\ ~Dropped(m)
    /\ item' = [item EXCEPT ![m].status = "dropped"]
    /\ queue' = Queued("remove", m, TRUE)
    /\ UNCHANGED <<linked, adding, hasUrl, watched, newItems, updates, remote, run, asked>>

\* restore_watchlist_item.
Restore(m) ==
    /\ Act /\ m \in Show /\ Has(m) /\ Dropped(m)
    /\ item' = [item EXCEPT ![m] = Evaluated(m, [@ EXCEPT !.status = "added"])]
    /\ queue' = Queued("push", m, TRUE)
    /\ UNCHANGED <<linked, adding, hasUrl, watched, newItems, updates, remote, run, asked>>

\* list_watchlist_items stores the status it shows of each row of the page, from the real
\* progress of shows; a watched movie stays so.
ListItem(m) ==
    /\ Has(m)
    /\ item' = [item EXCEPT ![m] =
          Changed(@, CASE m \in Show -> ShowStatus(Released(m), watched[m])
                       [] m \in Movie /\ @.status = "watched" -> "watched"
                       [] OTHER -> IF Released(m) = 0 THEN "not_released" ELSE "added")]
    /\ UNCHANGED <<linked, adding, hasUrl, watched, newItems, updates, queue, remote, run, asked, events>>

\* mark_watchlist_item_watched, or a watch added to the history of a title without a row:
\* the next episode, or the movie, with its job.
Watch(m) ==
    /\ Act /\ watched[m] < Released(m)
    /\ watched' = [watched EXCEPT ![m] = @ + 1]
    /\ newItems' = newItems \cup {m}
    /\ UNCHANGED <<local, hasUrl, updates, queue, remote, run, asked>>

\* A watch is deleted from the history.
Unwatch(m) ==
    /\ Act /\ watched[m] > 0
    /\ watched' = [watched EXCEPT ![m] = @ - 1]
    /\ updates' = updates \cup {m}
    /\ UNCHANGED <<local, hasUrl, newItems, queue, remote, run, asked>>

\* Mutant: a row goes although it was added by hand.
KeptByLinks(row, links, m) == \E s \in Source : m \in links[s]
\* Mutant: only rows created from the history go.
KeptUnlessAuto(row, links, m) == row.source # "auto_from_history" \/ \E s \in Source : m \in links[s]
\* Rows that no source lists any more go, unless they were added by hand.
Kept(row, links, m) == row.source = "manual" \/ \E s \in Source : m \in links[s]

\* remove_watchlist_source.
RemoveSource ==
    LET links == [linked EXCEPT !["url"] = {}]
        gone == {m \in linked["url"] : ~Kept(item[m], links, m)}
    IN /\ Act /\ hasUrl
       /\ hasUrl' = FALSE
       /\ item' = [m \in Media |-> IF m \in gone THEN NoRow ELSE item[m]]
       /\ linked' = links
       /\ queue' = Outlived(gone)
       /\ UNCHANGED <<adding, watched, newItems, updates, remote, run, asked>>

\* The user edits a list at the provider; only shows can be dropped.
RemoteEdit(l, m) ==
    /\ Act /\ (l = "dropped" => m \in Show)
    /\ remote' = [remote EXCEPT ![l] = IF m \in @ THEN @ \ {m} ELSE @ \cup {m}]
    /\ UNCHANGED <<local, hasUrl, watched, newItems, updates, queue, run, asked>>

(***************************************************************************)
(* Internal jobs.                                                          *)
(***************************************************************************)

\* process_new_item_job: a watched show gets a row or, if dropped, is restored; both are
\* pushed.  The job fails if the watch was deleted meanwhile.
NewItem(m) ==
    /\ m \in newItems
    /\ newItems' = newItems \ {m}
    /\ CASE watched[m] > 0 /\ m \in Show /\ ~Has(m) ->
                /\ item' = [item EXCEPT ![m] = Upserted(m, "auto_from_history", TRUE)]
                /\ queue' = Queued("push", m, FALSE)
         [] watched[m] > 0 /\ m \in Show /\ Has(m) /\ Dropped(m) ->
                /\ item' = [item EXCEPT ![m] = Evaluated(m, [@ EXCEPT !.status = "added"])]
                /\ queue' = Queued("push", m, TRUE)
         [] watched[m] > 0 /\ m \in Show /\ Has(m) /\ ~Dropped(m) ->
                /\ item' = [item EXCEPT ![m] = Evaluated(m, @)]
                /\ UNCHANGED queue
         [] watched[m] > 0 /\ m \in Movie /\ Has(m) ->
                /\ item' = [item EXCEPT ![m] = Changed(@, "watched")]
                /\ UNCHANGED queue
         [] OTHER -> UNCHANGED <<item, queue>>
    /\ UNCHANGED <<linked, adding, hasUrl, watched, updates, remote, run, asked, events>>

\* refresh_watchlist_from_history.
Update(m) ==
    /\ m \in updates
    /\ updates' = updates \ {m}
    /\ item' = IF ~Has(m) THEN item
               ELSE [item EXCEPT ![m] = IF m \in Show THEN Evaluated(m, @) ELSE Changed(@, MovieStatus(m))]
    /\ UNCHANGED <<linked, adding, hasUrl, watched, newItems, queue, remote, run, asked, events>>

(***************************************************************************)
(* Imports.                                                                *)
(***************************************************************************)

\* Mutant: the personal list comes first.
OrderedLate == IF hasUrl THEN <<"personal", "dropped", "url">> ELSE <<"personal", "dropped">>
\* order_dropped_source_first.
Ordered == IF hasUrl THEN <<"dropped", "personal", "url">> ELSE <<"dropped", "personal">>

ImportStart ==
    /\ todo = <<>>
    /\ todo' = Ordered
    /\ clean' = TRUE
    /\ UNCHANGED <<local, hasUrl, watched, newItems, updates, queue, remote, fetched,
                   asked, events>>

\* The fetch of a list.  A failed or capped fetch of the personal list returns part of
\* it; a capped one of a URL at least one page.
Fetch ==
    /\ todo # <<>> /\ fetched = NoFetch
    /\ LET l == Head(todo)
       IN \E got \in SUBSET remote[l], complete \in BOOLEAN :
            /\ complete => got = remote[l]
            /\ ~complete => l = "personal" \/ (l = "url" /\ got # {})
            /\ fetched' = [from |-> l, listed |-> remote[l], got |-> got, complete |-> complete]
            /\ clean' = (clean /\ complete)
    /\ UNCHANGED <<local, hasUrl, watched, newItems, updates, queue, remote, todo, asked, events>>

\* A failed fetch of the dropped list or of a URL only skips that source.
FetchFails ==
    /\ todo # <<>> /\ fetched = NoFetch /\ Head(todo) # "personal"
    /\ todo' = Tail(todo) /\ clean' = FALSE
    /\ UNCHANGED <<local, hasUrl, watched, newItems, updates, queue, remote, fetched,
                   asked, events>>

\* Mutant: links are never removed.
UnlinkedNever(f) == {}
\* The links a reconcile removes.
Unlinked(f) == IF f.complete THEN linked[f.from] \ f.got ELSE {}

\* process_watchlist_candidates and process_dropped_candidates with their reconcile.
Process ==
    LET f == fetched
        upserted == [m \in Media |->
            CASE m \in f.got /\ f.from = "dropped" -> [Upserted(m, "provider", FALSE) EXCEPT !.status = "dropped"]
              [] m \in f.got /\ f.from # "dropped" -> Upserted(m, "provider", FALSE)
              [] OTHER -> item[m]]
        links == [linked EXCEPT ![f.from] = (@ \cup f.got) \ Unlinked(f)]
        gone == {m \in Unlinked(f) : ~Kept(upserted[m], links, m)}
        Undropped(m) == f.from = "dropped" /\ m \in Unlinked(f) /\ upserted[m].status = "dropped"
    IN /\ f # NoFetch /\ (f.from = "url" => hasUrl)
       /\ item' = [m \in Media |->
            CASE m \in gone -> NoRow
              [] m \notin gone /\ Undropped(m) -> Evaluated(m, [upserted[m] EXCEPT !.status = "added"])
              [] OTHER -> upserted[m]]
       /\ linked' = links
       /\ queue' = Outlived(gone)
       /\ todo' = Tail(todo) /\ fetched' = NoFetch
       /\ UNCHANGED <<adding, hasUrl, watched, newItems, updates, remote, asked, clean, events>>

\* The URL source was deleted while its list was fetched: the transaction fails and
\* the exception ends the import.
ProcessFails ==
    /\ fetched.from = "url" /\ ~hasUrl
    /\ todo' = <<>> /\ fetched' = NoFetch /\ clean' = FALSE
    /\ UNCHANGED <<local, hasUrl, watched, newItems, updates, queue, remote, asked, events>>

Import == ImportStart \/ Fetch \/ FetchFails \/ Process \/ ProcessFails

Request(m) == \/ Add(m) \/ AddFinish(m) \/ AddCrash(m) \/ Remove(m) \/ Drop(m) \/ Restore(m)
              \/ ListItem(m) \/ Watch(m) \/ Unwatch(m) \/ NewItem(m) \/ Update(m)
              \/ \E l \in List : RemoteEdit(l, m)
Other == \/ \E m \in Media : Request(m)
         \/ \E d \in queue : Deliver(d) \/ Retry(d) \/ GiveUp(d)
         \/ RemoveSource

Next == Import \/ (Other /\ clean' = FALSE)

Spec == Init /\ [][Next]_vars

(***************************************************************************)
(* Properties.                                                             *)
(***************************************************************************)

\* What the user added by hand stays on the watchlist until the user removes it, whatever
\* lists it leaves, whichever source is deleted and between which commits.
AskedStays == \A m \in asked : Has(m)

\* A row that only provider lists brought goes with the last of them.
NoOrphans ==
    \A m \in Media : item[m].source = "provider" => \E s \in Source : m \in linked[s]

\* A drop is only lifted together with a request to unhide the show, or because the
\* provider's dropped list no longer has it: an import of the other lists never does.
DropIsSticky ==
    [][\A m \in Show :
         /\ Has(m) /\ Dropped(m) /\ item'[m] # NoRow /\ item'[m].status # "dropped"
         => \/ adding'[m] = "unhide"
            \/ \E d \in queue' : d.kind = "push" /\ d.media = m /\ d.flag
            \/ m \in linked["dropped"] /\ m \notin fetched.listed /\ fetched.from = "dropped"]_vars

\* After an import that fetched every list completely and ran undisturbed, the sources
\* list what the provider lists, and a show it has dropped is dropped here.
MirrorsProvider ==
    todo = <<>> /\ clean =>
        /\ \A l \in List \ (IF hasUrl THEN {} ELSE {"url"}) : linked[l] = remote[l]
        /\ \A m \in remote["dropped"] : Has(m) /\ Dropped(m)

\* Such an import never deletes the row of a show the provider has dropped: the dropped
\* list goes first, "otherwise a show dropped on the provider would be deleted and
\* re-created on every import".
DroppedKeepsRow ==
    [][\A m \in Show : Has(m) /\ item'[m] = NoRow /\ clean' => m \notin remote["dropped"]]_vars

\* A delivery never hides a show that is on the watchlist and not dropped unless a push is
\* still to come: "a show restored from dropped must not stay hidden in Trakt's dropped
\* section".
RestoredNotHidden ==
    [][\A m \in Show :
         /\ m \in remote'["dropped"] \ remote["dropped"] /\ events' = events
         /\ Has(m) /\ ~Dropped(m) /\ adding[m] = "no"
         => \E d \in queue' : d.kind = "push" /\ d.media = m]_vars

\* The job that follows a watch or its deletion leaves a show all of whose released
\* episodes are watched as watched: "if all released episodes are watched -> Waiting (if
\* returning) or Watched (if ended)".
StatusFollowsHistory ==
    [][\A m \in Show :
         /\ m \in (newItems \ newItems') \cup (updates \ updates')
         /\ item'[m] \notin {NoRow, [item'[m] EXCEPT !.status = "dropped"]}
         /\ Released(m) > 0 /\ watched[m] = Released(m)
         => item'[m].status = "watched"]_vars

=============================================================================
