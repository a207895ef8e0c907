--------------------------- MODULE WatchStatePush ---------------------------
(***************************************************************************)
(* What the addon's client pushes: core/watch_state_events.py behind       *)
(* api/routes_addon_watch_state.py and jobs/watch_state.py.  A push is     *)
(* kept as a receipt, once for its key, and applied at once or, if it      *)
(* marks many videos, by the worker: to the user's state entries, one per  *)
(* category and target, to the history and to the watchlist item of the    *)
(* show.  The client may deliver late, twice and in any order; the user    *)
(* edits the history, maps absolute episodes and switches access off.      *)
(* A push holds the user's row, so it is one step.  A drain holds it, too, *)
(* and others wait until it ends: it takes a step for each receipt, and a  *)
(* crash, which loses it whole, is as if it had not begun.                 *)
(***************************************************************************)
EXTENDS Integers, FiniteSets

CONSTANTS
    Episodes,  \* videos with a season and a number
    Absolute,  \* videos known by an absolute number only
    Show, NoEpisode,
    Kinds,     \* what the client reports
    Limit,     \* receipts of a drain
    MaxTime, MaxReceipts, MaxEdits, \* bounds: seconds, receipts and the user's own changes
    MaxClashes \* bound: titles of which another row holds an id, and races for one

Marks == {"played", "unplayed", "stopped"}
Playback == {"start", "pause"}
Drops == {"dropped", "undropped"}
Lists == {"watchlisted", "unwatchlisted"}
Ratings == {"rated", "unrated"}

ASSUME KindsAssumption == Kinds \subseteq Marks \cup Playback \cup Drops \cup Lists \cup Ratings
ASSUME VideosAssumption ==
    /\ Episodes \cap Absolute = {} /\ Show \notin Episodes \cup Absolute /\ NoEpisode \notin Episodes
ASSUME ReceiptsAssumption ==
    /\ Limit \in Nat \ {0} /\ MaxTime \in Nat \ {0} /\ MaxReceipts \in Nat \ {0}
    /\ MaxEdits \in Nat /\ MaxClashes \in Nat

VARIABLES
    time, allowed, \* seconds; the addon, Watch State and the viewer's binding are on
    receipts,     \* WatchStateReceipt, in order of receipt
    batch,        \* receipts a drain has yet to process
    entries,      \* WatchStateEntry, by category and target
    watches,      \* WatchedItem; by: the event it stems from, 0 for the user
    item,         \* the WatchlistItem of the show and its WatchlistSourceItem links
    posted,       \* history: what the client was told is accepted
    erased,       \* history: episodes the user removed, or cleared under another id
    counted       \* the user's changes and clashes so far

pushVars == <<time, allowed, receipts, batch, entries, watches, item, posted, erased, counted>>

Videos == Episodes \cup Absolute
Targets == Videos \cup {Show}
Categories == {"watched", "playback", "rating", "drop", "watchlist"}
Time == 0 .. MaxTime
ReceiptId == 1 .. MaxReceipts
Outcomes == {"none", "applied", "superseded", "unresolved", "pending"}

NoReceipt == [status |-> "none"]
NoStateEntry == [at |-> 0, kind |-> "", ep |-> NoEpisode]

Entry == [at : Time, kind : Marks \cup Playback \cup Drops \cup Lists \cup Ratings, ep : Episodes \cup {NoEpisode}]
PushEvent == [kind : Kinds, at : Time, videos : SUBSET Targets]

PushTypeOK ==
    /\ time \in Time /\ allowed \in BOOLEAN
    /\ \A n \in ReceiptId : receipts[n] # NoReceipt =>
          /\ [kind |-> receipts[n].kind, at |-> receipts[n].at, videos |-> receipts[n].videos] \in PushEvent
          /\ receipts[n].status \in {"pending", "applied", "superseded", "unresolved", "failed"}
          /\ receipts[n].out \in [Targets -> Outcomes]
          /\ receipts[n].maps \in [Absolute -> Episodes \cup {NoEpisode}]
    /\ batch \subseteq ReceiptId
    /\ entries \in [Categories -> [Targets -> Entry \cup {NoStateEntry}]]
    /\ watches \subseteq [ep : Episodes, at : Time, by : 0 .. MaxReceipts, key : Videos]
    /\ item \in [status : {"none", "added", "removed", "dropped", "in_progress"},
                 links : SUBSET {"watchlist", "dropped", "other"}, manual : BOOLEAN]
    /\ posted \subseteq PushEvent /\ erased \subseteq Episodes

\* The show may be on the list by hand, by another source, or not at all.
ItemsAtFirst ==
    {[status |-> "none", links |-> {}, manual |-> FALSE]} \cup
    IF Kinds \cap Lists = {} THEN {}
    ELSE {[status |-> "added", links |-> {}, manual |-> TRUE], [status |-> "added", links |-> {"other"}, manual |-> FALSE]}

PushInit ==
    /\ time = 1 /\ allowed = TRUE
    /\ receipts = [n \in ReceiptId |-> NoReceipt] /\ batch = {}
    /\ entries = [c \in Categories |-> [k \in Targets |-> NoStateEntry]]
    /\ watches = {}
    /\ item \in ItemsAtFirst
    /\ posted = {} /\ erased = {}
    /\ counted = [edits |-> 0, clashes |-> 0]

Received == {n \in ReceiptId : receipts[n] # NoReceipt}
ToProcess == {n \in Received : receipts[n].status = "pending"}
UserActs == counted.edits < MaxEdits /\ counted' = [counted EXCEPT !.edits = @ + 1]

-----------------------------------------------------------------------------
(* apply_event, for the targets ks of an event e.                          *)

CategoryOf(kind) ==
    CASE kind \in Marks -> "watched" [] kind \in Playback -> "playback" [] kind \in Ratings -> "rating"
      [] kind \in Drops -> "drop" [] kind \in Lists -> "watchlist"

\* A mark is playback, too.
Feeds(kind) == IF kind \in Marks THEN {"watched", "playback"} ELSE {CategoryOf(kind)}

\* The episode of an earlier mapping of the video.
KnownEpisode(k) ==
    LET known == {e \in {entries[c][k] : c \in {"watched", "playback", "rating"}} : e.ep # NoEpisode}
    IN  IF known = {} THEN NoEpisode ELSE (CHOOSE e \in known : \A f \in known : f.at <= e.at).ep

\* _episode, for a target of either kind.
EpisodeFor(e, k) ==
    IF k \notin Absolute THEN IF k = Show THEN NoEpisode ELSE k
    ELSE IF e.maps[k] # NoEpisode THEN e.maps[k]
    ELSE KnownEpisode(k)

EpisodesFor(e, ks) == {EpisodeFor(e, k) : k \in ks} \ {NoEpisode}

\* Mutant: of two events the one that arrives later counts.
IsNewsArrival(c, k, at) == TRUE

\* The comparison of _write_entry.
IsNews(c, k, at) == entries[c][k].at <= at

\* Starting or finishing an episode resumes its show.
Resumes(e, ks) ==
    LET drop == entries["drop"][Show]
    IN  ks \cap Videos # {} /\ e.kind \in {"start", "played", "stopped"} /\ drop.kind = "dropped" /\ drop.at <= e.at

\* _write_entry, for every category the event feeds.
EntriesAfter(e, ks) ==
    [c \in Categories |-> [k \in Targets |->
        IF k \in ks /\ c \in Feeds(e.kind) /\ IsNews(c, k, e.at)
        THEN [at |-> e.at, kind |-> e.kind, ep |-> IF k \in Absolute THEN EpisodeFor(e, k) ELSE NoEpisode]
        ELSE IF c = "drop" /\ k = Show /\ Resumes(e, ks) THEN [at |-> e.at, kind |-> "undropped", ep |-> NoEpisode]
        ELSE entries[c][k]]]

\* A mark adds a watch if there is none; a completed stop if there is none of that time.
AddsWatch(e, ep) ==
    LET own == {w \in watches : w.ep = ep}
    IN  own = {} \/ (e.kind = "stopped" /\ e.at \notin {w.at : w \in own})

\* Mutant: a clear removes the watches before its time, not of it.
ClearedBefore(e, ks) == {w \in watches : w.ep \in EpisodesFor(e, ks) /\ w.at < e.at}

\* The watches an "unplayed" removes.
Cleared(e, ks) == {w \in watches : w.ep \in EpisodesFor(e, ks) /\ w.at <= e.at}

\* The watches a mark adds.
Added(e, ks) ==
    {[ep |-> ep, at |-> e.at, by |-> e.by, key |-> CHOOSE k \in ks : EpisodeFor(e, k) = ep] :
        ep \in {x \in EpisodesFor(e, ks) : AddsWatch(e, x)}}

\* _apply_history.
WatchesAfter(e, ks) ==
    CASE e.kind = "unplayed" -> watches \ Cleared(e, ks)
      [] e.kind \in {"played", "stopped"} -> watches \cup Added(e, ks)
      [] OTHER -> watches

ErasedAfter(e, ks) ==
    IF e.kind = "unplayed" THEN erased \cup {w.ep : w \in Cleared(e, ks \cap Absolute)} ELSE erased

\* What keeps a show on the list when the client's favourite goes.
Kept(i) == i.links \ {"watchlist"} # {} \/ i.manual

\* _apply_watchlist.
WithItem(i, kind) ==
    LET made == IF i.status = "none" THEN [i EXCEPT !.status = "added"] ELSE i
    IN  CASE kind \in {"unwatchlisted", "undropped"} /\ i.status = "none" -> i
          [] kind = "watchlisted" ->
               [made EXCEPT !.links = @ \cup {"watchlist"}, !.status = IF @ = "removed" THEN "added" ELSE @]
          [] kind = "unwatchlisted" /\ i.status # "none" ->
               [i EXCEPT !.links = @ \ {"watchlist"}, !.status = IF Kept(i) THEN @ ELSE "removed"]
          [] kind = "dropped" -> [made EXCEPT !.links = @ \cup {"dropped"}, !.status = "dropped"]
          [] kind = "undropped" /\ i.status # "none" ->
               [i EXCEPT !.links = @ \ {"dropped"}, !.status = IF @ = "dropped" THEN "in_progress" ELSE @]

ItemAfter(e, ks) ==
    IF e.kind \in Drops \cup Lists /\ ks # {} THEN WithItem(item, e.kind)
    ELSE IF Resumes(e, ks) THEN WithItem(item, "undropped")
    ELSE item

OutcomeOf(e, k) ==
    IF ~IsNews(CategoryOf(e.kind), k, e.at) THEN "superseded"
    ELSE IF k \in Absolute /\ EpisodeFor(e, k) = NoEpisode /\ e.kind \in {"played", "stopped", "rated"}
         THEN "unresolved"
    ELSE "applied"

Apply(e, ks) ==
    /\ entries' = EntriesAfter(e, ks) /\ watches' = WatchesAfter(e, ks)
    /\ item' = ItemAfter(e, ks) /\ erased' = ErasedAfter(e, ks)

-----------------------------------------------------------------------------
(* process_receipt, pushes and the drain.                                  *)

\* Mutant: a receipt with a video left to map stays with the worker.
StatusOfUnresolved(all) ==
    IF all \cap {"pending", "unresolved"} # {} THEN "pending"
    ELSE IF all = {"superseded"} THEN "superseded" ELSE "applied"

\* The status of a receipt by those of its videos.
StatusOf(all) ==
    IF "pending" \in all THEN "pending"
    ELSE IF "unresolved" \in all THEN "unresolved"
    ELSE IF all = {"superseded"} THEN "superseded" ELSE "applied"

\* Receipt n, which is r; clash: another transaction creates its title first, or one of its ids
\* belongs to a row of the other type.
EventOf(n, r) == [kind |-> r.kind, at |-> r.at, maps |-> r.maps, by |-> n]
ToDo(r) == {k \in r.videos : r.out[k] \notin {"applied", "superseded"}}
News(r, clash) == {k \in ToDo(r) : ~clash /\ IsNews(CategoryOf(r.kind), k, r.at)}
OutcomesOf(n, r, clash) ==
    [k \in Targets |-> IF k \notin ToDo(r) THEN r.out[k]
                       ELSE IF clash THEN "pending" ELSE OutcomeOf(EventOf(n, r), k)]
Processed(n, r, clash) ==
    LET out == OutcomesOf(n, r, clash)
    IN  [r EXCEPT !.out = out, !.status = StatusOf({out[k] : k \in r.videos})]

ProcessReceipt(n, r, clash) ==
    /\ Apply(EventOf(n, r), News(r, clash))
    /\ receipts' = [receipts EXCEPT ![n] = Processed(n, r, clash)]

\* entry_key: the client's id, which playback events of one position share, and their time.
KeyOf(r) == [kind |-> r.kind, at |-> r.at, videos |-> r.videos]
IsRepeat(e) == \E n \in Received : KeyOf(receipts[n]) = e

\* receive_watch_state: a repeat is only counted, a bulk mark left to the worker.
Push(e, stuck, clash) ==
    /\ allowed /\ e.at <= time
    /\ posted' = posted \cup {e}
    /\ IF IsRepeat(e)
       THEN ~stuck /\ ~clash /\ UNCHANGED <<receipts, entries, watches, item, erased, counted>>
       ELSE LET n == Cardinality(Received) + 1
                bulk == Cardinality(e.videos) > 1
                r == [kind |-> e.kind, at |-> e.at, videos |-> e.videos, stuck |-> stuck, status |-> "pending",
                      out |-> [k \in Targets |-> "none"], maps |-> [k \in Absolute |-> NoEpisode]]
            IN  /\ n \in ReceiptId
                /\ (stuck \/ clash) => counted.clashes < MaxClashes /\ ~(clash /\ (stuck \/ bulk))
                /\ IF bulk
                   THEN receipts' = [receipts EXCEPT ![n] = r] /\ UNCHANGED <<entries, watches, item, erased>>
                   ELSE ProcessReceipt(n, r, stuck \/ clash)
                /\ counted' = [counted EXCEPT !.clashes = IF stuck \/ clash THEN @ + 1 ELSE @]
    /\ UNCHANGED <<time, allowed, batch>>

Oldest(ns) == {n \in ns : Cardinality({m \in ns : m <= n}) <= Limit}

\* drain_watch_state: the receipts of a drain, past those another worker holds.
Drain(held) ==
    /\ batch = {} /\ held \subseteq ToProcess /\ ToProcess \ held # {}
    /\ batch' = Oldest(ToProcess \ held)
    /\ UNCHANGED <<time, allowed, receipts, entries, watches, item, posted, erased, counted>>

\* The next of them.
DrainNext ==
    /\ \E n \in batch :
         /\ \A m \in batch : n <= m
         /\ batch' = batch \ {n}
         /\ IF allowed THEN ProcessReceipt(n, receipts[n], receipts[n].stuck)
            ELSE /\ receipts' = [receipts EXCEPT ![n].status = "failed"]
                 /\ UNCHANGED <<entries, watches, item, erased>>
    /\ UNCHANGED <<time, allowed, posted, counted>>

-----------------------------------------------------------------------------
(* The user. *)

\* retry_event.
RetryEvent(n) ==
    /\ n \in Received /\ receipts[n].status \in {"unresolved", "failed"}
    /\ UserActs
    /\ receipts' = [receipts EXCEPT ![n].status = "pending"]
    /\ UNCHANGED <<time, allowed, batch, entries, watches, item, posted, erased>>

\* resolve_event: the user maps an absolute video to an episode.
ResolveEvent(n, k, ep) ==
    /\ n \in Received /\ receipts[n].status = "unresolved" /\ k \in receipts[n].videos \cap Absolute
    /\ UserActs
    /\ receipts' = [receipts EXCEPT ![n].status = "pending", ![n].maps[k] = ep]
    /\ UNCHANGED <<time, allowed, batch, entries, watches, item, posted, erased>>

Present(kind) == [kind |-> kind, at |-> time, maps |-> [k \in Absolute |-> NoEpisode], by |-> 0]

\* record_manual_state after add_watched_item: the present overrides what was reported, and a dropped
\* show stays dropped.
AddWatch(ep, at) ==
    /\ UserActs /\ at <= time
    /\ entries' = [EntriesAfter(Present("played"), {ep}) EXCEPT !["drop"] = entries["drop"]]
    /\ watches' = watches \cup {[ep |-> ep, at |-> at, by |-> 0, key |-> ep]}
    /\ UNCHANGED <<time, allowed, batch, receipts, item, posted, erased>>

\* delete_watched_item leaves the entries alone.
DeleteWatch(w) ==
    /\ UserActs
    /\ watches' = watches \ {w} /\ erased' = erased \cup {w.ep}
    /\ UNCHANGED <<time, allowed, batch, receipts, entries, item, posted>>

\* clear_resume.
ClearResume(k) ==
    /\ entries["playback"][k] # NoStateEntry /\ UserActs
    /\ entries' = [entries EXCEPT !["playback"][k] = [@ EXCEPT !.kind = "start", !.at = time]]
    /\ UNCHANGED <<time, allowed, batch, receipts, watches, item, posted, erased>>

\* manage_rating: an event of the present that leaves no receipt.
ManageRating(k, kind) ==
    /\ kind \in Kinds \cap Ratings /\ UserActs
    /\ Apply(Present(kind), {k})
    /\ UNCHANGED <<time, allowed, batch, receipts, posted>>

\* The addon is switched off or on, or the viewer's binding revoked or renewed.
Toggle ==
    /\ UserActs /\ allowed' = ~allowed
    /\ UNCHANGED <<time, batch, receipts, entries, watches, item, posted, erased>>

PushTick ==
    /\ time < MaxTime /\ time' = time + 1
    /\ UNCHANGED <<allowed, batch, receipts, entries, watches, item, posted, erased, counted>>

\* validate_event: which targets an event may have.
Valid(kind, vs) ==
    CASE kind \in {"played", "unplayed"} -> vs \subseteq Videos /\ vs # {}
      [] kind \in Playback \cup {"stopped"} -> \E k \in Videos : vs = {k}
      [] kind \in Ratings -> \E k \in Targets : vs = {k}
      [] kind \in Drops \cup Lists -> vs = {Show}

\* A drain holds the user's row until its commit; that it is switched off needs no lock.
PushNext ==
    \/ batch = {} /\ \E kind \in Kinds, vs \in SUBSET Targets :
          Valid(kind, vs) /\ \E at \in 1 .. MaxTime, stuck, clash \in BOOLEAN :
                                Push([kind |-> kind, at |-> at, videos |-> vs], stuck, clash)
    \/ \E held \in SUBSET ToProcess : Drain(held)
    \/ DrainNext
    \/ batch = {} /\ \E n \in ReceiptId : RetryEvent(n) \/ (\E k \in Absolute, ep \in Episodes : ResolveEvent(n, k, ep))
    \/ batch = {} /\ \E ep \in Episodes, at \in 1 .. MaxTime : AddWatch(ep, at)
    \/ batch = {} /\ \E w \in watches : DeleteWatch(w)
    \/ batch = {} /\ \E k \in Targets : ClearResume(k) \/ (\E kind \in Ratings : ManageRating(k, kind))
    \/ Toggle \/ PushTick

PushSpec == PushInit /\ [][PushNext]_pushVars
FairPushSpec == PushSpec /\ WF_pushVars(Drain({})) /\ WF_pushVars(DrainNext)

-----------------------------------------------------------------------------
(* NothingSwallowed: whatever the client was told is accepted is kept as a *)
(* receipt of its own time; a second session at the same position is not   *)
(* taken for a repeat of the first, nor a repeat for a new event.          *)
NothingSwallowed ==
    /\ \A e \in posted : \E n \in Received : KeyOf(receipts[n]) = e
    /\ \A m, n \in Received : KeyOf(receipts[m]) = KeyOf(receipts[n]) => m = n

(* NewestIsTold: however late, often and in whatever order events arrive   *)
(* and whether the worker or the push applies them, each state entry tells *)
(* the newest of those that were taken (README, "Newer single-episode      *)
(* marks take precedence over delayed bulk marks").                        *)
TakenFor(c, k) ==
    {n \in Received : /\ k \in receipts[n].videos /\ c \in Feeds(receipts[n].kind)
                      /\ receipts[n].out[k] \in {"applied", "superseded", "unresolved"}}

NewestIsTold ==
    \A c \in Categories, k \in Targets :
        /\ \A n \in TakenFor(c, k) : receipts[n].at <= entries[c][k].at
        /\ (counted.edits = 0 /\ c # "drop" /\ TakenFor(c, k) # {}) =>
               \E n \in TakenFor(c, k) : receipts[n].at = entries[c][k].at /\ receipts[n].kind = entries[c][k].kind

(* ClearIsObeyed: while the newest mark of a video is an "unplayed", the   *)
(* history holds no watch from before that was made by its id and is of    *)
(* the episode it is known as (README, "Explicit clears remove watches up  *)
(* to the event timestamp"), and while it is a play the history holds one, *)
(* unless the user removed it.  Two ids of one episode have an entry each  *)
(* and may disagree; a user may map an id to one episode and then another. *)
ClearIsObeyed ==
    \A k \in Videos :
        LET e == entries["watched"][k]
        IN  /\ e.kind = "unplayed" => ~\E w \in watches : w.key = k /\ w.ep \in {k, e.ep} /\ w.at <= e.at
            /\ (e.kind \in {"played", "stopped"} /\ k \in Episodes \ erased) => \E w \in watches : w.ep = k

(* OneWatchPerTime: no event becomes two watches, and two events of one    *)
(* moment are one watch.                                                   *)
OneWatchPerTime ==
    \A v, w \in watches : (v.by # 0 /\ w.by # 0 /\ v.ep = w.ep /\ v.at = w.at) => v = w

(* OthersKeepTheShow: a removed show is one nobody else lists (README,     *)
(* "Removing an AIOStreams favourite preserves manual and other-source     *)
(* membership"), after any sequence of favourites, drops and resumed plays *)
(* in any order; a show is dropped only while the drop is on record.       *)
OthersKeepTheShow ==
    /\ item.status = "removed" => item.links = {} /\ ~item.manual
    /\ item.status = "dropped" <=> entries["drop"][Show].kind = "dropped"

(* A state entry tells the newest of the events that were taken, each of   *)
(* which is kept and becomes one watch at most.                            *)
NewestMarkWins == NewestIsTold /\ NothingSwallowed /\ OneWatchPerTime

(* Clears remove what they cover and nothing else, and removals from the   *)
(* list spare what others list.                                            *)
RemovalsAreExact == ClearIsObeyed /\ OthersKeepTheShow

(* EveryMarkSettles: a receipt left to the worker is processed, also if    *)
(* others of its batch cannot be; those that never can hold up the rest    *)
(* only when there are as many as a drain takes.                           *)
StuckReceipts == {n \in ToProcess : receipts[n].stuck}
EveryMarkSettles ==
    \A n \in ReceiptId :
        (n \in ToProcess) ~> (n \notin ToProcess \/ receipts[n].stuck \/ Cardinality(StuckReceipts) >= Limit)
=============================================================================
