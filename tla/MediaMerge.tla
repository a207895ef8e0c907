----------------------------- MODULE MediaMerge -----------------------------
(***************************************************************************)
(* The ids an administrator gives a title: update_media_item_external_ids  *)
(* of api/routes_admin.py.  If another row of the catalogue has one of the *)
(* ids, its episodes, plays, list items and jobs go over to the row of the *)
(* request and it is deleted.  All of it is one transaction, which reads   *)
(* first, writes plays with statements of their own, and the rest when it  *)
(* flushes; until the metadata is fetched and the commit made, it keeps    *)
(* its locks.  Importers, users and the outbox worker go on meanwhile.     *)
(*                                                                         *)
(* One user, rows of one type (others are refused), and at most one other  *)
(* row with a submitted id: the next would be merged in the same way.      *)
(* The items of catalogs follow the title as list items do.                *)
(***************************************************************************)
EXTENDS Integers, Sequences, FiniteSets

CONSTANTS
    MediaItems,   \* rows of the catalogue; the list item made for a row has its name
    KindsOfIds,
    Episodes,     \* ids of episodes
    WatchRows,
    ListSources,  \* that list titles
    ListStatus,   \* of list items
    MaxQueued,    \* bound: jobs of the outbox
    MaxChanges    \* bound: what others write

ASSUME QueueAssumption == MaxQueued \in Nat /\ MaxChanges \in Nat
ASSUME NamesAssumption ==
    /\ MediaItems \cap Episodes = {}
    /\ {"none", "lost", "removed"} \cap (MediaItems \cup Episodes) = {}
    /\ "gone" \notin KindsOfIds

VARIABLES
    series,     \* whether the rows are shows
    ids,        \* the ids of each row
    episodes,
    seen,       \* what each watch is of, and the ids its waiting push names
    items,      \* list items
    outbox,     \* jobs on list items
    update,     \* the request
    disturbed,  \* history: others wrote episodes, list items or jobs after the request read them
    late,       \* history: watches made after the request's statement for watches
    count

updateVars == <<series, ids, episodes, seen, items, outbox, update, disturbed, late, count>>

Ids == KindsOfIds \X MediaItems  \* an id of a kind: the one that a row begins with
KindsOf(I) == {i[1] : i \in I}
DeletedRow == {<<"gone", "gone">>}
NoEpisode == [show |-> "none"]
NotPushed == {}
NoPlay == [of |-> "none", names |-> NotPushed]
NoItem == [media |-> "none"]
Unlisted == [media |-> "removed"]  \* bound: an item is made once
NoUpdate == [step |-> "idle"]

\* WATCHLIST_STATUS_RANK, "hidden" and "active" being older names.
Rank ==
    [removed |-> 0, dropped |-> 1, hidden |-> 1, added |-> 2, not_released |-> 2, active |-> 3,
     in_progress |-> 3, waiting |-> 4, watched |-> 5]
ASSUME StatusAssumption == ListStatus \subseteq DOMAIN Rank

Exists(r) == ids[r] # DeletedRow
Listed(o) == items[o] \notin {NoItem, Unlisted}
EpisodesOf(es, r) == {e \in Episodes : es[e] # NoEpisode /\ es[e].show = r}

\* The ids of an episode; they are compared in lower case.
EpisodeIds == {"none", "tt1", "TT1"}
Lower(i) == IF i = "TT1" THEN "tt1" ELSE i

UpdateTypeOK ==
    /\ series \in BOOLEAN
    /\ \A r \in MediaItems : Exists(r) => ids[r] \subseteq Ids
    /\ \A e \in Episodes : episodes[e] # NoEpisode =>
          /\ episodes[e] \in [show : MediaItems, number : {1, 2}, id : EpisodeIds]
          /\ Exists(episodes[e].show)
    /\ \A w \in WatchRows : seen[w].of \in MediaItems \cup Episodes \cup {"none", "lost"}
    /\ \A o \in MediaItems : Listed(o) =>
          /\ items[o] \in [media : MediaItems, status : ListStatus, links : SUBSET ListSources]
          /\ Exists(items[o].media)
    /\ outbox \in Seq([kind : {"update", "push", "remove"}, at : MediaItems,
                       status : {"waiting", "running", "done", "deleted"}])
    /\ Len(outbox) <= MaxQueued + 1

UpdateInit ==
    /\ series \in BOOLEAN
    /\ ids \in {f \in [MediaItems -> SUBSET Ids] :
                  \A r \in MediaItems : f[r] \subseteq KindsOfIds \X {r}}
    /\ episodes = [e \in Episodes |-> NoEpisode] /\ seen = [w \in WatchRows |-> NoPlay]
    /\ items = [o \in MediaItems |-> NoItem] /\ outbox = <<>>
    /\ update = NoUpdate /\ disturbed = FALSE /\ late = {} /\ count = 0

-----------------------------------------------------------------------------
(* Importers, users and the worker.                                        *)

Changes == count < MaxChanges /\ count' = count + 1
\* Once the request flushed nobody can refer to the row it deletes: that is the commit here.
Busy == update # NoUpdate

AddEpisode(e, r, n, i) ==
    /\ series /\ Exists(r) /\ episodes[e] = NoEpisode /\ Changes
    /\ \A f \in EpisodesOf(episodes, r) : episodes[f].number # n
    /\ i # "none" => \A f \in Episodes : episodes[f] # NoEpisode => episodes[f].id # i
    \* A show has no two ids that differ in case only.
    /\ i # "none" => \A f \in EpisodesOf(episodes, r) : Lower(episodes[f].id) # Lower(i)
    /\ episodes' = [episodes EXCEPT ![e] = [show |-> r, number |-> n, id |-> i]]
    /\ disturbed' = Busy
    /\ UNCHANGED <<series, ids, seen, items, outbox, update, late>>

\* The row of the title a watch is of.
TitleOf(es, x) == IF x \in MediaItems THEN x ELSE es[x].show

AddWatch(w, x, push) ==
    /\ seen[w] = NoPlay /\ Changes
    /\ \/ series /\ x \in Episodes /\ episodes[x] # NoEpisode
       \/ ~series /\ x \in MediaItems /\ Exists(x)
    /\ push => ids[TitleOf(episodes, x)] # {}
    /\ LET named == IF push THEN ids[TitleOf(episodes, x)] ELSE NotPushed
       IN  seen' = [seen EXCEPT ![w] = [of |-> x, names |-> named]]
    /\ LET missed == Busy /\ (update.step = "flush" \/ (series /\ update.step = "repoint"))
       IN  late' = IF missed THEN late \cup {w} ELSE late
    /\ UNCHANGED <<series, ids, episodes, items, outbox, update, disturbed>>

AddItem(r, status, links) ==
    /\ Exists(r) /\ items[r] = NoItem /\ Changes
    /\ \A o \in MediaItems : Listed(o) => items[o].media # r
    /\ items' = [items EXCEPT ![r] = [media |-> r, status |-> status, links |-> links]]
    /\ disturbed' = Busy
    /\ UNCHANGED <<series, ids, episodes, seen, outbox, update, late>>

RemoveItem(o) ==
    /\ Listed(o) /\ Changes /\ items' = [items EXCEPT ![o] = Unlisted] /\ disturbed' = Busy
    /\ UNCHANGED <<series, ids, episodes, seen, outbox, update, late>>

\* What a job is about exists.
IsServed(k, at) == IF k = "update" THEN Exists(at) ELSE Listed(at)

JobsOf(box, k, at) ==
    {j \in DOMAIN box :
        box[j].kind = k /\ box[j].at = at /\ box[j].status \in {"waiting", "running"}}
Waiting(box, k, at) == {j \in JobsOf(box, k, at) : box[j].status = "waiting"}

\* enqueue_outbox_job: coalesced with a waiting job, or a new one.
Enqueue(k, at) ==
    /\ IsServed(k, at) /\ Waiting(outbox, k, at) = {} /\ Len(outbox) < MaxQueued /\ Changes
    /\ outbox' = Append(outbox, [kind |-> k, at |-> at, status |-> "waiting"])
    /\ disturbed' = Busy
    /\ UNCHANGED <<series, ids, episodes, seen, items, update, late>>

ClaimQueued(j) ==
    /\ outbox[j].status = "waiting"
    /\ \A i \in JobsOf(outbox, outbox[j].kind, outbox[j].at) : outbox[i].status = "waiting"
    /\ outbox' = [outbox EXCEPT ![j].status = "running"] /\ disturbed' = Busy
    /\ UNCHANGED <<series, ids, episodes, seen, items, update, late, count>>

FinishQueued(j) ==
    /\ outbox[j].status = "running"
    /\ outbox' = [outbox EXCEPT ![j].status = "done"] /\ disturbed' = Busy
    /\ UNCHANGED <<series, ids, episodes, seen, items, update, late, count>>

-----------------------------------------------------------------------------
(* The request.                                                            *)

\* _load_media_item_for_update, _find_conflicting_media_item, and the episodes of both rows.
BeginUpdate(t, s, submit) ==
    /\ update = NoUpdate /\ Exists(t) /\ Exists(s) /\ s # t /\ submit # {}
    /\ \A i, j \in submit : i[1] = j[1] => i = j
    /\ submit \cap ids[s] # {}
    /\ \A r \in MediaItems \ {s, t} : Exists(r) => submit \cap ids[r] = {}
    /\ update' = [step |-> "load", target |-> t, source |-> s, submit |-> submit,
                  episodes |-> episodes, items |-> items, outbox |-> outbox, plays |-> {}]
    /\ disturbed' = FALSE /\ late' = {}
    /\ UNCHANGED <<series, ids, episodes, seen, items, outbox, count>>

\* _find_target_episode_match: by number, or else by id.
MatchesOf(e) ==
    LET es == update.episodes
        targets == EpisodesOf(es, update.target)
        byNumber == {f \in targets : es[f].number = es[e].number}
    IN  IF byNumber # {} THEN byNumber
        ELSE {f \in targets : es[e].id # "none" /\ Lower(es[f].id) = Lower(es[e].id)}

Moving == EpisodesOf(update.episodes, update.source)
Matched == {e \in Moving : MatchesOf(e) # {}}

\* Mutant: plays of episodes stay where they are.
LoadItems ==
    /\ update.step = "load"
    /\ update' = [update EXCEPT !.step = "repoint", !.items = items, !.outbox = outbox]
    /\ UNCHANGED <<series, ids, episodes, seen, items, outbox, disturbed, late, count>>

\* The statement for the plays of the episodes that go, and the list and its jobs are read.
LoadRows ==
    /\ update.step = "load"
    /\ update' = [update EXCEPT !.step = "repoint", !.items = items, !.outbox = outbox,
                                !.plays = {w \in WatchRows : seen[w].of \in Matched}]
    /\ UNCHANGED <<series, ids, episodes, seen, items, outbox, disturbed, late, count>>

\* The statement for the plays of the row itself.
Repoint ==
    /\ update.step = "repoint"
    /\ update' = [update EXCEPT !.step = "flush",
                    !.plays = @ \cup {w \in WatchRows : seen[w].of = update.source}]
    /\ UNCHANGED <<series, ids, episodes, seen, items, outbox, disturbed, late, count>>

ItemOf(its, r) == {o \in MediaItems : its[o].media = r}

\* _merge_watchlist_item_fields: the higher rank.
MergedStatus(old, new) == IF Rank[old] > Rank[new] THEN old ELSE new

\* _merge_watchlist_items: the items and their links.  A link that both have is one.
MergedItems ==
    [o \in MediaItems |->
        IF items[o].media \notin {update.source, update.target} THEN items[o]
        ELSE LET from == ItemOf(update.items, update.source)
                 to == ItemOf(update.items, update.target)
             IN  IF o \in to /\ from # {}
                 THEN LET old == update.items[CHOOSE f \in from : TRUE]
                      IN  [items[o] EXCEPT !.status = MergedStatus(old.status, @),
                                           !.links = @ \cup old.links]
                 ELSE IF o \in from /\ to = {} THEN [items[o] EXCEPT !.media = update.target]
                 ELSE IF items[o].media = update.source THEN Unlisted ELSE items[o]]

\* _repoint_active_watchlist_jobs, _repoint_active_provider_watchlist_jobs: the jobs of one
\* kind and key go over to another key.  One stays, whichever is read first.
Folded(k, from, to) ==
    LET own == IF from = to THEN {} ELSE JobsOf(update.outbox, k, to)
        moving == JobsOf(update.outbox, k, from)
    IN  IF own # {} \/ moving = {} THEN {{}} ELSE {{j} : j \in moving}

\* The item that the jobs of the source's item are about afterwards.
ItemAfter ==
    LET from == ItemOf(update.items, update.source)
        to == ItemOf(update.items, update.target)
        stays == IF to = {} THEN from ELSE to
    IN  IF from = {} THEN {} ELSE {<<CHOOSE f \in from : TRUE, CHOOSE o \in stays : TRUE>>}

\* Jobs that are done are done; those deleted are so for good.
Keys ==
    {<<"update", update.source, update.target>>}
    \cup {<<k, p[1], p[2]>> : k \in {"push", "remove"}, p \in ItemAfter}
MovedJobs(kept) ==
    [j \in DOMAIN outbox |->
        LET keys == {k \in Keys : j \in JobsOf(update.outbox, k[1], k[2])}
        IN  IF keys = {} THEN outbox[j]
            ELSE IF j \in kept THEN [outbox[j] EXCEPT !.at = (CHOOSE k \in keys : TRUE)[3]]
            ELSE [outbox[j] EXCEPT !.status = "deleted"]]

\* UNIQUE constraints that the flush violates: a copied id is the other row's still; or
\* others took an episode's number, the place of a list item or a job's key meanwhile.
IdsTaken ==
    \/ KindsOf(ids[update.source]) \ KindsOf(ids[update.target]) # {}
    \/ \E e \in Matched : episodes[e].id # "none" /\ \A f \in MatchesOf(e) : episodes[f].id = "none"
KeyTaken(kept) ==
    \/ \E e \in Moving \ Matched, f \in EpisodesOf(episodes, update.target) :
          episodes[e].number = episodes[f].number
    \/ /\ ItemOf(update.items, update.source) # {}
       /\ ItemOf(items, update.target) \ ItemOf(update.items, update.target) # {}
    \/ \E j \in kept, k \in Keys :
          /\ j \in JobsOf(update.outbox, k[1], k[2]) /\ outbox[j].status = "waiting"
          /\ Waiting(outbox, k[1], k[3]) \ {j} # {}

\* An item that is to be written is gone.
ItemLost ==
    LET from == ItemOf(update.items, update.source)
        to == ItemOf(update.items, update.target)
    IN  \/ from # {} /\ \E o \in to : ~Listed(o)
        \/ \E f \in from :
              ~Listed(f) /\ \A o \in to : update.items[f].links \ update.items[o].links # {}

UpdateFails(kept) == IdsTaken \/ KeyTaken(kept) \/ ItemLost

\* The jobs that may be left of each kind.
Kept == {K \in SUBSET DOMAIN update.outbox :
            /\ \A k \in Keys : K \cap JobsOf(update.outbox, k[1], k[2]) \in Folded(k[1], k[2], k[3])
            /\ \A j \in K : \E k \in Keys : j \in JobsOf(update.outbox, k[1], k[2])}

\* _refresh_active_sync_jobs_for_media_item.
Renamed(es, w, named) ==
    IF seen[w].names # NotPushed /\ TitleOf(es, seen[w].of) \in {update.target, update.source}
    THEN named ELSE seen[w].names

\* Rows that refer to the deleted row go with it, unless they were written.
EpisodesAfter ==
    [e \in Episodes |->
        IF e \in Moving \ Matched THEN [episodes[e] EXCEPT !.show = update.target]
        ELSE IF episodes[e].show = update.source THEN NoEpisode ELSE episodes[e]]
OfAfter(w) ==
    LET x == seen[w].of
    IN  IF w \in update.plays
        THEN IF x \in MediaItems THEN update.target ELSE CHOOSE f \in MatchesOf(x) : TRUE
        ELSE IF x = update.source \/ (x \in Episodes /\ EpisodesAfter[x] = NoEpisode) THEN "lost"
        ELSE x

\* _enqueue_personal_watchlist_resync: a push for the item unless one waits; what is in
\* flight may be the same.
Resynced(box, its) ==
    LET o == {p \in ItemOf(its, update.target) : its[p].status # "dropped"}
        push(n) == [kind |-> "push", at |-> CHOOSE p \in n : TRUE, status |-> "waiting"]
    IN  {IF new = {} THEN box ELSE Append(box, push(new)) :
            new \in {n \in SUBSET o : /\ \A p \in n : Waiting(box, "push", p) = {}
                                      /\ \A p \in o \ n : JobsOf(box, "push", p) # {}}}

\* The flush, the metadata, the pushes and the commit.
CommitUpdate ==
    /\ update.step = "flush"
    /\ \E kept \in Kept :
          /\ ~UpdateFails(kept)
          /\ \E box \in Resynced(MovedJobs(kept), MergedItems) :
                Len(box) <= MaxQueued + 1 /\ outbox' = box
    /\ LET others == {i \in ids[update.target] : i[1] \notin KindsOf(update.submit)}
           named == others \cup update.submit
       IN  /\ ids' = [ids EXCEPT ![update.target] = named, ![update.source] = DeletedRow]
           /\ seen' = [w \in WatchRows |->
                 [of |-> OfAfter(w), names |-> IF OfAfter(w) \in {"none", "lost"} THEN NotPushed
                                               ELSE Renamed(episodes, w, named)]]
    /\ episodes' = EpisodesAfter /\ items' = MergedItems /\ update' = NoUpdate
    /\ UNCHANGED <<series, disturbed, late, count>>

\* The request fails and nothing is changed.
FailUpdate ==
    /\ update.step = "flush" /\ \E kept \in Kept : UpdateFails(kept)
    /\ update' = NoUpdate
    /\ UNCHANGED <<series, ids, episodes, seen, items, outbox, disturbed, late, count>>

UpdateNext ==
    \/ \E e \in Episodes, r \in MediaItems, n \in {1, 2}, i \in EpisodeIds : AddEpisode(e, r, n, i)
    \/ \E w \in WatchRows, x \in MediaItems \cup Episodes, push \in BOOLEAN : AddWatch(w, x, push)
    \/ \E r \in MediaItems :
          RemoveItem(r) \/ \E status \in ListStatus, L \in SUBSET ListSources : AddItem(r, status, L)
    \/ \E k \in {"update", "push", "remove"}, at \in MediaItems : Enqueue(k, at)
    \/ \E j \in DOMAIN outbox : ClaimQueued(j) \/ FinishQueued(j)
    \/ \E t, s \in MediaItems, submit \in SUBSET Ids : BeginUpdate(t, s, submit)
    \/ LoadRows \/ Repoint \/ CommitUpdate \/ FailUpdate

UpdateSpec == UpdateInit /\ [][UpdateNext]_updateVars

-----------------------------------------------------------------------------
UpdateCommits == update # NoUpdate /\ Exists(update.source) /\ ids'[update.source] = DeletedRow

SameEpisode(e, f) == e.number = f.number \/ Lower(e.id) = Lower(f.id)
PlaysSurvive ==
    \A w \in WatchRows \ late :
        LET x == seen[w].of
        IN  (x \in MediaItems \/ (x \in Episodes /\ update.episodes[x] # NoEpisode)) =>
                /\ seen'[w].of \in MediaItems \cup Episodes
                /\ TitleOf(episodes, x) = update.source => TitleOf(episodes', seen'[w].of) = update.target
                /\ x \in Episodes => SameEpisode(episodes[x], episodes'[seen'[w].of])

ListSurvives ==
    \A o \in MediaItems : (Listed(o) /\ items[o].media \in {update.source, update.target}) =>
        \E p \in ItemOf(items', update.target) :
            Rank[items[o].status] <= Rank[items'[p].status] /\ items[o].links \subseteq items'[p].links

JobsSurvive ==
    \A k \in {"update", "push", "remove"}, at \in MediaItems :
        (IsServed(k, at) /\ JobsOf(outbox, k, at) # {}) =>
            \E to \in {at} \cup {key[3] : key \in {q \in Keys : q[1] = k /\ q[2] = at}} :
                IsServed(k, to)' /\ JobsOf(outbox', k, to) # {}
PushesName ==
    \A w \in WatchRows :
        (seen'[w].names # NotPushed /\ TitleOf(episodes', seen'[w].of) = update.target) =>
            seen'[w].names = ids'[update.target]

(* MergeKeepsAll: a merge loses no play that was there when its statement  *)
(* for plays ran, of an episode it had read: it is of the title that       *)
(* stays, and of the same episode; and a push of a play names the ids that *)
(* the title has now.  If nothing was written meanwhile, who had either    *)
(* row on the list has the title on it, no further back, with every source *)
(* that listed one of them; and a job on a list item or a title is         *)
(* followed by one on what is left of it.                                  *)
MergeKeepsAll ==
    [][UpdateCommits =>
          PlaysSurvive /\ PushesName /\ (~disturbed => ListSurvives /\ JobsSurvive)]_updateVars
=============================================================================
