---------------------------- MODULE MergeHistory ----------------------------
(***************************************************************************)
(* The merge of duplicate watches of one user: jobs/merge_history.py.      *)
(* Importers and the user record the same play more than once, perhaps     *)
(* under two rows of the catalogue (MediaIdentity.tla).  The merge loads   *)
(* all watches, groups those of a day that share a key, and makes one of   *)
(* every group, a commit per group.  The user and the outbox worker go on  *)
(* meanwhile: the merge of all histories blocks nobody (ImportRuns.tla has *)
(* what the merge after an import blocks).                                 *)
(*                                                                         *)
(* One provider is modelled.  A sync and a job are named after the watch   *)
(* they were made for; "media" is a film or an episode.                    *)
(***************************************************************************)
EXTENDS Integers, FiniteSets

CONSTANTS
    Watches,  \* ids of watches
    Days,
    Media,    \* rows of the catalogue
    NameOf,   \* a row's title key: rows of one name are merged
    IdsOf,    \* the ids a row has: a subset of {"imdb", "tmdb"}
    MaxEdits  \* bound: edits and deletions

ASSUME MediaAssumption == IdsOf \in [Media -> SUBSET {"imdb", "tmdb"}]
ASSUME EditsAssumption == MaxEdits \in Nat

VARIABLES
    watches, syncs, jobs,
    merge,   \* the merge between its load and its end
    edited,  \* history: watches of groups to come that the user changed since the load
    pushed,  \* history: watches of the group at hand whose syncs changed since they were read
    edits

mergeVars == <<watches, syncs, jobs, merge, edited, pushed, edits>>

NoWatch == [source |-> "none"]
GoneWatch == [source |-> "gone"]
NoWatchSync == [status |-> "none"]
NoPush == [status |-> "none"]
NoMerge == [loaded |-> FALSE]

MergeTypeOK ==
    /\ \A w \in Watches :
          /\ watches[w] \notin {NoWatch, GoneWatch} => watches[w] \in [source : {"trakt", "manual"}, media : Media, day : Days]
          /\ syncs[w] # NoWatchSync =>
                syncs[w] \in [status : {"pending", "succeeded", "imported"}, ext : BOOLEAN, watch : Watches]
          /\ jobs[w] # NoPush => jobs[w] \in [status : {"pending", "in_progress"}, watch : Watches, sync : Watches]
    /\ edited \subseteq Watches /\ pushed \subseteq Watches

MergeInit ==
    /\ watches = [w \in Watches |-> NoWatch]
    /\ syncs = [w \in Watches |-> NoWatchSync] /\ jobs = [w \in Watches |-> NoPush]
    /\ merge = NoMerge /\ edited = {} /\ pushed = {} /\ edits = 0

\* Only what happens to the groups of a merge matters.
Edited(w) == IF merge.loaded THEN edited \cup ({w} \cap UNION merge.left) ELSE {}
Pushed(ws) == IF merge.loaded THEN pushed \cup (ws \cap merge.now) ELSE {}

There(ws) == {w \in Watches : ws[w] \notin {NoWatch, GoneWatch}}

-----------------------------------------------------------------------------
(* The user, the importers and the worker.                                 *)

New(w, source, m, d) ==
    /\ watches[w] = NoWatch
    /\ watches' = [watches EXCEPT ![w] = [source |-> source, media |-> m, day |-> d]]
    /\ UNCHANGED <<merge, edited, pushed, edits>>

AddWatched(w, m, d) == New(w, "manual", m, d) /\ UNCHANGED <<syncs, jobs>>

\* From the provider, or from another.
Import(w, m, d, here) ==
    /\ New(w, "trakt", m, d)
    /\ syncs' = IF here THEN [syncs EXCEPT ![w] = [status |-> "imported", ext |-> TRUE, watch |-> w]] ELSE syncs
    /\ UNCHANGED jobs

\* The new-item job of a watch: it is queued for the provider if that does not have it.
QueuePush(w) ==
    /\ w \in There(watches) /\ ~\E s \in Watches : syncs[s] # NoWatchSync /\ syncs[s].watch = w
    /\ syncs[w] = NoWatchSync /\ jobs[w] = NoPush
    /\ syncs' = [syncs EXCEPT ![w] = [status |-> "pending", ext |-> FALSE, watch |-> w]]
    /\ jobs' = [jobs EXCEPT ![w] = [status |-> "pending", watch |-> w, sync |-> w]]
    /\ pushed' = Pushed({w})
    /\ UNCHANGED <<watches, merge, edited, edits>>

UserEdits == edits < MaxEdits /\ edits' = edits + 1

\* Another day; the job for it is left out.
Update(w, d) ==
    /\ w \in There(watches) /\ watches[w].day # d /\ UserEdits
    /\ watches' = [watches EXCEPT ![w].day = d] /\ edited' = Edited(w)
    /\ UNCHANGED <<syncs, jobs, merge, pushed>>

\* A worker holds the watch of the push it sends (Outbox.tla).
InFlight(w) == \E j \in Watches : jobs[j].status = "in_progress" /\ jobs[j].watch = w

\* Queued pushes are cancelled and the watch's syncs go with it.
DeleteWatch(w) ==
    /\ w \in There(watches) /\ ~InFlight(w) /\ UserEdits
    /\ watches' = [watches EXCEPT ![w] = GoneWatch] /\ edited' = Edited(w) /\ pushed' = Pushed({w})
    /\ syncs' = [s \in Watches |-> IF syncs[s] # NoWatchSync /\ syncs[s].watch = w THEN NoWatchSync ELSE syncs[s]]
    /\ jobs' = [j \in Watches |-> IF jobs[j].status = "pending" /\ jobs[j].watch = w THEN NoPush ELSE jobs[j]]
    /\ UNCHANGED merge

ClaimPush(j) ==
    /\ jobs[j].status = "pending"
    /\ jobs' = [jobs EXCEPT ![j].status = "in_progress"]
    /\ UNCHANGED <<watches, syncs, merge, edited, pushed, edits>>

\* The provider has the watch.  A job whose sync is gone has nothing to record it in.
Deliver(j) ==
    /\ jobs[j].status = "in_progress"
    /\ syncs' = IF syncs[jobs[j].sync] = NoWatchSync THEN syncs
                ELSE [syncs EXCEPT ![jobs[j].sync] = [@ EXCEPT !.status = "succeeded", !.ext = TRUE]]
    /\ jobs' = [jobs EXCEPT ![j] = NoPush]
    /\ pushed' = IF syncs[jobs[j].sync] = NoWatchSync THEN pushed ELSE Pushed({syncs[jobs[j].sync].watch})
    /\ UNCHANGED <<watches, merge, edited, edits>>

-----------------------------------------------------------------------------
(* The merge.                                                              *)

\* Of one day and with a key in common.
Same(v, w) == v.day = w.day /\ NameOf[v.media] = NameOf[w.media]

Clusters(ws) ==
    {C \in {{v \in There(ws) : Same(ws[v], ws[w])} : w \in There(ws)} : Cardinality(C) > 1}

Load ==
    /\ merge = NoMerge /\ There(watches) # {}
    /\ merge' = [loaded |-> TRUE, watches |-> watches, left |-> Clusters(watches), now |-> {}, syncs |-> syncs]
    /\ edited' = {} /\ pushed' = {}
    /\ UNCHANGED <<watches, syncs, jobs, edits>>

\* _row_sort_key.
Score(w) ==
    LET ids == IdsOf[merge.watches[w].media]
    IN  (IF "imdb" \in ids THEN 6 ELSE 0) + (IF "tmdb" \in ids THEN 5 ELSE 0)
        + (IF merge.watches[w].source = "trakt" THEN 4 ELSE 2)

Primaries(C) == {p \in C : \A w \in C : Score(w) <= Score(p)}

\* _merge_media copies the ids the primary's row lacks while the other row has them still.
IdsConflict(p, C) == \E w \in C : IdsOf[merge.watches[w].media] \ IdsOf[merge.watches[p].media] # {}

\* _sync_score.
SyncScore(s) ==
    (CASE s.status = "pending" -> 3 [] OTHER -> 5) + (IF s.ext THEN 2 ELSE 0)

\* The syncs as they were read.
ReadSyncs == merge.syncs
SyncsOf(C) == {s \in Watches : ReadSyncs[s] # NoWatchSync /\ ReadSyncs[s].watch \in C}

Best(C) == {s \in SyncsOf(C) : \A t \in SyncsOf(C) : SyncScore(ReadSyncs[t]) <= SyncScore(ReadSyncs[s])}

\* The sync that stays: the primary's, or the best.
Keeps(p, C) ==
    LET own == {s \in SyncsOf(C) : ReadSyncs[s].watch = p}
    IN  IF own # {} THEN own ELSE Best(C)

\* _merge_sync_fields, for all the others, b being the best.
MergedSync(k, b, p, C) ==
    LET kept == [ReadSyncs[k] EXCEPT !.watch = p, !.ext = \E s \in SyncsOf(C) : ReadSyncs[s].ext]
    IN  IF SyncScore(ReadSyncs[b]) > SyncScore(kept) THEN [kept EXCEPT !.status = ReadSyncs[b].status] ELSE kept

\* _repoint_outbox_jobs.
Repointed(j, k, p, C) ==
    IF j = NoPush THEN j
    ELSE [j EXCEPT !.sync = IF @ \in SyncsOf(C) THEN k ELSE @,
                   !.watch = IF @ \in C \/ j.sync \in SyncsOf(C) THEN p ELSE @]

\* Mutant: the syncs of all groups are read with the watches.
BeginGroupAsLoaded(C) ==
    /\ merge.loaded /\ merge.now = {} /\ C \in merge.left
    /\ merge' = [merge EXCEPT !.now = C]
    /\ pushed' = {}
    /\ UNCHANGED <<watches, syncs, jobs, edited, edits>>

\* _merge_cluster begins: the syncs and the jobs of a group are read.
BeginGroup(C) ==
    /\ merge.loaded /\ merge.now = {} /\ C \in merge.left
    /\ merge' = [merge EXCEPT !.now = C, !.syncs = syncs]
    /\ pushed' = {}
    /\ UNCHANGED <<watches, syncs, jobs, edited, edits>>

\* The changed columns of the sync that stays; syncs made meanwhile go with their watch.
\* k and b are p if the group has no sync.
Merged(C, p, k, b) ==
    /\ watches' = [w \in Watches |-> IF w \in C \ {p} THEN GoneWatch ELSE watches[w]]
    /\ syncs' = [s \in Watches |->
          IF s \notin SyncsOf(C) /\ syncs[s] # NoWatchSync /\ syncs[s].watch \in C \ {p} THEN NoWatchSync
          ELSE IF s \notin SyncsOf(C) THEN syncs[s]
          ELSE IF s # k \/ syncs[s] = NoWatchSync THEN NoWatchSync
          ELSE LET m == MergedSync(k, b, p, C)
               IN  [watch |-> p,
                    ext |-> IF m.ext # ReadSyncs[k].ext THEN m.ext ELSE syncs[k].ext,
                    status |-> IF m.status # ReadSyncs[k].status THEN m.status ELSE syncs[k].status]]
    /\ jobs' = [j \in Watches |-> IF jobs[j] = NoPush THEN NoPush ELSE Repointed(jobs[j], k, p, C)]
    /\ merge' = [merge EXCEPT !.left = @ \ {C}, !.now = {}]
    /\ pushed' = {}
    /\ UNCHANGED <<edited, edits>>

\* The row of the primary, or of a sync that is to be written, is gone.
Lost(p, C) == watches[p] = GoneWatch \/ \E s \in SyncsOf(C) : syncs[s] = NoWatchSync

\* The commit; deleting a watch waits for a push of it.
Merge ==
    LET C == merge.now
    IN  /\ merge.loaded /\ C # {}
        /\ \E p \in Primaries(C) :
              /\ ~IdsConflict(p, C) /\ (SyncsOf(C) # {} => ~Lost(p, C))
              /\ \A w \in C \ {p} : ~InFlight(w)
              /\ IF SyncsOf(C) = {} THEN Merged(C, p, p, p)
                 ELSE \E k \in Keeps(p, C), b \in Best(C) : Merged(C, p, k, b)

\* The commit fails, and with it the run; it begins anew later.
FailMerge ==
    /\ merge.loaded /\ merge.now # {}
    /\ \E p \in Primaries(merge.now) : IdsConflict(p, merge.now) \/ Lost(p, merge.now)
    /\ merge' = NoMerge /\ edited' = {} /\ pushed' = {}
    /\ UNCHANGED <<watches, syncs, jobs, edits>>

EndMerge ==
    /\ merge.loaded /\ merge.left = {}
    /\ merge' = NoMerge /\ edited' = {} /\ pushed' = {}
    /\ UNCHANGED <<watches, syncs, jobs, edits>>

MergeNext ==
    \/ \E w \in Watches, m \in Media, d \in Days : AddWatched(w, m, d) \/ (\E here \in BOOLEAN : Import(w, m, d, here))
    \/ \E w \in Watches : DeleteWatch(w) \/ QueuePush(w) \/ (\E d \in Days : Update(w, d))
    \/ \E j \in Watches : ClaimPush(j) \/ Deliver(j)
    \/ Load \/ EndMerge \/ Merge \/ FailMerge \/ (merge.loaded /\ \E C \in merge.left : BeginGroup(C))

MergeSpec == MergeInit /\ [][MergeNext]_mergeVars

-----------------------------------------------------------------------------

\* What the history says of a name and a day, and whether the provider is known to have it.
Played(n, d) == \E w \in There(watches) : NameOf[watches[w].media] = n /\ watches[w].day = d
Known(n, d) ==
    \E s \in Watches : /\ syncs[s] # NoWatchSync /\ syncs[s].ext /\ syncs[s].watch \in There(watches)
                       /\ LET w == watches[syncs[s].watch] IN NameOf[w.media] = n /\ w.day = d

MergeStep == merge.loaded /\ merge' # merge

\* The user left the group at hand alone, and nobody has changed its syncs since it was read.
Unedited == edited \cap merge.now = {}
AsRead == Unedited /\ pushed \cap merge.now = {}

(* PlaysStay: a merge takes no play out of the history: what was watched  *)
(* on a day is still there afterwards, whatever is added, pushed or edited *)
(* meanwhile, unless the user changed a watch of the very group between    *)
(* the load and the group's commit.                                        *)
PlaysStay ==
    [][(MergeStep /\ Unedited) => \A m \in Media, d \in Days : Played(NameOf[m], d) => Played(NameOf[m], d)']_mergeVars

(* KnownStaysKnown: what is known to be at the provider stays so, or the   *)
(* next push would send it a second time; unless an answer to a push of    *)
(* one of the group came between the reading of its syncs and the commit.  *)
KnownStaysKnown ==
    [][(MergeStep /\ AsRead) => \A m \in Media, d \in Days : Known(NameOf[m], d) => Known(NameOf[m], d)']_mergeVars

(* JobsMoveAlong: a queued push names a watch and the watch's sync; if a   *)
(* merge deletes the watch, the job goes over to the one that stays, or it *)
(* would be dropped as the push of a deleted watch.                        *)
Served(j) ==
    /\ jobs[j].watch \in There(watches) /\ syncs[jobs[j].sync] # NoWatchSync
    /\ syncs[jobs[j].sync].watch = jobs[j].watch
JobsMoveAlong ==
    [][(MergeStep /\ AsRead) => \A j \in Watches : (jobs[j].status = "pending" /\ Served(j)) => Served(j)']_mergeVars

(* What a merge may not lose: plays, what the provider has, and jobs. *)
NoPlayLost == PlaysStay /\ KnownStaysKnown /\ JobsMoveAlong
=============================================================================
