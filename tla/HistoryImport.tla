--------------------------- MODULE HistoryImport ---------------------------
(***************************************************************************)
(* The imports of one user's plays at one provider into the local history: *)
(* jobs/trakt_import.py, simkl_import.py, letterboxd_import.py,            *)
(* anilist_import.py, publicmetadb_import.py and stremio_import.py over    *)
(* jobs/import_pipeline.py.  A run fetches one part of the history after   *)
(* the other and imports each by the batch: it reads what was imported     *)
(* before and what the user cleared or blacklisted, and commits the        *)
(* batch's watches.  It may die between any two of these steps; meanwhile  *)
(* the user watches, adds, deletes and clears, and another run may do the  *)
(* same work.                                                              *)
(***************************************************************************)
EXTENDS Integers, FiniteSets

CONSTANTS
    Sessions, Full, \* runs; those of Full fetch the whole history
    Titles, Sources,
    NCategories, CategoryOfTitle, \* parts fetched one after another, and each title's
    MaxDay,      \* bound: days that pass; all times are days
    Lookback,    \* settings.history_lookback_days, of a quick import
    MaxPlays, MaxWatches, \* bounds: plays and watches ever
    MaxMishaps, MaxActs \* bounds: failures and crashes; what the user deletes, clears or blocks

ASSUME SourcesAssumption ==
    Sources \subseteq {"trakt", "simkl", "letterboxd", "anilist", "publicmetadb", "stremio"}
ASSUME SessionsAssumption == Full \subseteq Sessions
ASSUME CategoriesAssumption == NCategories \in Nat \ {0} /\ CategoryOfTitle \in [Titles -> 1 .. NCategories]
ASSUME ImportBoundAssumption ==
    /\ MaxDay \in Nat \ {0} /\ Lookback \in Nat
    /\ MaxPlays \in Nat /\ MaxWatches \in Nat /\ MaxMishaps \in Nat /\ MaxActs \in Nat

VARIABLES
    provider,
    day,
    plays,     \* at the provider: title, day (0 without one), when it changed, still there
    items,   \* local: title, day, the play it stems from, its WatchSync.external_id
    events,    \* WatchEvent: the entry keys of <provider>_imported
    cleared,   \* the day of a title's "unplayed" WatchStateEntry, 0 without one
    black,     \* blacklisted titles
    cursor,    \* Integration.config["simkl_activity_all"], 0 without one
    seen,      \* Integration.config["simkl_activity_<category>"], 0 without one
    runs,
    cause,     \* history: plays whose import may repeat, get lost or outlive a clear, and why
    deleted,   \* history: plays whose watch was deleted
    total    \* the plays, watches, mishaps and acts of the user so far

historyVars == <<provider, day, plays, items, events, cleared, black, cursor, seen, runs, cause, deleted, total>>

Days == 0 .. MaxDay
PlayId == 1 .. MaxPlays
WatchId == 1 .. MaxWatches
NoPlay == [title |-> "", at |-> 0, changed |-> 0, there |-> FALSE]
NoItem == [title |-> "", day |-> 0, origin |-> 0, ext |-> 0]
Category == 1 .. NCategories
NoImport == [step |-> "none", now |-> 0, since |-> 0, asOf |-> 0, acts |-> [c \in Category |-> 0],
             parts |-> {}, passed |-> {}, why |-> "window", left |-> {}, entries |-> {}]
Whys == {"window", "restart", "tie"}
Causes == {"pushed", "forgotten", "undated", "backdated", "failed", "raced", "refused"} \cup Whys

PlayEntry == [play : PlayId, key : Titles \X Days \cup {<<"id", n>> : n \in PlayId}, title : Titles, day : Days]
Steps == {"none", "fetch", "read", "write", "finish"}

HistoryTypeOK ==
    /\ provider \in Sources /\ day \in 1 .. MaxDay
    /\ plays \in [PlayId -> [title : Titles, at : Days, changed : Days, there : BOOLEAN] \cup {NoPlay}]
    /\ items \in [WatchId -> [title : Titles, day : Days, origin : PlayId, ext : PlayId] \cup {NoItem}]
    /\ cleared \in [Titles -> Days] /\ black \subseteq Titles
    /\ cursor \in Days /\ seen \in [Category -> Days]
    /\ runs \in [Sessions -> [step : Steps, now : Days, since : Days, asOf : Days, acts : [Category -> Days],
                              parts : SUBSET Category, passed : SUBSET PlayId, why : Whys,
                              left : SUBSET PlayEntry, entries : SUBSET PlayEntry]]
    /\ cause \in [Causes -> SUBSET PlayId] /\ deleted \subseteq PlayId
    /\ total \in [plays : 0 .. MaxPlays, items : 0 .. MaxWatches, mishaps : 0 .. MaxMishaps, acts : 0 .. MaxActs]

HistoryInit ==
    /\ provider \in Sources
    /\ day = 1
    /\ plays = [n \in PlayId |-> NoPlay]
    /\ items = [w \in WatchId |-> NoItem]
    /\ events = {} /\ cleared = [t \in Titles |-> 0] /\ black = {}
    /\ cursor = 0 /\ seen = [c \in Category |-> 0]
    /\ runs = [s \in Sessions |-> NoImport]
    /\ cause = [c \in Causes |-> {}]
    /\ deleted = {}
    /\ total = [plays |-> 0, items |-> 0, mishaps |-> 0, acts |-> 0]

Played == 1 .. total.plays
There == {n \in PlayId : plays[n].there}
Local == {w \in WatchId : items[w] # NoItem}
Mishap == total.mishaps < MaxMishaps
Acts == total.acts < MaxActs /\ total' = [total EXCEPT !.acts = @ + 1]
Explain(c, ns) == [cause EXCEPT ![c] = @ \cup ns]

-----------------------------------------------------------------------------
(* What each importer makes of a play and which plays it asks for. *)

\* These keep one entry per title, which a later play replaces.
OneEntry == {"simkl", "anilist", "stremio"}

\* The play's day, and the run's own for one without (_extract_watched_at, _select_watched_at).
Dated(n, now) == IF plays[n].at = 0 THEN now ELSE plays[n].at

ById(n, now) == [play |-> n, key |-> <<"id", n>>, title |-> plays[n].title, day |-> Dated(n, now)]
ByDay(n, now) == [ById(n, now) EXCEPT !.key = <<plays[n].title, Dated(n, now)>>]

\* One entry per play or, at AniList, per list entry of a title.
TraktEntry(n, now) == ById(n, now)
LetterboxdEntry(n, now) == ById(n, now)
PublicMetaDbEntry(n, now) == ById(n, now)
AniListEntry(n, now) == [ById(n, now) EXCEPT !.key = <<plays[n].title, 0>>]
SimklEntry(n, now) == ByDay(n, now)
StremioEntry(n, now) == ByDay(n, now)

EntryOf(n, now) ==
    CASE provider = "trakt" -> TraktEntry(n, now)
      [] provider = "letterboxd" -> LetterboxdEntry(n, now)
      [] provider = "publicmetadb" -> PublicMetaDbEntry(n, now)
      [] provider = "anilist" -> AniListEntry(n, now)
      [] provider = "simkl" -> SimklEntry(n, now)
      [] provider = "stremio" -> StremioEntry(n, now)

Recent(n, now) == Dated(n, now) >= now - Lookback

TraktPlays(r, full) == {n \in There : full \/ Recent(n, r.now)}
LetterboxdPlays(r, full) == {n \in There : full \/ Recent(n, r.now)}
PublicMetaDbPlays(r, full) == {n \in There : full \/ Recent(n, r.now)}
AniListPlays(r, full) == {n \in There : full \/ (plays[n].changed >= r.now - Lookback /\ Recent(n, r.now))}
\* The full import calls _import_library_item without its last argument: every item fails.
StremioPlays(r, full) == {n \in There : ~full /\ plays[n].changed >= r.now - Lookback}
\* Simkl returns what changed; the importer drops what was watched before.
SimklPlays(r, full) == {n \in There : plays[n].changed >= r.since /\ Dated(n, r.now) >= r.since}

Wanted(r, full) ==
    CASE provider = "trakt" -> TraktPlays(r, full)
      [] provider = "letterboxd" -> LetterboxdPlays(r, full)
      [] provider = "publicmetadb" -> PublicMetaDbPlays(r, full)
      [] provider = "anilist" -> AniListPlays(r, full)
      [] provider = "simkl" -> SimklPlays(r, full)
      [] provider = "stremio" -> StremioPlays(r, full)

\* Trakt's movies and episodes, Simkl's movies, shows and anime and Stremio's chunks of ids
\* are fetched one after the other, the histories of the others at once.
Parted == provider \in {"trakt", "simkl", "stremio"}
PartOf(n) == IF Parted THEN CategoryOfTitle[plays[n].title] ELSE 1
AllParts == IF Parted THEN Category ELSE {1}
FirstPart(r) == CHOOSE c \in r.parts : \A d \in r.parts : c <= d

Fetched(r, full) == {n \in Wanted(r, full) : PartOf(n) = FirstPart(r)}

-----------------------------------------------------------------------------
(* What Simkl is asked for. *)

LatestChange(ns) ==
    IF ns = {} THEN 0
    ELSE CHOOSE c \in {plays[n].changed : n \in ns} : \A n \in ns : plays[n].changed <= c

\* fetch_activities: when anything of the user's changed last, and anything of a category.
Activity == LatestChange(There)
Activities == [c \in Category |-> LatestChange({n \in There : PartOf(n) = c})]

Positive(n) == IF n < 0 THEN 0 ELSE n
Least(a, b) == IF a <= b THEN a ELSE b

\* _select_date_from, told of the activity.
Since(full, now, act) ==
    IF events = {} THEN IF full THEN 0 ELSE Positive(now - Lookback)
    ELSE IF cursor > 0 THEN cursor
    ELSE IF full THEN act
    ELSE IF act > 0 THEN Least(act, Positive(now - Lookback)) ELSE Positive(now - Lookback)

Unchanged(act) == events # {} /\ cursor > 0 /\ act > 0 /\ act <= cursor
Changed(acts) == {c \in Category : ~(acts[c] > 0 /\ seen[c] > 0 /\ acts[c] <= seen[c])}

\* _select_simkl_categories: none, those with news, or all.
Selected(act, acts) ==
    IF Unchanged(act) THEN {}
    ELSE IF events = {} \/ Changed(acts) = {} THEN Category ELSE Changed(acts)

\* What a finished run need not ask for again.
Reached(n) == plays[n].changed < cursor \/ plays[n].changed < seen[PartOf(n)]

\* What will be behind the cursor after this run although no run has asked for it: too old
\* for the window of a first import; or of a run that finds plays of an earlier one, failed or
\* not over, but no cursor; or changed at the very time that its category's cursor has.
PassedOver(act, parts, since) ==
    {n \in There : /\ plays[n].changed < act /\ ~Reached(n)
                   /\ ~(plays[n].changed >= since /\ PartOf(n) \in parts)}
Why == IF events = {} THEN "window" ELSE IF cursor = 0 THEN "restart" ELSE "tie"

-----------------------------------------------------------------------------
(* A run. *)

Taken(r, full) == {EntryOf(n, r.now) : n \in Fetched(r, full)}

\* A run of the other importers begins.
BeginImport(s) ==
    /\ runs[s].step = "none" /\ provider # "simkl"
    /\ runs' = [runs EXCEPT ![s] = [NoImport EXCEPT !.step = "fetch", !.now = day, !.parts = AllParts]]
    /\ UNCHANGED <<provider, day, plays, items, events, cleared, black, cursor, seen, cause, deleted, total>>

\* Simkl's run, when it knows the activities.
Asked(full, act, acts) ==
    LET parts == Selected(act, acts)
        since == Since(full, day, act)
    IN  [NoImport EXCEPT !.step = IF parts = {} THEN "finish" ELSE "fetch",
                         !.now = day, !.since = since, !.asOf = act, !.acts = acts,
                         !.parts = parts, !.passed = PassedOver(act, parts, since), !.why = Why]

\* Simkl is asked first what has changed.
Ask(s) ==
    /\ runs[s].step = "none" /\ provider = "simkl"
    /\ runs' = [runs EXCEPT ![s] = Asked(s \in Full, Activity, Activities)]
    /\ UNCHANGED <<provider, day, plays, items, events, cleared, black, cursor, seen, cause, deleted, total>>

\* That fails, and the run goes on without.
AskInVain(s) ==
    /\ runs[s].step = "none" /\ provider = "simkl" /\ Mishap
    /\ runs' = [runs EXCEPT ![s] = Asked(s \in Full, 0, [c \in Category |-> 0])]
    /\ total' = [total EXCEPT !.mishaps = @ + 1]
    /\ UNCHANGED <<provider, day, plays, items, events, cleared, black, cursor, seen, cause, deleted>>

\* The batch's next entries, the next batch, the next part, or the run's end.
Onwards(r) ==
    [r EXCEPT !.step = IF r.entries # {} THEN "write" ELSE IF r.left # {} THEN "read"
                       ELSE IF r.parts # {} THEN "fetch" ELSE "finish"]

\* The next part is fetched.  AniList's importer does without the statuses that fail, and
\* Stremio's without the chunks.
Fetch(s) ==
    /\ runs[s].step = "fetch"
    /\ LET r == runs[s]
           all == Taken(r, s \in Full)
       IN  /\ \E got \in SUBSET all :
                  /\ \/ got = all /\ UNCHANGED total
                     \/ /\ provider \in {"anilist", "stremio"} /\ Mishap
                        /\ total' = [total EXCEPT !.mishaps = @ + 1]
                  /\ runs' = [runs EXCEPT ![s] = Onwards([r EXCEPT !.left = got, !.parts = @ \ {FirstPart(r)}])]
           /\ cause' = [cause EXCEPT
                  !["backdated"] = @ \cup {n \in There : Dated(n, r.now) < r.since /\ plays[n].changed >= r.since
                                                        /\ PartOf(n) = FirstPart(r)},
                  !["undated"] = @ \cup {n \in Fetched(r, s \in Full) : plays[n].at = 0}]
    /\ UNCHANGED <<provider, day, plays, items, events, cleared, black, cursor, seen, deleted>>

\* PublicMetaDB's importer knows the plays this history pushed there.
KnownPlays == IF provider = "publicmetadb" THEN {items[w].ext : w \in Local} ELSE {}

\* Stremio's importer takes a title with a recent watch for that watch.
StremioKnows(e, r) ==
    provider = "stremio" /\ \E w \in Local : items[w].title = e.title /\ items[w].day >= r.now - Lookback

\* Mutant: a delayed snapshot may undo a clear.
AllowedAnyway(e) == e.title \notin black

\* _process_candidate; AniList's importer writes its watches itself, without these checks.
Allowed(e) == provider = "anilist" \/ (e.day > cleared[e.title] /\ e.title \notin black)

\* The entries checked together: Stremio's importer takes each item alone.
Batches(left) == IF provider = "stremio" THEN {{e} : e \in left} ELSE (SUBSET left) \ {{}}

\* What load_existing_entry_keys and the checks of each candidate leave of a batch.
Candidates(r, batch) ==
    {e \in batch : /\ e.key \notin events /\ e.play \notin KnownPlays
                   /\ ~StremioKnows(e, r) /\ Allowed(e)}

Read(s) ==
    /\ runs[s].step = "read"
    /\ \E batch \in Batches(runs[s].left) :
          /\ LET r == runs[s]
             IN  runs' = [runs EXCEPT ![s] = Onwards([r EXCEPT !.left = @ \ batch, !.entries = Candidates(r, batch)])]
          /\ cause' = IF provider # "simkl" THEN cause
                      ELSE Explain("refused", {e.play : e \in {x \in batch : ~Allowed(x)}})
    /\ UNCHANGED <<provider, day, plays, items, events, cleared, black, cursor, seen, deleted, total>>

\* The entries committed together: AniList's importer commits each alone.
Together(entries) == IF provider = "anilist" THEN {{e} : e \in entries} ELSE {entries}

\* Mutant: the keys read before are taken for granted at the commit.
FreshAsRead(some) == some

\* uq_watch_events_user_event_entry_key: a key that another run committed fails its savepoint.
Fresh(some) == {e \in some : e.key \notin events}

\* The watches of the entries, numbered on.
Imported(new) ==
    [w \in WatchId |->
        IF \E e \in new : w = total.items + Cardinality({f \in new : f.play <= e.play})
        THEN LET e == CHOOSE x \in new : w = total.items + Cardinality({f \in new : f.play <= x.play})
             IN  [title |-> e.title, day |-> e.day, origin |-> e.play, ext |-> e.play]
        ELSE items[w]]

\* process_import_candidates commits: each entry in a savepoint that may fail alone.
Write(s) ==
    /\ runs[s].step = "write"
    /\ \E some \in Together(runs[s].entries) : \E bad \in SUBSET Fresh(some) :
        LET new == Fresh(some) \ bad
            r == runs[s]
        IN  /\ bad = {} \/ Mishap
            /\ total.items + Cardinality(new) <= MaxWatches
            /\ items' = Imported(new)
            /\ events' = events \cup {e.key : e \in new}
            /\ cause' = Explain("failed", {e.play : e \in bad})
            /\ total' = [total EXCEPT !.items = @ + Cardinality(new),
                                          !.mishaps = IF bad = {} THEN @ ELSE @ + 1]
            /\ runs' = [runs EXCEPT ![s] = Onwards([r EXCEPT !.entries = @ \ some])]
    /\ UNCHANGED <<provider, day, plays, cleared, black, cursor, seen, deleted>>

\* Mutant: the run is up to date with what has changed until its end.
CursorAfterRun(r) == IF Activity > 0 THEN Activity ELSE cursor

\* _update_simkl_activity_config.
CursorAfter(r) == IF r.asOf > 0 THEN r.asOf ELSE cursor
SeenAfter(r) == [c \in Category |-> IF r.acts[c] > 0 THEN r.acts[c] ELSE seen[c]]

\* The run ends; Simkl's notes what it was told.
FinishImport(s) ==
    /\ runs[s].step = "finish"
    /\ cursor' = CursorAfter(runs[s]) /\ seen' = SeenAfter(runs[s])
    /\ cause' = Explain(runs[s].why, runs[s].passed)
    /\ runs' = [runs EXCEPT ![s] = NoImport]
    /\ UNCHANGED <<provider, day, plays, items, events, cleared, black, deleted, total>>

\* A request fails, or the worker dies.
Abort(s) ==
    /\ runs[s].step # "none" /\ Mishap
    /\ runs' = [runs EXCEPT ![s] = NoImport]
    /\ total' = [total EXCEPT !.mishaps = @ + 1]
    /\ UNCHANGED <<provider, day, plays, items, events, cleared, black, cursor, seen, cause, deleted>>

-----------------------------------------------------------------------------
(* Meanwhile. *)

DayPasses ==
    /\ day < MaxDay /\ day' = day + 1
    /\ UNCHANGED <<provider, plays, items, events, cleared, black, cursor, seen, runs, cause, deleted, total>>

NewPlay(t, at) ==
    /\ total.plays < MaxPlays
    /\ plays' = [n \in PlayId |->
           IF n = total.plays + 1 THEN [title |-> t, at |-> at, changed |-> day, there |-> TRUE]
           ELSE IF provider \in OneEntry /\ n \in There /\ plays[n].title = t THEN [plays[n] EXCEPT !.there = FALSE]
           ELSE plays[n]]

\* The user watches at the provider; the play may be dated back or, for some, have no date.
Play(t, at) ==
    /\ at \in {1, day} \/ (at = 0 /\ provider \in {"simkl", "publicmetadb"})
    /\ NewPlay(t, at)
    /\ total' = [total EXCEPT !.plays = @ + 1]
    /\ UNCHANGED <<provider, day, items, events, cleared, black, cursor, seen, runs, cause, deleted>>

\* The user adds a watch here, and the outbox pushes it.
AddAndPush(t) ==
    /\ NewPlay(t, day)
    /\ total.items < MaxWatches
    /\ LET n == total.plays + 1
       IN  /\ items' = [items EXCEPT ![total.items + 1] =
                              [title |-> t, day |-> day, origin |-> n, ext |-> n]]
           /\ cause' = Explain("pushed", {n})
    /\ total' = [total EXCEPT !.plays = @ + 1, !.items = @ + 1]
    /\ UNCHANGED <<provider, day, events, cleared, black, cursor, seen, runs, deleted>>

Origins(ws) == {items[w].origin : w \in ws}
ItemsWithout(ws) == [w \in WatchId |-> IF w \in ws THEN NoItem ELSE items[w]]

\* delete_watched_item leaves the import's event.
EventsAfterDelete(w) == events

DeleteItem(w) ==
    /\ Acts
    /\ w \in Local
    /\ items' = ItemsWithout({w})
    /\ events' = EventsAfterDelete(w)
    /\ deleted' = deleted \cup Origins({w})
    /\ UNCHANGED <<provider, day, plays, cleared, black, cursor, seen, runs, cause>>

\* clear_watched_items: the watches and the events of all imports.
ClearAll ==
    /\ Acts
    /\ Local # {}
    /\ items' = ItemsWithout(Local) /\ events' = {}
    /\ deleted' = deleted \cup Origins(Local)
    /\ cause' = Explain("forgotten", Played)
    /\ UNCHANGED <<provider, day, plays, cleared, black, cursor, seen, runs>>

\* clear_import_history: everything may be imported again.
Forget ==
    /\ Acts
    /\ events # {}
    /\ events' = {}
    /\ cause' = Explain("forgotten", Played)
    /\ UNCHANGED <<provider, day, plays, items, cleared, black, cursor, seen, runs, deleted>>

Checked == {s \in Sessions : runs[s].step = "write"}

\* The addon's "unplayed" event, late in the day; a run may have checked its entries before.
Unplayed(t) ==
    /\ Acts
    /\ day < MaxDay /\ day' = day + 1
    /\ cleared' = [cleared EXCEPT ![t] = day]
    /\ LET gone == {w \in Local : items[w].title = t /\ items[w].day <= day}
       IN  items' = ItemsWithout(gone) /\ deleted' = deleted \cup Origins(gone)
    /\ cause' = Explain("raced", {e.play : e \in UNION {runs[s].entries : s \in Checked}})
    /\ UNCHANGED <<provider, plays, events, black, cursor, seen, runs>>

Blacklist(t) ==
    /\ Acts
    /\ black' = IF t \in black THEN black \ {t} ELSE black \cup {t}
    /\ UNCHANGED <<provider, day, plays, items, events, cleared, cursor, seen, runs, cause, deleted>>

HistoryNext ==
    \/ \E s \in Sessions :
         \/ BeginImport(s) \/ Ask(s) \/ AskInVain(s) \/ Fetch(s) \/ Read(s) \/ Write(s) \/ FinishImport(s) \/ Abort(s)
    \/ \E t \in Titles : (\E at \in Days : Play(t, at)) \/ AddAndPush(t) \/ Unplayed(t) \/ Blacklist(t)
    \/ \E w \in WatchId : DeleteItem(w)
    \/ DayPasses \/ ClearAll \/ Forget

HistorySpec == HistoryInit /\ [][HistoryNext]_historyVars

-----------------------------------------------------------------------------
(* Trakt, Letterboxd, Simkl and AniList hand back what was pushed there. *)
Echoed == IF provider \in {"publicmetadb", "stremio"} THEN {} ELSE cause["pushed"]

\* Two runs that overlap, a run after another or after a crash never turn one play into two
\* watches, unless the importer does not know a pushed play for its own, the user had the
\* events forgotten, or the play has no date and its key is the day of the run.
ImportedOnce ==
    \A w, v \in Local :
        w # v /\ items[w].origin = items[v].origin =>
            items[w].origin \in Echoed \cup cause["forgotten"] \cup cause["undated"]

\* import_pipeline.py: "A delayed provider snapshot must not undo an explicit clear."  Only
\* a run that read before the clear and wrote after it does, and AniList's importer.
ClearIsKept ==
    \A w \in Local : items[w].day <= cleared[items[w].title] =>
        items[w].origin \in cause["raced"] \/ provider = "anilist"

\* The same without the exception of AniList's importer.
SnapshotKeepsClear ==
    \A w \in Local : items[w].day <= cleared[items[w].title] => items[w].origin \in cause["raced"]

\* Neither what was cleared nor what was deleted comes back: no step leaves a watch that the
\* user had cleared, and a watch that was imported and then deleted here is not imported again.
RemovedStaysRemoved ==
    [][/\ ClearIsKept'
       /\ \A w \in WatchId : items[w] = NoItem /\ items'[w] # NoItem =>
              items'[w].origin \notin deleted
                  \ (cause["pushed"] \cup cause["forgotten"] \cup cause["undated"])]_historyVars

\* Simkl is not asked again for what it reported before the cursor, or its category's: all of
\* that has been imported, whatever part of which run failed or died, but for
\* - what was older than the window of a quick import that found no plays imported yet
\*   ("window"): no later run goes back for it, not even a full one;
\* - what a run passed over that found plays imported but no cursor ("restart"), because an
\*   earlier run had committed a part and then failed, had not been told the activities or
\*   was not over: a full import then begins at the latest change, a quick one at its window;
\* - what changed at the very time that its category's cursor has ("tie");
\* - plays dated back before the time asked for, or undated; entries that failed; and what
\*   the user cleared, blacklisted or had forgotten.
CursorMissesNothing ==
    provider = "simkl" =>
        \A n \in There : Reached(n) =>
            \/ plays[n].at # 0 /\ EntryOf(n, plays[n].at).key \in events
            \/ n \in UNION {cause[c] : c \in Whys \cup {"undated", "backdated", "failed", "refused", "forgotten"}}

=============================================================================
