--------------------------- MODULE MediaIdentity ---------------------------
(***************************************************************************)
(* Which row of the shared catalogue (media_items, episode_items) an entry *)
(* of a provider, a request or the addon is about: the find, create and    *)
(* fill functions of jobs/*_import.py, api/routes_history.py,              *)
(* api/routes_metadata.py, core/watchlist.py and                           *)
(* core/watch_state_identity.py.  A source names a title by some of its    *)
(* ids; they are looked up one query after the other, and a row is created *)
(* or given the ids it lacks, while other transactions do the same.  The   *)
(* ids sources give are right; numbers are shared by titles of different   *)
(* types.                                                                  *)
(*                                                                         *)
(* HistoryImport.tla takes the row of an entry as given.                   *)
(***************************************************************************)
EXTENDS Integers, Sequences, Functions

CONSTANTS
    Titles,
    TypeOf,   \* title -> "movie", "tv", "anime" or "episode"
    NumberOf, \* title -> its number at TMDB and the other sites
    Sources,
    GivenIds, \* the sets of kinds of ids by which a source names a title
    Writers,  \* transactions
    Rows,     \* bound: ids of rows
    MaxEntries \* bound: entries worked on

\* The ids some providers have of their own are kept in the raw dictionary of a row.
Own == {"trakt", "simkl", "letterboxd", "stremio"}
IdKinds == {"imdb", "tmdb", "tvdb", "anilist", "mal", "place"} \cup Own
AllSources == {"trakt", "simkl", "letterboxd", "stremio", "publicmetadb", "anilist",
               "addon", "manual", "watchlist", "metadata"}

ASSUME TitlesAssumption ==
    /\ TypeOf \in [Titles -> {"movie", "tv", "anime", "episode"}] /\ NumberOf \in [Titles -> Nat]
    /\ \A t, u \in Titles : TypeOf[t] = TypeOf[u] /\ NumberOf[t] = NumberOf[u] => t = u
ASSUME SourcesAssumption == Rows \subseteq Nat \ {0} /\ Sources \subseteq AllSources /\ GivenIds \subseteq (SUBSET IdKinds) \ {{}}

VARIABLES
    rows,      \* the committed rows
    txn,       \* per transaction: the entry it works on, and how far it is
    entries    \* how many so far

identityVars == <<rows, txn, entries>>

\* The imdb id is a title's own, and so is a place, which names the show; other numbers are
\* unique among the titles of a type.
IdOf(t, k) == IF k \in {"imdb", "place"} THEN <<k, t>> ELSE <<k, NumberOf[t]>>
NoId == <<>>

NoTxn == [source |-> "none"]
NoRow == [type |-> "none"]
NoIds == [k \in IdKinds |-> NoId]

RowIds == [IdKinds -> {NoId} \cup {IdOf(t, k) : t \in Titles, k \in IdKinds}]

IdentityTypeOK ==
    /\ \A r \in Rows : rows[r] # NoRow => rows[r].type \in Range(TypeOf) /\ rows[r].ids \in RowIds
    /\ \A w \in Writers : txn[w] # NoTxn =>
          /\ txn[w].source \in Sources /\ txn[w].title \in Titles /\ txn[w].given \in GivenIds
          /\ txn[w].row # 0 => rows[txn[w].row] # NoRow
          /\ txn[w].copy \in RowIds /\ txn[w].fill \subseteq IdKinds /\ txn[w].raced \in BOOLEAN

IdentityInit ==
    /\ rows = [r \in Rows |-> NoRow] /\ txn = [w \in Writers |-> NoTxn] /\ entries = 0

-----------------------------------------------------------------------------
(* What each source does.                                                  *)

\* The ids each looks up, in order.
TraktLooks == <<"imdb", "tmdb", "trakt">>
TraktEpisodeLooks == <<"imdb", "tmdb", "tvdb", "trakt", "place">>
SimklLooks == <<"imdb", "tmdb", "simkl">>
SimklEpisodeLooks == <<"imdb", "tmdb", "tvdb", "simkl", "place">>
LetterboxdLooks == <<"imdb", "tmdb", "letterboxd">>
StremioLooks == <<"imdb", "tmdb", "tvdb", "stremio">>
StremioEpisodeLooks == <<"place">>
PublicMetaDbLooks == <<"imdb", "tmdb", "tvdb">>
PublicMetaDbEpisodeLooks == <<"place">>
AniListLooks == <<"anilist", "mal">>
AniListEpisodeLooks == <<"place">>
AddonLooks == <<"imdb", "tmdb", "tvdb", "mal", "anilist", "stremio">>
ManualLooks == <<"imdb", "tmdb", "tvdb", "mal", "anilist">>
ManualEpisodeLooks == <<"imdb", "tmdb", "tvdb", "place">>
WatchlistLooks == <<"imdb", "tmdb", "tvdb", "mal", "anilist", "letterboxd">>
MetadataLooks == <<"tmdb", "tvdb", "mal", "imdb">>

LooksUp(s, type) ==
    IF type = "episode" THEN
        CASE s = "trakt" -> TraktEpisodeLooks [] s = "simkl" -> SimklEpisodeLooks
          [] s = "stremio" -> StremioEpisodeLooks [] s = "publicmetadb" -> PublicMetaDbEpisodeLooks
          [] s = "anilist" -> AniListEpisodeLooks [] s = "manual" -> ManualEpisodeLooks
          [] OTHER -> <<>>
    ELSE
        CASE s = "trakt" -> TraktLooks [] s = "simkl" -> SimklLooks [] s = "letterboxd" -> LetterboxdLooks
          [] s = "stremio" -> StremioLooks [] s = "publicmetadb" -> PublicMetaDbLooks
          [] s = "anilist" -> AniListLooks [] s = "addon" -> AddonLooks [] s = "manual" -> ManualLooks
          [] s = "watchlist" -> WatchlistLooks [] s = "metadata" -> MetadataLooks

\* These ask for all ids in one query ...
OneQuery(s) == s \in {"addon", "watchlist"}

\* ... and these answer 409 if the ids lead to different rows; the others keep the first.
RefusesTwo(s) == s \in {"addon", "manual"}

\* These set ids without a look at other rows.
Unchecked(s) == s \in {"anilist", "manual", "metadata"}

\* A metadata search replaces ids.
Replaces(s) == s = "metadata"

\* The ids a source has: those it looks up, and the TVDB ids of Trakt's and Simkl's shows.
Has(s, type) ==
    Range(LooksUp(s, type)) \cup (IF s \in {"trakt", "simkl"} /\ type = "tv" THEN {"tvdb"} ELSE {})
    \cup ({s} \cap Own)

\* What each sets on a row that exists: not the ids of its own, which are put into the raw
\* dictionary in place, where the session does not see it, and not the place.
TraktFills == {"imdb", "tmdb", "tvdb"}
SimklFills == {"imdb", "tmdb", "tvdb"}
LetterboxdFills == {"imdb", "tmdb"}
StremioFills == {"imdb", "tmdb", "tvdb"}
PublicMetaDbFills == {"tmdb", "imdb", "tvdb"}
AniListFills == {"anilist", "mal"}

Fills(s, type) ==
    CASE s = "trakt" -> TraktFills [] s = "simkl" -> SimklFills [] s = "letterboxd" -> LetterboxdFills
      [] s \in {"stremio", "publicmetadb", "anilist"} /\ type = "episode" -> {}
      [] s = "stremio" -> StremioFills [] s = "publicmetadb" -> PublicMetaDbFills [] s = "anilist" -> AniListFills
      [] OTHER -> {"imdb", "tmdb", "tvdb", "anilist", "mal"}

\* Mutant: the type is forgotten in a look-up by number.
NamedAnyType(r, t, k) == rows[r] # NoRow /\ rows[r].ids[k] = IdOf(t, k)

\* Look-ups by imdb id do not name the type.
Named(r, t, k) ==
    /\ rows[r] # NoRow /\ rows[r].ids[k] = IdOf(t, k)
    /\ k = "imdb" \/ rows[r].type = TypeOf[t]

\* The unique constraints; the ids in the raw dictionary have none.
Taken(r, type, k, v) ==
    /\ k \notin Own
    /\ \E q \in Rows \ {r} : rows[q] # NoRow /\ rows[q].ids[k] = v /\ (k = "imdb" \/ rows[q].type = type)

\* _can_assign_media_id, _can_assign_episode_id.
Assignable(r, t, k) == ~Taken(r, rows[r].type, k, IdOf(t, k))

-----------------------------------------------------------------------------

BeginEntry(w, s, t, given) ==
    /\ txn[w] = NoTxn /\ entries < MaxEntries /\ entries' = entries + 1
    /\ TypeOf[t] = "episode" <=> "place" \in given
    /\ s = "anilist" => TypeOf[t] \in {"anime", "episode"}
    /\ TypeOf[t] = "anime" => s \notin {"trakt", "simkl", "letterboxd", "stremio", "publicmetadb"}
    /\ given \subseteq Has(s, TypeOf[t])
    /\ txn' = [txn EXCEPT ![w] = [source |-> s, title |-> t, given |-> given, at |-> 1, row |-> 0,
                                  copy |-> NoIds, fill |-> {}, checked |-> FALSE, raced |-> FALSE]]
    /\ UNCHANGED rows

\* The look-ups it has yet to make: those of the ids it was given.
Looks(w) == LooksUp(txn[w].source, TypeOf[txn[w].title])
Ahead(w) == {i \in txn[w].at .. Len(Looks(w)) : Looks(w)[i] \in txn[w].given}
Done(w) == txn[w] # NoTxn /\ Ahead(w) = {}

\* One query.
Look(w) == txn[w] # NoTxn /\ \E i \in Ahead(w) :
    LET x == txn[w]
        asked == IF OneQuery(x.source) THEN x.given ELSE {Looks(w)[i]}
        next == IF OneQuery(x.source) THEN Len(Looks(w)) + 1 ELSE i + 1
        found == {r \in Rows : \E k \in asked : Named(r, x.title, k)}
        two == \E q, r \in found \cup ({x.row} \ {0}) : q # r
        refused == RefusesTwo(x.source) /\ two
    IN  /\ \A j \in Ahead(w) : i <= j
        /\ \/ refused /\ txn' = [txn EXCEPT ![w] = NoTxn]
           \/ (found = {} \/ x.row # 0) /\ ~refused /\ txn' = [txn EXCEPT ![w].at = next]
           \/ /\ x.row = 0 /\ ~refused
              /\ \E r \in found : txn' = [txn EXCEPT ![w].at = next, ![w].row = r, ![w].copy = rows[r].ids]
        /\ UNCHANGED <<rows, entries>>

\* The queries before ids are assigned.
Check(w) ==
    LET x == txn[w]
    IN  /\ Done(w) /\ x.row # 0 /\ ~x.checked
        /\ txn' = [txn EXCEPT ![w].checked = TRUE, ![w].fill =
              {k \in x.given \cap Fills(x.source, TypeOf[x.title]) :
                  /\ x.copy[k] = NoId \/ (Replaces(x.source) /\ x.copy[k] # IdOf(x.title, k))
                  /\ Unchecked(x.source) \/ Assignable(x.row, x.title, k)}]
        /\ UNCHANGED <<rows, entries>>

\* A transaction that wrote makes what the others have read old.
Ended(w, wrote) ==
    [v \in Writers |-> IF v = w \/ txn[v] = NoTxn THEN (IF v = w THEN NoTxn ELSE txn[v])
                       ELSE [txn[v] EXCEPT !.raced = @ \/ wrote]]

\* A unique constraint is broken, and nothing written.
Aborted(w) == txn' = Ended(w, FALSE) /\ UNCHANGED rows

\* The flush of a row that exists, and the commit.
Fill(w) ==
    LET x == txn[w]
        ids == [k \in IdKinds |-> IF k \in x.fill THEN IdOf(x.title, k) ELSE rows[x.row].ids[k]]
    IN  /\ Done(w) /\ x.checked /\ UNCHANGED entries
        /\ IF \E k \in x.fill : Taken(x.row, rows[x.row].type, k, IdOf(x.title, k)) THEN Aborted(w)
           ELSE /\ rows' = [rows EXCEPT ![x.row].ids = ids]
                /\ txn' = Ended(w, ids # rows[x.row].ids)

\* The flush of a new row, and the commit.
Create(w) ==
    LET x == txn[w]
        type == TypeOf[x.title]
    IN  /\ Done(w) /\ x.row = 0 /\ UNCHANGED entries
        /\ IF \E k \in x.given : Taken(0, type, k, IdOf(x.title, k)) THEN Aborted(w)
           ELSE \E r \in Rows :
                /\ rows[r] = NoRow /\ \A q \in Rows : q < r => rows[q] # NoRow
                /\ rows' = [rows EXCEPT ![r] = [type |-> type,
                       ids |-> [k \in IdKinds |-> IF k \in x.given THEN IdOf(x.title, k) ELSE NoId],
                       raced |-> x.raced]]
                /\ txn' = Ended(w, TRUE)

IdentityNext ==
    \E w \in Writers :
       \/ \E s \in Sources, t \in Titles, given \in GivenIds : BeginEntry(w, s, t, given)
       \/ Look(w) \/ Check(w) \/ Fill(w) \/ Create(w)

IdentitySpec == IdentityInit /\ [][IdentityNext]_identityVars

-----------------------------------------------------------------------------
(* RowsAreOneTitle: all ids of a row, whichever sources and transactions   *)
(* gave them to it, are of one title of its type: a movie and a show that  *)
(* share a TMDB number are never taken for each other.                     *)
RowsAreOneTitle ==
    \A r \in Rows : rows[r] # NoRow =>
        \E t \in Titles : TypeOf[t] = rows[r].type /\ \A k \in IdKinds : rows[r].ids[k] \in {NoId, IdOf(t, k)}

(* AbortNeedsRace: an entry breaks a unique constraint only if another     *)
(* transaction wrote between its look-ups and its flush.  Trakt and Simkl  *)
(* create shows with a TVDB id they did not look up; AniList and the       *)
(* metadata search assign ids without a look at the rows that have them.   *)
Unwritten(x) == x.row = 0 \/ \E k \in x.fill : rows[x.row].ids[k] # IdOf(x.title, k)
AbortNeedsRace ==
    [][\A w \in Writers :
         (Done(w) /\ txn'[w] = NoTxn /\ UNCHANGED rows /\ Unwritten(txn[w])) =>
            \/ txn[w].raced \/ txn[w].source \in {"anilist", "metadata"}
            \/ txn[w].source \in {"trakt", "simkl"} /\ "tvdb" \in txn[w].given]_identityVars

(* NoTwins: a provider's own id, which no constraint guards, is in two     *)
(* rows only if the later one was created while another transaction wrote. *)
NoTwins ==
    \A q, r \in Rows, k \in Own :
        (q < r /\ rows[q] # NoRow /\ rows[r] # NoRow /\ rows[q].type = rows[r].type
         /\ rows[q].ids[k] = rows[r].ids[k] /\ rows[q].ids[k] # NoId) => rows[r].raced

(* A row stands for one title, each title has one row of each own id, and  *)
(* only races abort an entry.                                              *)
RowsAreTitles == [](RowsAreOneTitle /\ NoTwins) /\ AbortNeedsRace
=============================================================================
