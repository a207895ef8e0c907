----------------------------- MODULE MCLibrary ------------------------------
(***************************************************************************)
(* What the library of a user holds, for TLC: the sum of the clients'      *)
(* pulls, deliveries of plays, the watched field of a series, import runs, *)
(* rows of media, the merges of duplicates and of titles, metadata lookups *)
(* and groups of candidates.  They do not interact, so in a behaviour one  *)
(* of them moves and the others stay as they begin.                        *)
(***************************************************************************)
EXTENDS WatchStatePull, ImportRuns, Delivery, MediaIdentity, MergeHistory, MediaMerge, MetadataLookup, TLC

CONSTANTS
    a1, a2, b1, b2  \* clients, watches, workers, ids, and whatever else there is two of

VARIABLES
    which,   \* the system that moves
    \* CandidateGroups
    candidates,
    \* SeriesField
    first, last, cached, watched, seriesSync, noted, seriesJobs, seriesAt, field, marked, skipped, lost, omitted,
    queued, seriesEvents

seriesVars == <<first, last, cached, watched, seriesSync, noted, seriesJobs, seriesAt, field, marked, skipped, lost,
    omitted, queued, seriesEvents>>

\* Two orders of two providers.
Orders == {<<"trakt", "simkl">>, <<"simkl", "trakt">>}

\* A film, a show and an episode, told by any of their ids.
TypesOfTitles == ("film" :> "movie") @@ ("show" :> "tv") @@ ("part" :> "episode")
SameNumber == [t \in {"film", "show", "part"} |-> 1]

\* Two watches of a film that two rows stand for.
OneName == ("m1" :> "a") @@ ("m2" :> "a")
OneIdEach == ("m1" :> {"imdb"}) @@ ("m2" :> {"tmdb"})

\* Of two requests.
KindsOfQueries == <<"title", "tmdb">>
AllCapable == [p \in {b1, b2} |-> {"imdb", "tmdb", "title"}]

\* Answers with at most one id of another kind or of another's; a title, its anime, and an
\* anime without a year.
AnswerIds == {a1, a2} \X {b1, b2}
Groups == INSTANCE CandidateGroups WITH
    Kinds <- {a1, a2}, Values <- {b1, b2}, Names <- {"n"}, MaxCandidates <- 3,
    Candidate <-
        {c \in [own : AnswerIds, others : SUBSET AnswerIds, name : {"n"}, year : BOOLEAN, anime : BOOLEAN] :
            Cardinality(c.others) <= 1 /\ c.own \notin c.others /\ (c.year \/ c.anime)}

\* A series with a special, whose list grows at either end.
Series == INSTANCE SeriesField WITH
    sync <- seriesSync, jobs <- seriesJobs, at <- seriesAt, events <- seriesEvents,
    Videos <- <<"s", "e1", "e2">>, Specials <- {"s"}, MaxJobs <- 2, MaxAttempts <- 2, MaxEvents <- 2

ASSUME Groups!CandidateAssumption /\ Series!VideosAssumption /\ Series!BoundAssumption

all == <<which, vars, deliveryVars, seriesVars, importVars, identityVars, mergeVars, lookupVars, updateVars, candidates>>

\* Two rows of a title, which have ids of both kinds or of one, and a request that submits one.
\* Two scenarios: what is watched, and what is listed (of films).
TitlesInit(scenario) ==
    /\ UpdateInit
    /\ ids \in [{a1, a2} -> UNION {{K \X {r} : K \in {{"imdb"}, {"imdb", "tmdb"}}} : r \in {a1, a2}}]
    /\ scenario # "plays" => ~series /\ \A r \in {a1, a2} : ids[r] = {"imdb", "tmdb"} \X {r}
TitlesNext(scenario) ==
    /\ UpdateNext
    /\ IF scenario = "plays" THEN UNCHANGED <<items, outbox>> ELSE UNCHANGED <<episodes, seen>>
    /\ \A r \in {a1, a2} : Exists(r)   \* bound: one merge
    /\ (update.step = "idle" /\ update'.step = "load") =>
          Cardinality(update'.submit) = 1 /\ (scenario = "list" => \A i \in update'.submit : i[1] = "imdb")

\* Those that do not move begin in one way.
MCInit ==
    /\ which \in {"pull", "deliveries", "series", "imports", "identity", "duplicates", "lookups", "groups", "plays", "list"}
    /\ InitAt("idle") \/ (which = "pull" /\ InitAt("lock"))   \* all pulls have missed the cache
    /\ db = [t \in Table |-> 0]
    /\ DeliveryInit /\ (which # "deliveries" => provider = "trakt")
    /\ Series!Init /\ (which # "series" => first = 1 /\ last = 3)
    /\ ImportInit /\ (which # "imports" => cfg.order = <<"trakt", "simkl">>)
    /\ IdentityInit /\ MergeInit /\ LookupInit /\ Groups!Init
    /\ TitlesInit(which)

Moves(system) ==
    /\ which = system /\ UNCHANGED which
    /\ IF system = "pull" THEN TRUE ELSE UNCHANGED vars
    /\ IF system = "deliveries" THEN TRUE ELSE UNCHANGED deliveryVars
    /\ IF system = "series" THEN TRUE ELSE UNCHANGED seriesVars
    /\ IF system = "imports" THEN TRUE ELSE UNCHANGED importVars
    /\ IF system = "identity" THEN TRUE ELSE UNCHANGED identityVars
    /\ IF system = "duplicates" THEN TRUE ELSE UNCHANGED mergeVars
    /\ IF system = "lookups" THEN TRUE ELSE UNCHANGED lookupVars
    /\ IF system = "groups" THEN TRUE ELSE UNCHANGED candidates
    /\ IF system \in {"plays", "list"} THEN TRUE ELSE UNCHANGED updateVars

\* Bound: commits, each of which changes what it writes.
FewWrites ==
    /\ version'["user"] + version'["date"] <= 1
    /\ version' # version =>
          \E T \in Transaction \cup {{"date"}} : \A t \in Table : t \in T <=> db'[t] # db[t]

MCNext ==
    \/ Moves("pull") /\ Next /\ FewWrites
    \/ Moves("deliveries") /\ DeliveryNext
    \/ Moves("series") /\ Series!Next
    \/ Moves("imports") /\ ImportNext
    \/ Moves("identity") /\ IdentityNext
    \/ Moves("duplicates") /\ MergeNext
    \/ Moves("lookups") /\ LookupNext
    \/ Moves("groups") /\ Groups!Next
    \/ \E scenario \in {"plays", "list"} : Moves(scenario) /\ TitlesNext(scenario)

MCSpec == MCInit /\ [][MCNext]_all

\* Sound: no module tells them apart.
Symmetric == Permutations({a1, a2}) \cup Permutations({b1, b2})

TypesOK ==
    /\ which = "pull" => TypeOK
    /\ which = "deliveries" => DeliveryTypeOK
    /\ which = "imports" => ImportTypeOK
    /\ which = "identity" => IdentityTypeOK
    /\ which = "duplicates" => MergeTypeOK
    /\ which = "lookups" => LookupTypeOK
    /\ which = "groups" => Groups!TypeOK
    /\ which \in {"plays", "list"} => UpdateTypeOK

\* CompletedIsOneAnswer and OneGroupPerTitle.
ChoicesAreWhole ==
    /\ which = "lookups" => CompletedIsOneAnswer
    /\ which = "groups" => Groups!OneGroupPerTitle

\* SucceededIsMarked, RemovedIsUnmarked and GrowthKeepsMarks.
MarksAreKept ==
    /\ [](which = "series" => Series!SucceededIsMarked /\ Series!RemovedIsUnmarked)
    /\ Series!GrowthKeepsMarks
=============================================================================
