----------------------------- MODULE MCServices -----------------------------
(***************************************************************************)
(* What clients and providers send and ask, for TLC: the sum of the rate   *)
(* limiter, the receipts of watch-state pushes (of marks, and of drops and *)
(* lists), the tokens of an integration, the delivery of ratings, imports  *)
(* of a history and of a list.  They do not interact, so in a behaviour    *)
(* one of them moves and the others stay as they begin.                    *)
(***************************************************************************)
EXTENDS RateLimiter, TokenRefresh, RatingDelivery, Listing, WatchStatePush, HistoryImport, TLC

VARIABLE which   \* the system that moves

all == <<which, vars, pushVars, tokenVars, historyVars, listVars, ratingVars>>

\* Marks of an episode and of a video whose episode is found later, in any order and twice,
\* with a change by the user or an id that another row holds.  Bound: a third receipt only
\* where nothing odd happens.
Oddities == counted.edits + counted.clashes
FewMarks ==
    /\ \A n \in Received : receipts[n].kind \in Marks
    /\ time <= 2 /\ Oddities <= 1 /\ Oddities + Cardinality(Received) <= 3

\* Drops, favourites, resumed plays and ratings of a show, each applied at once.
FewLists ==
    /\ \A n \in Received : receipts[n].kind \notin Marks \cup {"pause", "unrated"} /\ receipts[n].videos \cap Absolute = {}
    /\ Oddities = 0

\* A quick and a full run of every importer over a play of one title; at Simkl's, which also
\* has cursors, either a fault or a change by the user.
OnePlay ==
    /\ total.plays <= 1 /\ (provider = "simkl" => total.acts + total.mishaps <= 1)
    /\ \A n \in PlayId : plays[n].title # "u"
    /\ "u" \notin black /\ cleared["u"] = 0

\* A quick and a full run of Simkl's, which keeps cursors, over two dated plays of Simkl's.
TwoPlays == provider = "simkl" /\ total.acts = 0 /\ cause["pushed"] = {} /\ \A n \in There : plays[n].at # 0

\* A movie and a show.
MovieAndShow == [t \in {"t", "u"} |-> IF t = "t" THEN 1 ELSE 2]

\* Trakt and PublicMetaDB rate titles of all scopes alike.
OneScope == target # "anilist" => scope = "movie"

\* A list of two parts, of an entry a page, that changes while it is read.
TwoParts == <<"movies", "shows">>

\* Those that do not move begin in one way.
MCInit ==
    /\ which \in {"limiter", "marks", "lists", "tokens", "history", "simkl", "listing", "ratings"}
    /\ Init /\ TokenInit
    /\ PushInit /\ (which # "lists" => item.status = "none")
    /\ HistoryInit /\ (which = "simkl" => provider = "simkl") /\ (which \notin {"simkl", "history"} => provider = "trakt")
    /\ ListingInit
    /\ RatingInit /\ OneScope /\ (which # "ratings" => target = "trakt")
    /\ which # "listing" => asked = "trakt" /\ links = {} /\ list = [p \in {"movies", "shows"} |-> <<>>]

Only(system) ==
    /\ which = system /\ UNCHANGED which
    /\ IF system = "limiter" THEN TRUE ELSE UNCHANGED vars
    /\ IF system \in {"marks", "lists"} THEN TRUE ELSE UNCHANGED pushVars
    /\ IF system = "tokens" THEN TRUE ELSE UNCHANGED tokenVars
    /\ IF system \in {"history", "simkl"} THEN TRUE ELSE UNCHANGED historyVars
    /\ IF system = "listing" THEN TRUE ELSE UNCHANGED listVars
    /\ IF system = "ratings" THEN TRUE ELSE UNCHANGED ratingVars

MCNext ==
    \/ Only("limiter") /\ Next
    \/ Only("marks") /\ PushNext /\ FewMarks'
    \/ Only("lists") /\ PushNext /\ FewLists'
    \/ Only("tokens") /\ TokenNext
    \/ Only("history") /\ HistoryNext /\ OnePlay'
    \/ Only("simkl") /\ HistoryNext /\ TwoPlays'
    \/ Only("listing") /\ ListingNext
    \/ Only("ratings") /\ RatingNext

MCSpec == MCInit /\ [][MCNext]_all

Symmetric == Permutations(Workers)
=============================================================================
