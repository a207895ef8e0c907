------------------------------ MODULE Listing ------------------------------
(***************************************************************************)
(* How a provider's list is fetched page by page and compared with what is *)
(* here: the listing methods of connectors/services/ and the callers that  *)
(* reconcile against them (jobs/trakt_import.py, letterboxd_import.py,     *)
(* simkl_import.py, anilist_import.py).  The user changes the list at the  *)
(* provider while the pages are fetched; a page is what the list holds at  *)
(* its position at that moment.  A list has parts that are fetched one     *)
(* after the other: the movies and shows of a Trakt watchlist, the         *)
(* statuses of AniList.                                                    *)
(*                                                                         *)
(* Watchlist.tla takes a fetch as one step and goes on from there.         *)
(***************************************************************************)
EXTENDS Integers, Sequences, FiniteSets, Functions

CONSTANTS
    Items,     \* titles
    Parts,     \* parts of the list, in the order they are fetched
    PerPage,
    MaxPages,  \* the page cap, 0 without one
    MaxChanges \* bound: changes at the provider and failed requests

ASSUME PartsAssumption == Parts \in Seq(STRING) /\ Parts # <<>>
ASSUME PagesAssumption == IsFiniteSet(Items) /\ PerPage \in Nat \ {0} /\ MaxPages \in Nat /\ MaxChanges \in Nat

VARIABLES
    asked,    \* who is asked
    list,     \* the parts of the list at the provider
    links,    \* what is here
    turn, page, \* what is fetched next; page 0 when nothing is
    read,     \* titles of the pages of this part so far
    got,      \* ... and of the parts before it
    complete, \* no part failed or was cut off by the cap
    steady,   \* history: titles on the list all through the fetch ...
    away,     \* ... and those not on it all through the fetch
    shifted,  \* history: an entry of the part being fetched was taken off a page already read,
              \* or a title moved between parts
    before,   \* history: links before the fetch
    changes

listVars == <<asked, list, links, turn, page, read, got, complete, steady, away, shifted, before, changes>>

Providers == {"trakt", "letterboxd", "anilist", "simkl", "simkl dropped"}
PartNames == Range(Parts)

\* A Letterboxd watchlist is one list.
LastPart == IF asked = "letterboxd" THEN 1 ELSE Len(Parts)
LiveParts == {Parts[k] : k \in 1 .. LastPart}
On(l) == UNION {Range(l[p]) : p \in PartNames}

ListingTypeOK ==
    /\ asked \in Providers
    /\ \A p \in PartNames : list[p] \in Seq(Items) /\ IsInjective(list[p])
    /\ links \subseteq Items /\ read \subseteq Items /\ got \subseteq Items /\ complete \in BOOLEAN
    /\ turn \in 1 .. Len(Parts) /\ page \in Nat
    /\ steady \subseteq Items /\ away \subseteq Items /\ steady \cap away = {}
    /\ page # 0 => steady \subseteq On(list) /\ away \cap On(list) = {}

InSomeOrder(S) == CHOOSE l \in [1 .. Cardinality(S) -> S] : IsInjective(l)

ListingInit ==
    /\ asked \in Providers
    /\ \E all \in {InSomeOrder(S) : S \in SUBSET Items} :
          list = [p \in PartNames |-> IF p = Parts[1] THEN all ELSE <<>>]
    /\ links \in {{}, Items}
    /\ turn = 1 /\ page = 0 /\ read = {} /\ got = {} /\ complete = TRUE
    /\ steady = {} /\ away = {} /\ shifted = FALSE /\ before = links /\ changes = 0

Change == changes < MaxChanges /\ changes' = changes + 1

-----------------------------------------------------------------------------
(* The user at the provider. *)

Moved(new, moved) ==
    /\ list' = new
    /\ steady' = steady \cap On(new) /\ away' = away \ On(new)
    /\ shifted' = (shifted \/ (page # 0 /\ moved))
    /\ UNCHANGED <<asked, links, turn, page, read, got, complete, before>>

\* New entries come first.
AddEntry(i, p) ==
    /\ i \notin On(list) /\ Change
    /\ Moved([list EXCEPT ![p] = <<i>> \o @], FALSE)

Without(l, n) == SubSeq(l, 1, n - 1) \o SubSeq(l, n + 1, Len(l))

RemoveEntry(n, p) ==
    /\ Change
    /\ Moved([list EXCEPT ![p] = Without(@, n)], p = Parts[turn] /\ n <= (page - 1) * PerPage)

\* A title goes from one part to another: an anime is completed.
MoveEntry(n, p, q) ==
    /\ p # q /\ Change
    /\ Moved([list EXCEPT ![p] = Without(@, n), ![q] = <<list[p][n]>> \o @], TRUE)

-----------------------------------------------------------------------------
(* The fetch. *)

BeginFetch ==
    /\ page = 0
    /\ turn' = 1 /\ page' = 1 /\ read' = {} /\ got' = {} /\ complete' = TRUE
    /\ steady' = On(list) /\ away' = Items \ On(list) /\ shifted' = FALSE /\ before' = links
    /\ UNCHANGED <<asked, list, links, changes>>

Page == LET l == list[Parts[turn]] IN SubSeq(l, (page - 1) * PerPage + 1, IF page * PerPage < Len(l) THEN page * PerPage ELSE Len(l))

\* /sync/all-items gives a category in one answer; the pass over what was dropped and that over the
\* watchlist share it.
AllItems == list[Parts[turn]]

Entries == IF asked \in {"simkl", "simkl dropped"} THEN AllItems ELSE Page

MoreEntries == page * PerPage < Len(list[Parts[turn]])

\* get_watchlist and its like stop at an empty or short page or at the last of the header's
\* page count, which need not be there.
TraktStops(counted) == Len(Entries) < PerPage \/ (counted /\ ~MoreEntries)

\* An empty page, or none to go on with.
LetterboxdStops == Entries = <<>> \/ ~MoreEntries

\* hasNextPage.
AniListStops == ~MoreEntries

SimklStops == TRUE

AtCap == page = MaxPages

\* Mutant: a listing that ends at the page cap counts as whole.
TruncatedNever == FALSE

\* PagedEntries.truncated, which AniList's listing does not have.
Truncated == AtCap /\ asked # "anilist"

\* Only a whole listing removes links; an AniList import only adds.
Reconciled(titles, whole) == IF whole /\ asked # "anilist" THEN titles ELSE links \cup titles

NextPart(titles, ok) ==
    /\ got' = got \cup titles /\ read' = {}
    /\ complete' = (complete /\ ok)
    /\ IF turn < LastPart THEN turn' = turn + 1 /\ page' = 1 /\ UNCHANGED links
       ELSE turn' = 1 /\ page' = 0 /\ links' = Reconciled(got', complete')

FetchPage(counted) ==
    LET stops == CASE asked = "trakt" -> TraktStops(counted)
                   [] asked = "letterboxd" -> LetterboxdStops
                   [] asked = "anilist" -> AniListStops
                   [] OTHER -> SimklStops
        titles == read \cup Range(Entries)
    IN  /\ page # 0
        /\ IF stops THEN NextPart(titles, TRUE)
           ELSE IF AtCap THEN NextPart(titles, ~Truncated)
           ELSE page' = page + 1 /\ read' = titles /\ UNCHANGED <<turn, got, complete, links>>
        /\ UNCHANGED <<asked, list, steady, away, shifted, before, changes>>

\* What a failed part makes of the listing.
FailedIsWhole == FALSE

\* No part of these is used when one is missing.
Aborts == asked \in {"letterboxd", "simkl dropped"}

\* A request fails: the entries of its part are lost and the listing is not whole, or the import
\* fails.
FetchFails ==
    /\ page # 0 /\ Change
    /\ IF Aborts
       THEN turn' = 1 /\ page' = 0 /\ read' = {} /\ complete' = FALSE /\ UNCHANGED <<got, links>>
       ELSE NextPart({}, FailedIsWhole)
    /\ UNCHANGED <<asked, list, steady, away, shifted, before>>

ListingNext ==
    \/ \E i \in Items, p \in LiveParts : AddEntry(i, p)
    \/ \E p, q \in LiveParts : \E n \in DOMAIN list[p] : RemoveEntry(n, p) \/ MoveEntry(n, p, q)
    \/ BeginFetch \/ (\E counted \in BOOLEAN : FetchPage(counted)) \/ FetchFails

ListingSpec == ListingInit /\ [][ListingNext]_listVars

-----------------------------------------------------------------------------
(* ListedStays: a title that is on the provider's list all through the     *)
(* fetch is not removed here (connectors/services/pagination.py, "callers  *)
(* must not treat the result as the complete list"), and, if the whole     *)
(* list was read, is added (AniList's listing does not tell that its page  *)
(* cap cut it off); unless an entry of an earlier page went and pulled it  *)
(* past the reader.                                                        *)
ListedStays ==
    (page = 0 /\ ~shifted) => \A i \in steady : (i \in before \/ (complete /\ asked # "anilist")) => i \in links

(* GoneIsDropped: a title that is not on the list all through a fetch that *)
(* read all of it is not here afterwards, and no title appears that was    *)
(* not on the list.                                                        *)
GoneIsDropped ==
    page = 0 => \A i \in away : i \in links => i \in before /\ (complete => asked = "anilist")

(* A fetch keeps what is listed and drops only what is not. *)
KeepsWhatIsListed == ListedStays /\ GoneIsDropped
=============================================================================
