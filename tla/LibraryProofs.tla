---------------------------- MODULE LibraryProofs ----------------------------
(***************************************************************************)
(* Proofs about MediaIdentity, for any titles, sources, sets of ids and    *)
(* number of transactions, about MergeHistory, for any watches, days and   *)
(* rows, about MediaMerge, for any rows, episodes, plays and sources, and  *)
(* about MetadataLookup, for any workers, providers and requests.  They do *)
(* not interact.                                                           *)
(*                                                                         *)
(* A row stays one title's because a transaction only fills or takes a row *)
(* that one of the title's ids named, and a second row does not come about *)
(* because what a transaction has looked up (Looked) and the constraints   *)
(* it has checked (Free) stay true until another one writes.               *)
(*                                                                         *)
(* A merge loses no play because the groups it has left are as they were   *)
(* when it loaded them, but for the watches edited since (AsLoaded), and   *)
(* the syncs of the group at hand as it read them, but for those of the    *)
(* watches whose syncs have changed since (SyncsAsRead).  Groups are       *)
(* apart, so that committing one leaves the others, and what is added      *)
(* meanwhile is in none: a sync is there only with its watch (Owned).      *)
(*                                                                         *)
(* A merge of titles keeps all because what the request has read can only  *)
(* be removed under it (ReadStays), so that an episode or an item that it  *)
(* moves is still where it was, and because its statements find each play  *)
(* that was there when they ran (PlaysRead).                               *)
(*                                                                         *)
(* A completed lookup is the answer of one attempt because a request that  *)
(* was not claimed twice is in one batch at most: what its attempt has     *)
(* stored is numbered on, after what was left of the one before was        *)
(* deleted (LookupOK).                                                     *)
(***************************************************************************)
EXTENDS MediaIdentity, MergeHistory, MediaMerge, MetadataLookup, FiniteSetTheorems, TLAPS

(* Rows and titles *)

\* Row r stands for title t.
About(r, t) ==
    /\ rows[r] # NoRow /\ rows[r].type = TypeOf[t]
    /\ \A k \in IdKinds : rows[r].ids[k] \in {NoId, IdOf(t, k)}

Row == [type : {"movie", "tv", "anime", "episode"}, ids : RowIds, raced : BOOLEAN]
Txn == [source : Sources, title : Titles, given : GivenIds, at : Nat \ {0}, row : Rows \cup {0},
        copy : RowIds, fill : SUBSET IdKinds, checked : BOOLEAN, raced : BOOLEAN]

\* Rows are taken in order; each has an id, and an episode's its place.
RowsOK ==
    /\ rows \in [Rows -> Row \cup {NoRow}]
    /\ \A q, r \in Rows : q < r /\ rows[r] # NoRow => rows[q] # NoRow
    /\ \A r \in Rows : rows[r] # NoRow => \E k \in IdKinds : rows[r].ids[k] # NoId
    /\ \A r \in Rows : rows[r] # NoRow /\ rows[r].type = "episode" => rows[r].ids["place"] # NoId

Entry(w) ==
    /\ TypeOf[txn[w].title] = "episode" <=> "place" \in txn[w].given
    /\ txn[w].given \subseteq Has(txn[w].source, TypeOf[txn[w].title])
    /\ txn[w].fill \subseteq txn[w].given \ Own
    /\ txn[w].checked => txn[w].row # 0
    /\ txn[w].row # 0 => About(txn[w].row, txn[w].title)

\* What a transaction has looked up stays so until another writes.
Looked(w) ==
    \A i \in 1 .. txn[w].at - 1 : i <= Len(Looks(w)) /\ Looks(w)[i] \in txn[w].given =>
        \A r \in Rows : Named(r, txn[w].title, Looks(w)[i]) =>
            txn[w].row # 0 /\ (RefusesTwo(txn[w].source) => r = txn[w].row)
Free(w) ==
    txn[w].checked /\ ~Unchecked(txn[w].source) =>
        \A k \in txn[w].fill : ~Taken(txn[w].row, rows[txn[w].row].type, k, IdOf(txn[w].title, k))
Informed(w) == ~txn[w].raced => Looked(w) /\ Free(w)

TxnOK ==
    /\ txn \in [Writers -> Txn \cup {NoTxn}]
    /\ \A w \in Writers : txn[w] # NoTxn => Entry(w) /\ Informed(w)

IdentityInv == RowsOK /\ RowsAreOneTitle /\ NoTwins /\ TxnOK

-----------------------------------------------------------------------------

LEMMA LooksAre ==
  ASSUME NEW s \in Sources, NEW type \in {"movie", "tv", "anime", "episode"}
  PROVE  /\ LooksUp(s, type) \in Seq(IdKinds)
         /\ type # "episode" => Own \cap Has(s, type) \subseteq Range(LooksUp(s, type))
<1>1. LooksUp(s, type) \in Seq(IdKinds)
  <2>1. /\ <<>> \in Seq(IdKinds) /\ TraktLooks \in Seq(IdKinds) /\ TraktEpisodeLooks \in Seq(IdKinds)
        /\ SimklLooks \in Seq(IdKinds) /\ SimklEpisodeLooks \in Seq(IdKinds)
        /\ LetterboxdLooks \in Seq(IdKinds)
    BY DEF TraktLooks, TraktEpisodeLooks, SimklLooks, SimklEpisodeLooks, LetterboxdLooks, IdKinds, Own
  <2>2. /\ StremioLooks \in Seq(IdKinds) /\ StremioEpisodeLooks \in Seq(IdKinds)
        /\ PublicMetaDbLooks \in Seq(IdKinds) /\ PublicMetaDbEpisodeLooks \in Seq(IdKinds)
        /\ AniListLooks \in Seq(IdKinds) /\ AniListEpisodeLooks \in Seq(IdKinds)
    BY DEF StremioLooks, StremioEpisodeLooks, PublicMetaDbLooks, PublicMetaDbEpisodeLooks, AniListLooks,
           AniListEpisodeLooks, IdKinds, Own
  <2>3. /\ AddonLooks \in Seq(IdKinds) /\ ManualLooks \in Seq(IdKinds) /\ ManualEpisodeLooks \in Seq(IdKinds)
        /\ WatchlistLooks \in Seq(IdKinds) /\ MetadataLooks \in Seq(IdKinds)
    BY DEF AddonLooks, ManualLooks, ManualEpisodeLooks, WatchlistLooks, MetadataLooks, IdKinds, Own
  <2>4. CASE type = "episode" BY <2>1, <2>2, <2>3, <2>4, Zenon DEF LooksUp
  <2>5. CASE type # "episode"
    <3>1. s \in AllSources BY SourcesAssumption
    <3> QED BY <2>1, <2>2, <2>3, <2>5, <3>1 DEF LooksUp, AllSources
  <2> QED BY <2>4, <2>5
<1>2. ASSUME type # "episode", NEW k \in Own \cap Has(s, type) PROVE k \in Range(LooksUp(s, type))
  <2>1. CASE k = s
    <3>1. CASE s = "trakt"
      <4>1. LooksUp(s, type) = <<"imdb", "tmdb", "trakt">> BY <1>2, <3>1 DEF LooksUp, TraktLooks
      <4> QED BY <2>1, <3>1, <4>1 DEF Range
    <3>2. CASE s = "simkl"
      <4>1. LooksUp(s, type) = <<"imdb", "tmdb", "simkl">> BY <1>2, <3>2 DEF LooksUp, SimklLooks
      <4> QED BY <2>1, <3>2, <4>1 DEF Range
    <3>3. CASE s = "letterboxd"
      <4>1. LooksUp(s, type) = <<"imdb", "tmdb", "letterboxd">> BY <1>2, <3>3 DEF LooksUp, LetterboxdLooks
      <4> QED BY <2>1, <3>3, <4>1 DEF Range
    <3>4. CASE s = "stremio"
      <4>1. LooksUp(s, type) = <<"imdb", "tmdb", "tvdb", "stremio">> BY <1>2, <3>4 DEF LooksUp, StremioLooks
      <4> QED BY <2>1, <3>4, <4>1 DEF Range
    <3> QED BY <1>2, <2>1, <3>1, <3>2, <3>3, <3>4 DEF Own
  <2> QED BY <1>2, <2>1 DEF Has, Own
<1> QED BY <1>1, <1>2

\* Whatever id a row is found by, it is of the title that was looked for.
LEMMA FoundIsIt ==
  ASSUME NEW r \in Rows, NEW t \in Titles, NEW u \in Titles, NEW k \in IdKinds, About(r, t), Named(r, u, k)
  PROVE  t = u
<1>1. IdOf(t, k) = IdOf(u, k) /\ (k = "imdb" \/ TypeOf[t] = TypeOf[u])
  BY DEF About, Named, IdOf, NoId
<1>2. CASE k \in {"imdb", "place"} BY <1>1, <1>2 DEF IdOf
<1>3. CASE k \notin {"imdb", "place"}
  <2>1. NumberOf[t] = NumberOf[u] BY <1>1, <1>3 DEF IdOf
  <2> QED BY <1>1, <1>3, <2>1, TitlesAssumption
<1> QED BY <1>2, <1>3

LEMMA NamedIsTaken ==
  ASSUME NEW r \in Rows \cup {0}, NEW q \in Rows, NEW t \in Titles, NEW k \in IdKinds
  PROVE  Taken(r, TypeOf[t], k, IdOf(t, k)) <=> k \notin Own /\ \E p \in Rows \ {r} : Named(p, t, k)
BY DEF Taken, Named

LEMMA DoneLooked ==
  ASSUME IdentityInv, NEW w \in Writers, Done(w), ~txn[w].raced,
         NEW k \in txn[w].given, k \in Range(Looks(w)), NEW r \in Rows, Named(r, txn[w].title, k)
  PROVE  txn[w].row # 0 /\ (RefusesTwo(txn[w].source) => r = txn[w].row)
<1>1. txn[w] \in Txn BY DEF IdentityInv, TxnOK, Done
<1>2. Looks(w) \in Seq(IdKinds) BY <1>1, LooksAre, TitlesAssumption DEF Looks, Txn
<1>3. PICK i \in 1 .. Len(Looks(w)) : Looks(w)[i] = k BY <1>2 DEF Range
<1>4. i \notin txn[w].at .. Len(Looks(w)) BY <1>3 DEF Done, Ahead
<1>5. i \in 1 .. txn[w].at - 1 BY <1>1, <1>2, <1>4 DEF Txn
<1>6. Looked(w) BY DEF IdentityInv, TxnOK, Informed, Done
<1> QED BY <1>3, <1>5, <1>6 DEF Looked

-----------------------------------------------------------------------------
(* Begin, look and check: one transaction moves, the rows stay.            *)

LEMMA OneMoves ==
  ASSUME IdentityInv, NEW w \in Writers, NEW x \in Txn \cup {NoTxn},
         UNCHANGED rows, txn' = [txn EXCEPT ![w] = x],
         x # NoTxn => Entry(w)' /\ Informed(w)'
  PROVE  IdentityInv'
<1>1. RowsOK' /\ RowsAreOneTitle' /\ NoTwins'
  BY DEF IdentityInv, RowsOK, RowsAreOneTitle, NoTwins
<1>2. txn \in [Writers -> Txn \cup {NoTxn}] BY DEF IdentityInv, TxnOK
<1>3. txn' \in [Writers -> Txn \cup {NoTxn}] /\ txn'[w] = x BY <1>2
<1>4. ASSUME NEW v \in Writers, txn'[v] # NoTxn PROVE Entry(v)' /\ Informed(v)'
  <2>1. CASE v = w BY <1>3, <1>4, <2>1
  <2>2. CASE v # w
    <3>1. txn'[v] = txn[v] BY <1>2, <2>2
    <3>2. Entry(v) /\ Informed(v) BY <1>4, <3>1 DEF IdentityInv, TxnOK
    <3>3. Entry(v)' BY <3>1, <3>2 DEF Entry, About
    <3>4. Informed(v)' BY <3>1, <3>2 DEF Informed, Looked, Looks, Named, Free, Taken
    <3> QED BY <3>3, <3>4
  <2> QED BY <2>1, <2>2
<1> QED BY <1>1, <1>3, <1>4 DEF IdentityInv, TxnOK

LEMMA BeginHolds ==
  ASSUME IdentityInv, NEW w \in Writers, NEW s \in Sources, NEW t \in Titles, NEW given \in GivenIds,
         BeginEntry(w, s, t, given)
  PROVE  IdentityInv'
<1> DEFINE x == [source |-> s, title |-> t, given |-> given, at |-> 1, row |-> 0,
                 copy |-> NoIds, fill |-> {}, checked |-> FALSE, raced |-> FALSE]
<1>1. txn' = [txn EXCEPT ![w] = x] /\ UNCHANGED rows BY DEF BeginEntry
<1>2. NoIds \in RowIds BY DEF NoIds, RowIds
<1>3. x \in Txn BY <1>2 DEF Txn
<1>4. txn'[w] = x BY <1>1 DEF IdentityInv, TxnOK
<1>5. Entry(w)' BY <1>4 DEF BeginEntry, Entry
<1>6. Informed(w)' BY <1>4 DEF Informed, Looked, Free
<1> HIDE DEF x
<1> QED BY <1>1, <1>3, <1>5, <1>6, OneMoves

LEMMA LookHolds ==
  ASSUME IdentityInv, NEW w \in Writers, Look(w)
  PROVE  IdentityInv'
<1> DEFINE x == txn[w]
           asked(i) == IF OneQuery(x.source) THEN x.given ELSE {Looks(w)[i]}
           next(i) == IF OneQuery(x.source) THEN Len(Looks(w)) + 1 ELSE i + 1
           found(i) == {r \in Rows : \E k \in asked(i) : Named(r, x.title, k)}
           two(i) == \E q, r \in found(i) \cup ({x.row} \ {0}) : q # r
<1>1. x # NoTxn /\ x \in Txn /\ Entry(w) /\ Informed(w)
  BY DEF IdentityInv, TxnOK, Look
<1>2. PICK i \in Ahead(w) :
        /\ \A j \in Ahead(w) : i <= j
        /\ \/ RefusesTwo(x.source) /\ two(i) /\ txn' = [txn EXCEPT ![w] = NoTxn]
           \/ /\ found(i) = {} \/ x.row # 0
              /\ ~(RefusesTwo(x.source) /\ two(i)) /\ txn' = [txn EXCEPT ![w].at = next(i)]
           \/ /\ x.row = 0 /\ ~(RefusesTwo(x.source) /\ two(i))
              /\ \E r \in found(i) : txn' = [txn EXCEPT ![w].at = next(i), ![w].row = r, ![w].copy = rows[r].ids]
        /\ UNCHANGED rows
  BY Zenon DEF Look
<1>3. Looks(w) \in Seq(IdKinds) /\ Len(Looks(w)) \in Nat
  <2>1. x.source \in Sources /\ TypeOf[x.title] \in {"movie", "tv", "anime", "episode"}
    BY <1>1, TitlesAssumption DEF Txn
  <2>2. Looks(w) \in Seq(IdKinds) BY <2>1, LooksAre DEF Looks
  <2> QED BY <2>2
<1>11. (\A j \in Ahead(w) : i <= j) /\ UNCHANGED rows BY <1>2
<1>4. i \in Nat \ {0} /\ x.at <= i /\ i <= Len(Looks(w)) /\ Looks(w)[i] \in x.given
  BY <1>1, <1>3 DEF Ahead, Txn
<1>5. next(i) \in Nat \ {0} BY <1>3, <1>4
\* The ids looked up so far were those before, and those asked for now.
<1>6. ASSUME NEW j \in 1 .. next(i) - 1, j <= Len(Looks(w)), Looks(w)[j] \in x.given
      PROVE  j \in 1 .. x.at - 1 \/ Looks(w)[j] \in asked(i)
  <2>1. CASE OneQuery(x.source) BY <1>6, <2>1
  <2>2. CASE ~OneQuery(x.source)
    <3>1. j \in 1 .. i BY <1>4, <1>6, <2>2
    <3>2. CASE j \in Ahead(w)
      <4>1. j = i BY <1>4, <1>11, <3>1, <3>2
      <4> QED BY <2>2, <4>1
    <3>3. CASE j \notin Ahead(w) BY <1>1, <1>3, <1>6, <3>1, <3>3 DEF Ahead, Txn
    <3> QED BY <3>2, <3>3
  <2> QED BY <2>1, <2>2
<1> HIDE DEF asked, next, found, two
<1>7. ASSUME NEW y \in Txn, txn' = [txn EXCEPT ![w] = y], y.source = x.source, y.title = x.title,
             y.given = x.given, y.fill = x.fill, y.at = next(i), y.raced = x.raced, y.checked = x.checked,
             y.row # 0 => About(y.row, x.title), x.row # 0 => y.row = x.row,
             \A k \in asked(i), r \in Rows : Named(r, x.title, k) =>
                 y.row # 0 /\ (RefusesTwo(x.source) => r = y.row)
      PROVE  IdentityInv'
  <2>1. txn'[w] = y BY <1>7 DEF IdentityInv, TxnOK
  <2>2. y # NoTxn /\ UNCHANGED rows BY <1>7, <1>11, SourcesAssumption DEF Txn, NoTxn, AllSources
  <2>3. Entry(w)' BY <1>1, <1>7, <2>1, <2>2 DEF Entry, About
  <2>4. Looks(w)' = Looks(w) BY <1>7, <2>1 DEF Looks
  <2>5. ASSUME ~y.raced PROVE Looked(w)'
    <3>1. Looked(w) BY <1>1, <1>7, <2>5 DEF Informed
    <3>2. SUFFICES ASSUME NEW j \in 1 .. next(i) - 1, j <= Len(Looks(w)), Looks(w)[j] \in x.given,
                          NEW r \in Rows, Named(r, x.title, Looks(w)[j])
                   PROVE  y.row # 0 /\ (RefusesTwo(x.source) => r = y.row)
      BY <1>7, <2>1, <2>2, <2>4 DEF Looked, Named
    <3>3. CASE j \in 1 .. x.at - 1 BY <1>7, <3>1, <3>2, <3>3 DEF Looked
    <3>4. CASE Looks(w)[j] \in asked(i) BY <1>7, <3>2, <3>4
    <3> QED BY <1>6, <3>2, <3>3, <3>4
  <2>6. ASSUME ~y.raced PROVE Free(w)'
    <3>1. Free(w) BY <1>1, <1>7, <2>6 DEF Informed
    <3>2. x.checked => x.row = y.row BY <1>1, <1>7 DEF Entry
    <3> QED BY <1>7, <2>1, <2>2, <3>1, <3>2 DEF Free, Taken
  <2>7. Informed(w)' BY <2>1, <2>5, <2>6 DEF Informed
  <2> QED BY <1>7, <2>2, <2>3, <2>7, OneMoves
<1>8. CASE txn' = [txn EXCEPT ![w] = NoTxn]
  BY <1>2, <1>8, OneMoves
<1>9. CASE /\ found(i) = {} \/ x.row # 0
           /\ ~(RefusesTwo(x.source) /\ two(i)) /\ txn' = [txn EXCEPT ![w].at = next(i)]
  <2> DEFINE y == [x EXCEPT !.at = next(i)]
  <2>1. y \in Txn /\ y.source = x.source /\ y.title = x.title /\ y.given = x.given /\ y.fill = x.fill
        /\ y.at = next(i) /\ y.raced = x.raced /\ y.checked = x.checked /\ y.row = x.row
    BY <1>1, <1>5 DEF Txn
  <2>2. txn' = [txn EXCEPT ![w] = y] BY <1>9
  <2>3. ASSUME NEW k \in asked(i), NEW r \in Rows, Named(r, x.title, k)
        PROVE  x.row # 0 /\ (RefusesTwo(x.source) => r = x.row)
    <3>1. r \in found(i) BY <2>3 DEF found
    <3> QED BY <1>9, <3>1 DEF two
  <2> HIDE DEF y
  <2> QED BY <1>1, <1>7, <2>1, <2>2, <2>3 DEF Entry
<1>10. CASE /\ x.row = 0 /\ ~(RefusesTwo(x.source) /\ two(i))
            /\ \E r \in found(i) : txn' = [txn EXCEPT ![w].at = next(i), ![w].row = r, ![w].copy = rows[r].ids]
  <2>1. PICK r \in found(i) : txn' = [txn EXCEPT ![w].at = next(i), ![w].row = r, ![w].copy = rows[r].ids]
    BY <1>10
  <2>2. PICK k \in asked(i) : r \in Rows /\ Named(r, x.title, k) BY DEF found
  <2>3. k \in IdKinds BY <1>1, <1>3, <1>4, <2>2, SourcesAssumption DEF asked, Txn
  <2>4. About(r, x.title)
    <3>1. PICK t \in Titles : About(r, t) BY <2>2 DEF IdentityInv, RowsAreOneTitle, About, Named
    <3>2. t = x.title BY <1>1, <2>2, <2>3, <3>1, FoundIsIt DEF Txn
    <3> QED BY <3>1, <3>2
  <2> DEFINE y == [x EXCEPT !.at = next(i), !.row = r, !.copy = rows[r].ids]
  <2>5. rows[r] \in Row BY <2>2 DEF IdentityInv, RowsOK, Named
  <2>6. y \in Txn /\ y.source = x.source /\ y.title = x.title /\ y.given = x.given /\ y.fill = x.fill
        /\ y.at = next(i) /\ y.raced = x.raced /\ y.checked = x.checked /\ y.row = r
    BY <1>1, <1>5, <2>2, <2>5 DEF Txn, Row
  <2>7. txn' = [txn EXCEPT ![w] = y] BY <2>1
  <2>8. ASSUME NEW l \in asked(i), NEW q \in Rows, Named(q, x.title, l)
        PROVE  r # 0 /\ (RefusesTwo(x.source) => q = r)
    <3>1. q \in found(i) BY <2>8 DEF found
    <3>2. r # 0 BY <2>2, SourcesAssumption
    <3> QED BY <1>10, <3>1, <3>2 DEF two
  <2> HIDE DEF y
  <2> QED BY <1>7, <1>10, <2>4, <2>6, <2>7, <2>8
<1> QED BY <1>2, <1>8, <1>9, <1>10

LEMMA CheckHolds ==
  ASSUME IdentityInv, NEW w \in Writers, Check(w)
  PROVE  IdentityInv'
<1> DEFINE x == txn[w]
           fill == {k \in x.given \cap Fills(x.source, TypeOf[x.title]) :
                      /\ x.copy[k] = NoId \/ (Replaces(x.source) /\ x.copy[k] # IdOf(x.title, k))
                      /\ Unchecked(x.source) \/ Assignable(x.row, x.title, k)}
           y == [x EXCEPT !.checked = TRUE, !.fill = fill]
<1>1. x # NoTxn /\ x \in Txn /\ Entry(w) /\ Informed(w)
  BY DEF IdentityInv, TxnOK, Check, Done
<1>2. x.row # 0 /\ UNCHANGED rows /\ txn' = [txn EXCEPT ![w] = y]
  BY DEF Check
<1>3. fill \subseteq x.given \ Own /\ fill \subseteq IdKinds
  <2>1. Fills(x.source, TypeOf[x.title]) \cap Own = {}
    BY DEF Fills, TraktFills, SimklFills, LetterboxdFills, StremioFills, PublicMetaDbFills, AniListFills, Own
  <2> QED BY <1>1, <2>1, SourcesAssumption DEF Txn
<1>4. ~Unchecked(x.source) => \A k \in fill : ~Taken(x.row, rows[x.row].type, k, IdOf(x.title, k))
  BY DEF Assignable
<1> HIDE DEF fill
<1>5. y \in Txn /\ y.source = x.source /\ y.title = x.title /\ y.given = x.given /\ y.fill = fill
      /\ y.at = x.at /\ y.raced = x.raced /\ y.checked /\ y.row = x.row
  BY <1>1, <1>3 DEF Txn
<1> HIDE DEF y
<1>6. txn'[w] = y BY <1>2 DEF IdentityInv, TxnOK
<1>7. Entry(w)' BY <1>1, <1>2, <1>3, <1>5, <1>6 DEF Entry, About
<1>8. ~y.raced => Looked(w)'
  BY <1>1, <1>2, <1>5, <1>6 DEF Informed, Looked, Looks, Named
<1>9. Free(w)' BY <1>2, <1>4, <1>5, <1>6 DEF Free, Taken
<1>10. Informed(w)' BY <1>6, <1>8, <1>9 DEF Informed
<1> QED BY <1>2, <1>5, <1>7, <1>10, OneMoves

-----------------------------------------------------------------------------
(* Fill and create: a transaction ends, and if it wrote, what the others   *)
(* have read is old.                                                       *)

LEMMA TxnEnds ==
  ASSUME IdentityInv, NEW w \in Writers, NEW wrote \in BOOLEAN, txn' = Ended(w, wrote),
         ~wrote => UNCHANGED rows,
         \A r \in Rows, t \in Titles : About(r, t) => About(r, t)'
  PROVE  TxnOK'
<1>1. txn \in [Writers -> Txn \cup {NoTxn}] BY DEF IdentityInv, TxnOK
<1>2. txn'[w] = NoTxn BY DEF Ended
<1>3. ASSUME NEW v \in Writers, v # w, txn[v] = NoTxn PROVE txn'[v] = NoTxn
  BY <1>3 DEF Ended
<1>4. ASSUME NEW v \in Writers, v # w, txn[v] # NoTxn
      PROVE  /\ txn'[v] \in Txn /\ Entry(v)' /\ Informed(v)'
  <2> DEFINE x == txn[v]
  <2>1. x \in Txn /\ Entry(v) /\ Informed(v) BY <1>1, <1>4 DEF IdentityInv, TxnOK
  <2>2. txn'[v] = [x EXCEPT !.raced = x.raced \/ wrote] BY <1>4 DEF Ended
  <2>3. txn'[v] \in Txn /\ txn'[v].source = x.source /\ txn'[v].title = x.title /\ txn'[v].given = x.given
        /\ txn'[v].fill = x.fill /\ txn'[v].at = x.at /\ txn'[v].checked = x.checked /\ txn'[v].row = x.row
    BY <2>1, <2>2 DEF Txn
  <2>4. ~txn'[v].raced => ~x.raced /\ ~wrote
    BY <2>1, <2>2 DEF Txn
  <2>5. Entry(v)' BY <2>1, <2>3 DEF Entry, Txn
  <2>6. Informed(v)'
    <3>1. SUFFICES ASSUME ~txn'[v].raced PROVE Looked(v)' /\ Free(v)' BY DEF Informed
    <3>2. UNCHANGED rows /\ Looked(v) /\ Free(v) BY <2>1, <2>4, <3>1 DEF Informed
    <3>3. Looked(v)' BY <2>3, <3>2 DEF Looked, Looks, Named
    <3>4. Free(v)' BY <2>3, <3>2 DEF Free, Taken
    <3> QED BY <3>3, <3>4
  <2> QED BY <2>3, <2>5, <2>6
<1>5. txn' = [v \in Writers |-> txn'[v]] BY DEF Ended
<1>6. txn' \in [Writers -> Txn \cup {NoTxn}] BY <1>2, <1>3, <1>4, <1>5
<1> QED BY <1>2, <1>3, <1>4, <1>6 DEF TxnOK

LEMMA AbortedHolds ==
  ASSUME IdentityInv, NEW w \in Writers, Aborted(w)
  PROVE  IdentityInv'
<1>1. RowsOK' /\ RowsAreOneTitle' /\ NoTwins'
  BY DEF IdentityInv, RowsOK, RowsAreOneTitle, NoTwins, Aborted
<1>2. \A r \in Rows, t \in Titles : About(r, t) => About(r, t)' BY DEF About, Aborted
<1>3. TxnOK' BY <1>2, TxnEnds DEF Aborted
<1> QED BY <1>1, <1>3 DEF IdentityInv

LEMMA FillHolds ==
  ASSUME IdentityInv, NEW w \in Writers, Fill(w)
  PROVE  IdentityInv'
<1>0. PICK x : x = txn[w] OBVIOUS
<1> DEFINE r == x.row
           newIds == [k \in IdKinds |-> IF k \in x.fill THEN IdOf(x.title, k) ELSE rows[r].ids[k]]
<1>1. /\ x # NoTxn /\ x \in Txn /\ x.checked /\ x.row # 0 /\ About(x.row, x.title)
      /\ x.fill \subseteq x.given \ Own
  BY <1>0 DEF IdentityInv, TxnOK, Fill, Done, Entry
<1>2. r \in Rows /\ About(r, x.title) /\ rows[r] \in Row /\ rows[r] # NoRow
  BY <1>1 DEF Txn, About, IdentityInv, RowsOK
<1>3. Aborted(w) \/ (rows' = [rows EXCEPT ![r].ids = newIds] /\ txn' = Ended(w, newIds # rows[r].ids))
  BY <1>0 DEF Fill
<1>4. CASE Aborted(w) BY <1>4, AbortedHolds
<1>5. CASE rows' = [rows EXCEPT ![r].ids = newIds] /\ txn' = Ended(w, newIds # rows[r].ids)
  <2>1. \A k \in IdKinds : newIds[k] = IF k \in x.fill THEN IdOf(x.title, k) ELSE rows[r].ids[k]
    OBVIOUS
  <2>2. newIds \in RowIds BY <1>1, <1>2 DEF Txn, Row, RowIds
  <2>3. \A k \in Own : newIds[k] = rows[r].ids[k] BY <1>1, <2>1 DEF IdKinds
  <2>4. \A k \in IdKinds : newIds[k] \in {NoId, IdOf(x.title, k)} BY <1>2, <2>1 DEF About
  <2>5. \A k \in IdKinds : rows[r].ids[k] # NoId => newIds[k] # NoId
    BY <1>2, <2>1 DEF About, IdOf, NoId
  <2> HIDE DEF newIds
  <2>6. rows \in [Rows -> Row \cup {NoRow}] BY DEF IdentityInv, RowsOK
  <2>7. /\ rows' \in [Rows -> Row \cup {NoRow}] /\ \A q \in Rows : q # r => rows'[q] = rows[q]
        /\ rows'[r] # NoRow /\ rows'[r] \in Row
        /\ rows'[r].ids = newIds /\ rows'[r].type = rows[r].type /\ rows'[r].raced = rows[r].raced
    <3>1. [rows[r] EXCEPT !.ids = newIds] \in Row BY <1>2, <2>2 DEF Row
    <3>2. rows'[r] = [rows[r] EXCEPT !.ids = newIds] BY <1>2, <1>5, <2>6
    <3>3. rows'[r] # NoRow BY <3>1, <3>2 DEF Row, NoRow
    <3> QED BY <1>2, <1>5, <2>6, <3>1, <3>2, <3>3 DEF Row
  <2>8. RowsOK'
    <3>1. \A q \in Rows : rows'[q] # NoRow <=> rows[q] # NoRow BY <1>2, <2>7
    <3>2. \A q \in Rows : rows'[q] # NoRow => \E k \in IdKinds : rows'[q].ids[k] # NoId
      BY <1>2, <2>5, <2>7, <3>1 DEF IdentityInv, RowsOK
    <3>3. \A q \in Rows : rows'[q] # NoRow /\ rows'[q].type = "episode" => rows'[q].ids["place"] # NoId
      <4>1. "place" \in IdKinds BY DEF IdKinds
      <4> QED BY <1>2, <2>5, <2>7, <3>1, <4>1 DEF IdentityInv, RowsOK
    <3> QED BY <2>7, <3>1, <3>2, <3>3 DEF IdentityInv, RowsOK
  <2>9. About(r, x.title)' BY <1>2, <2>4, <2>7 DEF About
  <2>10. ASSUME NEW q \in Rows, NEW t \in Titles, About(q, t) PROVE About(q, t)'
    <3>1. CASE q = r
      <4>1. PICK k \in IdKinds : rows[r].ids[k] # NoId BY <1>2 DEF IdentityInv, RowsOK
      <4>2. rows[r].ids[k] = IdOf(x.title, k) BY <1>2, <4>1 DEF About
      <4>3. Named(r, x.title, k) BY <1>2, <4>2 DEF Named, About
      <4>4. t = x.title BY <1>1, <1>2, <2>10, <3>1, <4>3, FoundIsIt DEF Txn
      <4> QED BY <2>9, <3>1, <4>4
    <3>2. CASE q # r BY <2>7, <2>10, <3>2 DEF About
    <3> QED BY <3>1, <3>2
  <2>11. RowsAreOneTitle'
    <3>1. \A q \in Rows : rows[q] # NoRow => \E t \in Titles : About(q, t)
      BY DEF IdentityInv, RowsAreOneTitle, About
    <3>2. \A q \in Rows : rows'[q] # NoRow => \E t \in Titles : About(q, t)'
      BY <1>2, <2>7, <2>10, <3>1
    <3> QED BY <3>2 DEF RowsAreOneTitle, About
  <2>12. \A q \in Rows : rows[q] # NoRow =>
            /\ rows'[q].type = rows[q].type /\ rows'[q].raced = rows[q].raced
            /\ \A k \in Own : rows'[q].ids[k] = rows[q].ids[k]
    BY <2>3, <2>7
  <2>13. NoTwins' BY <1>2, <2>7, <2>12 DEF IdentityInv, NoTwins
  <2>14. newIds = rows[r].ids => UNCHANGED rows
    <3>1. SUFFICES ASSUME newIds = rows[r].ids PROVE [rows[r] EXCEPT !.ids = newIds] = rows[r] BY <1>5, <2>6
    <3> QED BY <1>2, <3>1 DEF Row
  <2>15. TxnOK'
    <3>1. (newIds # rows[r].ids) \in BOOLEAN OBVIOUS
    <3> QED BY <1>5, <2>10, <2>14, <3>1, TxnEnds
  <2> QED BY <2>8, <2>11, <2>13, <2>15 DEF IdentityInv
<1> QED BY <1>3, <1>4, <1>5

LEMMA CreateHolds ==
  ASSUME IdentityInv, NEW w \in Writers, Create(w)
  PROVE  IdentityInv'
<1>0. PICK x : x = txn[w] OBVIOUS
<1> DEFINE type == TypeOf[x.title]
           newIds == [k \in IdKinds |-> IF k \in x.given THEN IdOf(x.title, k) ELSE NoId]
<1>1. /\ x # NoTxn /\ x \in Txn /\ x.row = 0 /\ Done(w)
      /\ "place" \in x.given <=> type = "episode"
      /\ x.given \subseteq Has(x.source, type)
  BY <1>0 DEF IdentityInv, TxnOK, Create, Done, Entry
<1>2. \/ Aborted(w)
      \/ /\ \A k \in x.given : ~Taken(0, type, k, IdOf(x.title, k))
         /\ \E r \in Rows :
               /\ rows[r] = NoRow /\ \A q \in Rows : q < r => rows[q] # NoRow
               /\ rows' = [rows EXCEPT ![r] = [type |-> type, ids |-> newIds, raced |-> x.raced]]
               /\ txn' = Ended(w, TRUE)
  BY <1>0 DEF Create
<1>3. CASE Aborted(w) BY <1>3, AbortedHolds
<1>4. CASE /\ \A k \in x.given : ~Taken(0, type, k, IdOf(x.title, k))
           /\ \E r \in Rows :
               /\ rows[r] = NoRow /\ \A q \in Rows : q < r => rows[q] # NoRow
               /\ rows' = [rows EXCEPT ![r] = [type |-> type, ids |-> newIds, raced |-> x.raced]]
               /\ txn' = Ended(w, TRUE)
  <2>1. PICK r \in Rows : /\ rows[r] = NoRow /\ \A q \in Rows : q < r => rows[q] # NoRow
                          /\ rows' = [rows EXCEPT ![r] = [type |-> type, ids |-> newIds, raced |-> x.raced]]
                          /\ txn' = Ended(w, TRUE)
    BY <1>4
  <2>2. \A k \in IdKinds : newIds[k] = IF k \in x.given THEN IdOf(x.title, k) ELSE NoId OBVIOUS
  <2>3. x.given \in GivenIds /\ x.given \subseteq IdKinds /\ x.given # {} /\ x.title \in Titles
        /\ x.source \in Sources /\ type \in {"movie", "tv", "anime", "episode"}
    BY <1>1, SourcesAssumption, TitlesAssumption DEF Txn
  <2>4. newIds \in RowIds BY <2>3 DEF RowIds
  <2>5. \A k \in IdKinds : IdOf(x.title, k) # NoId BY DEF IdOf, NoId
  <2> HIDE DEF newIds
  <2>6. rows \in [Rows -> Row \cup {NoRow}] BY DEF IdentityInv, RowsOK
  <2>7. /\ rows' \in [Rows -> Row \cup {NoRow}] /\ \A q \in Rows : q # r => rows'[q] = rows[q]
        /\ rows'[r] # NoRow /\ rows'[r] \in Row
        /\ rows'[r].ids = newIds /\ rows'[r].type = type /\ rows'[r].raced = x.raced
    <3>1. [type |-> type, ids |-> newIds, raced |-> x.raced] \in Row BY <1>1, <2>3, <2>4 DEF Row, Txn
    <3>2. rows'[r] = [type |-> type, ids |-> newIds, raced |-> x.raced] BY <2>1, <2>6
    <3>3. rows'[r] # NoRow BY <3>1, <3>2 DEF Row, NoRow
    <3> QED BY <2>1, <2>6, <3>1, <3>2, <3>3
  <2>8. RowsOK'
    <3>1. \A q \in Rows : q < r => rows'[q] # NoRow BY <2>1, <2>7, SourcesAssumption
    <3>2. \A q \in Rows : r < q => rows'[q] = NoRow
      <4>1. SUFFICES ASSUME NEW q \in Rows, r < q, rows'[q] # NoRow PROVE FALSE OBVIOUS
      <4>2. rows[q] # NoRow BY <2>7, <4>1, SourcesAssumption
      <4> QED BY <2>1, <4>1, <4>2 DEF IdentityInv, RowsOK
    <3>3. \A p, q \in Rows : p < q /\ rows'[q] # NoRow => rows'[p] # NoRow
      <4>1. SUFFICES ASSUME NEW p \in Rows, NEW q \in Rows, p < q, rows'[q] # NoRow PROVE rows'[p] # NoRow
        OBVIOUS
      <4>2. CASE q = r BY <3>1, <4>1, <4>2
      <4>3. CASE q # r
        <5>1. rows[p] # NoRow BY <2>7, <4>1, <4>3 DEF IdentityInv, RowsOK
        <5> QED BY <2>7, <5>1
      <4> QED BY <4>2, <4>3
    <3>4. \A q \in Rows : rows'[q] # NoRow => \E k \in IdKinds : rows'[q].ids[k] # NoId
      BY <2>2, <2>3, <2>5, <2>7 DEF IdentityInv, RowsOK
    <3>5. \A q \in Rows : rows'[q] # NoRow /\ rows'[q].type = "episode" => rows'[q].ids["place"] # NoId
      <4>1. "place" \in IdKinds BY DEF IdKinds
      <4>2. type = "episode" => newIds["place"] # NoId BY <1>1, <2>2, <2>5, <4>1
      <4> QED BY <2>7, <4>2 DEF IdentityInv, RowsOK
    <3> QED BY <2>7, <3>3, <3>4, <3>5 DEF RowsOK
  <2>9. About(r, x.title)' BY <2>2, <2>7 DEF About
  <2>10. \A q \in Rows, t \in Titles : About(q, t) => About(q, t)'
    BY <2>1, <2>7 DEF About
  <2>11. RowsAreOneTitle'
    <3>1. \A q \in Rows : rows[q] # NoRow => \E t \in Titles : About(q, t)
      BY DEF IdentityInv, RowsAreOneTitle, About
    <3>2. \A q \in Rows : rows'[q] # NoRow => \E t \in Titles : About(q, t)'
      BY <2>3, <2>7, <2>9, <2>10, <3>1
    <3> QED BY <3>2 DEF RowsAreOneTitle, About
  \* The new row has a twin only if another transaction wrote.
  <2>12. ASSUME NEW q \in Rows, NEW k \in Own, rows[q] # NoRow, rows[q].type = type,
                rows[q].ids[k] = newIds[k], newIds[k] # NoId
         PROVE  x.raced
    <3>1. k \in IdKinds /\ k \in x.given BY <2>2, <2>12 DEF IdKinds
    <3>2. Named(q, x.title, k) BY <2>2, <2>12, <3>1 DEF Named
    <3>3. CASE type = "episode"
      <4>1. "place" \in x.given /\ "place" \in IdKinds /\ "place" \notin Own
        BY <1>1, <3>3 DEF IdKinds, Own
      <4>2. PICK t \in Titles : About(q, t) BY <2>12 DEF IdentityInv, RowsAreOneTitle, About
      <4>3. t = x.title BY <2>3, <3>1, <3>2, <4>2, FoundIsIt
      <4>4. rows[q].ids["place"] = IdOf(x.title, "place")
        BY <2>12, <3>3, <4>1, <4>2, <4>3 DEF IdentityInv, RowsOK, About
      <4>5. q # 0 BY SourcesAssumption
      <4>6. Taken(0, type, "place", IdOf(x.title, "place")) BY <2>12, <4>1, <4>4, <4>5 DEF Taken
      <4> QED BY <1>4, <4>1, <4>6
    <3>4. CASE type # "episode"
      <4>1. k \in Range(LooksUp(x.source, type)) BY <1>1, <2>3, <3>1, <3>4, LooksAre
      <4>2. k \in Range(Looks(w)) BY <1>0, <4>1 DEF Looks
      <4> QED BY <1>0, <1>1, <3>1, <3>2, <4>2, DoneLooked
    <3> QED BY <3>3, <3>4
  <2>13. NoTwins'
    <3>1. SUFFICES ASSUME NEW p \in Rows, NEW q \in Rows, NEW k \in Own, p < q, rows'[p] # NoRow,
                          rows'[q] # NoRow, rows'[p].type = rows'[q].type,
                          rows'[p].ids[k] = rows'[q].ids[k], rows'[p].ids[k] # NoId
                   PROVE  rows'[q].raced
      BY DEF NoTwins
    <3>2. p # q BY <3>1, SourcesAssumption
    <3>3. CASE q = r BY <2>7, <2>12, <3>1, <3>2, <3>3
    <3>4. CASE p = r
      <4>1. rows[q] # NoRow BY <2>7, <3>1, <3>2, <3>4
      <4> QED BY <2>1, <3>1, <3>4, <4>1 DEF IdentityInv, RowsOK
    <3>5. CASE p # r /\ q # r
      <4>1. rows'[p] = rows[p] /\ rows'[q] = rows[q] BY <2>7, <3>5
      <4> QED BY <3>1, <4>1 DEF IdentityInv, NoTwins
    <3> QED BY <3>3, <3>4, <3>5
  <2>14. TxnOK' BY <2>1, <2>10, TxnEnds
  <2> QED BY <2>8, <2>11, <2>13, <2>14 DEF IdentityInv
<1> QED BY <1>2, <1>3, <1>4

-----------------------------------------------------------------------------
(* An entry is aborted.                                                    *)

LEMMA OthersGoOn ==
  ASSUME IdentityInv, NEW w \in Writers, NEW v \in Writers, v # w, NEW wrote, txn' = Ended(v, wrote),
         txn[w] # NoTxn
  PROVE  txn'[w] # NoTxn
<1>1. txn[w] \in Txn BY DEF IdentityInv, TxnOK
<1>2. txn'[w].source = txn[w].source BY <1>1 DEF Ended, Txn
<1> QED BY <1>1, <1>2, SourcesAssumption DEF Txn, NoTxn, AllSources

LEMMA FillAborts ==
  ASSUME IdentityInv, NEW w \in Writers, Fill(w), UNCHANGED rows, Unwritten(txn[w]), ~txn[w].raced
  PROVE  txn[w].source \in {"anilist", "metadata"}
<1>0. PICK x : x = txn[w] OBVIOUS
<1> DEFINE newIds == [k \in IdKinds |-> IF k \in x.fill THEN IdOf(x.title, k) ELSE rows[x.row].ids[k]]
           taken == \E k \in x.fill : Taken(x.row, rows[x.row].type, k, IdOf(x.title, k))
<1>1. /\ x # NoTxn /\ x \in Txn /\ x.row # 0 /\ About(x.row, x.title) /\ Done(w)
      /\ x.fill \subseteq x.given \ Own /\ x.given \subseteq Has(x.source, TypeOf[x.title]) /\ x.checked /\ Free(w)
  BY <1>0 DEF IdentityInv, TxnOK, Fill, Done, Entry, Informed
<1>2. taken
  <2>1. taken \/ rows' = [rows EXCEPT ![x.row].ids = newIds] BY <1>0 DEF Fill
  <2>2. ASSUME rows' = [rows EXCEPT ![x.row].ids = newIds] PROVE FALSE
    <3>1. PICK k \in x.fill : rows[x.row].ids[k] # IdOf(x.title, k) BY <1>0, <1>1 DEF Unwritten
    <3>2. k \in IdKinds BY <1>1 DEF Txn
    <3>3. rows'[x.row].ids = newIds BY <1>1, <2>2 DEF Txn, IdentityInv, RowsOK, Row, About
    <3>4. newIds[k] = IdOf(x.title, k) BY <3>2
    <3> QED BY <3>1, <3>3, <3>4
  <2> QED BY <2>1, <2>2
<1>3. PICK k \in x.fill : Taken(x.row, rows[x.row].type, k, IdOf(x.title, k)) BY <1>2
<1>4. Unchecked(x.source) BY <1>0, <1>1, <1>3 DEF Free
<1>5. CASE x.source = "manual"
  <2>1. k \in x.given /\ k \in Range(Looks(w)) BY <1>0, <1>1, <1>5 DEF Has, Own, Looks
  <2>2. k \in IdKinds /\ x.title \in Titles /\ rows[x.row].type = TypeOf[x.title] BY <1>1 DEF Txn, About
  <2>3. PICK q \in Rows \ {x.row} : Named(q, x.title, k)
    BY <1>3, <2>2 DEF Taken, Named
  <2>4. q = x.row BY <1>0, <1>1, <1>5, <2>1, <2>3, DoneLooked DEF RefusesTwo
  <2> QED BY <2>3, <2>4
<1> QED BY <1>0, <1>4, <1>5 DEF Unchecked

LEMMA CreateAborts ==
  ASSUME IdentityInv, NEW w \in Writers, Create(w), UNCHANGED rows, ~txn[w].raced
  PROVE  txn[w].source \in {"trakt", "simkl"} /\ "tvdb" \in txn[w].given
<1>0. PICK x : x = txn[w] OBVIOUS
<1> DEFINE taken == \E k \in x.given : Taken(0, TypeOf[x.title], k, IdOf(x.title, k))
<1>1. /\ x # NoTxn /\ x \in Txn /\ x.row = 0 /\ Done(w) /\ x.given \subseteq Has(x.source, TypeOf[x.title])
  BY <1>0 DEF IdentityInv, TxnOK, Create, Done, Entry
<1>2. taken
  <2>1. taken \/ \E r \in Rows, y \in Row : rows[r] = NoRow /\ rows' = [rows EXCEPT ![r] = y]
    <3>1. [k \in IdKinds |-> IF k \in x.given THEN IdOf(x.title, k) ELSE NoId] \in RowIds
      BY <1>1 DEF RowIds, Txn
    <3>2. [type |-> TypeOf[x.title], raced |-> x.raced,
           ids |-> [k \in IdKinds |-> IF k \in x.given THEN IdOf(x.title, k) ELSE NoId]] \in Row
      BY <1>1, <3>1, TitlesAssumption DEF Row, Txn
    <3> QED BY <1>0, <3>2 DEF Create
  <2>2. ASSUME NEW r \in Rows, NEW y \in Row, rows[r] = NoRow, rows' = [rows EXCEPT ![r] = y] PROVE FALSE
    BY <2>2 DEF IdentityInv, RowsOK, Row, NoRow
  <2> QED BY <2>1, <2>2
<1>3. PICK k \in x.given : Taken(0, TypeOf[x.title], k, IdOf(x.title, k)) BY <1>2
<1>4. PICK q \in Rows : Named(q, x.title, k) /\ k \notin Own BY <1>3 DEF Taken, Named
<1>5. k \notin Range(Looks(w)) BY <1>0, <1>1, <1>4, DoneLooked
<1> QED BY <1>0, <1>1, <1>3, <1>4, <1>5 DEF Has, Looks

LEMMA AbortStep ==
  ASSUME IdentityInv, [IdentityNext]_identityVars, NEW w \in Writers,
         Done(w), txn'[w] = NoTxn, UNCHANGED rows, Unwritten(txn[w]), ~txn[w].raced
  PROVE  \/ txn[w].source \in {"anilist", "metadata"}
         \/ txn[w].source \in {"trakt", "simkl"} /\ "tvdb" \in txn[w].given
<1>1. txn[w] # NoTxn /\ txn'[w] # txn[w] /\ txn \in [Writers -> Txn \cup {NoTxn}]
  BY DEF Done, IdentityInv, TxnOK
<1>2. PICK v \in Writers : \/ \E s \in Sources, t \in Titles, given \in GivenIds : BeginEntry(v, s, t, given)
                           \/ Look(v) \/ Check(v) \/ Fill(v) \/ Create(v)
  BY <1>1 DEF IdentityNext, identityVars
<1>3. CASE v = w
  <2>1. ~\E s \in Sources, t \in Titles, given \in GivenIds : BeginEntry(v, s, t, given)
    BY <1>1, <1>3 DEF BeginEntry
  <2>2. ~Look(v) BY <1>3 DEF Look, Done
  <2>3. ~Check(v)
    <3>1. ASSUME Check(v) PROVE txn'[w].source = txn[w].source
      BY <1>1, <1>3, <3>1 DEF Check, Txn
    <3> QED BY <1>1, <3>1, SourcesAssumption DEF Txn, NoTxn, AllSources
  <2> QED BY <1>2, <1>3, <2>1, <2>2, <2>3, FillAborts, CreateAborts
<1>4. CASE v # w
  <2>1. ~\E s \in Sources, t \in Titles, given \in GivenIds : BeginEntry(v, s, t, given)
    BY <1>1, <1>4 DEF BeginEntry
  <2>2. ~Look(v) BY <1>1, <1>4, Zenon DEF Look
  <2>3. ~Check(v) BY <1>1, <1>4 DEF Check
  <2>4. ~Fill(v) BY <1>1, <1>4, OthersGoOn DEF Fill, Aborted
  <2>5. ~Create(v) BY <1>1, <1>4, OthersGoOn DEF Create, Aborted
  <2> QED BY <1>2, <2>1, <2>2, <2>3, <2>4, <2>5
<1> QED BY <1>3, <1>4

-----------------------------------------------------------------------------

LEMMA IdentityInitHolds == IdentityInit => IdentityInv
BY DEF IdentityInit, IdentityInv, RowsOK, RowsAreOneTitle, NoTwins, TxnOK

LEMMA IdentityStep == IdentityInv /\ [IdentityNext]_identityVars => IdentityInv'
<1> SUFFICES ASSUME IdentityInv, [IdentityNext]_identityVars PROVE IdentityInv'
  OBVIOUS
<1>1. ASSUME NEW w \in Writers, NEW s \in Sources, NEW t \in Titles, NEW given \in GivenIds,
             BeginEntry(w, s, t, given)
      PROVE  IdentityInv'
  BY <1>1, BeginHolds
<1>2. ASSUME NEW w \in Writers, Look(w) \/ Check(w) \/ Fill(w) \/ Create(w) PROVE IdentityInv'
  BY <1>2, LookHolds, CheckHolds, FillHolds, CreateHolds
<1>3. CASE UNCHANGED identityVars
  BY <1>3 DEF identityVars, IdentityInv, RowsOK, RowsAreOneTitle, NoTwins, TxnOK, Entry, About, Informed,
     Looked, Looks, Named, Free, Taken
<1> QED BY <1>1, <1>2, <1>3 DEF IdentityNext

LEMMA IdentityInvariance == IdentitySpec => []IdentityInv
BY IdentityInitHolds, IdentityStep, PTL DEF IdentitySpec

\* Rows, and what every transaction has looked up and will write, keep their types.
THEOREM IdentityTypes == IdentitySpec => []IdentityTypeOK
<1>1. IdentityInv => IdentityTypeOK
  <2> SUFFICES ASSUME IdentityInv PROVE IdentityTypeOK OBVIOUS
  <2>1. \A r \in Rows : rows[r] # NoRow => rows[r].type \in Range(TypeOf) /\ rows[r].ids \in RowIds
    BY TitlesAssumption DEF IdentityInv, RowsOK, RowsAreOneTitle, Row, Range
  <2>2. \A w \in Writers : txn[w] # NoTxn =>
          /\ txn[w].source \in Sources /\ txn[w].title \in Titles /\ txn[w].given \in GivenIds
          /\ txn[w].row # 0 => rows[txn[w].row] # NoRow
          /\ txn[w].copy \in RowIds /\ txn[w].fill \subseteq IdKinds /\ txn[w].raced \in BOOLEAN
    BY DEF IdentityInv, TxnOK, Txn, Entry, About
  <2> QED BY <2>1, <2>2 DEF IdentityTypeOK
<1> QED BY <1>1, IdentityInvariance, PTL

\* Whatever sources and transactions gave a row its ids, they are of one title; a provider's
\* own id, which no constraint guards, is in two rows only after a race; and an entry is
\* aborted only after a race, or by a source that does not look before it writes.
THEOREM RowsStayTitles == IdentitySpec => RowsAreTitles
<1>1. IdentityInv => RowsAreOneTitle /\ NoTwins BY DEF IdentityInv
<1>2. ASSUME IdentityInv, [IdentityNext]_identityVars
      PROVE  [\A w \in Writers :
               (Done(w) /\ txn'[w] = NoTxn /\ UNCHANGED rows /\ Unwritten(txn[w])) =>
                  \/ txn[w].raced \/ txn[w].source \in {"anilist", "metadata"}
                  \/ txn[w].source \in {"trakt", "simkl"} /\ "tvdb" \in txn[w].given]_identityVars
  BY <1>2, AbortStep
<1> QED BY <1>1, <1>2, IdentityInvariance, PTL DEF IdentitySpec, RowsAreTitles, AbortNeedsRace

-----------------------------------------------------------------------------
(* The merge of histories *)

Watch == [source : {"trakt", "manual"}, media : Media, day : Days]
Sync == [status : {"pending", "succeeded", "imported"}, ext : BOOLEAN, watch : Watches]
Push == [status : {"pending", "in_progress"}, watch : Watches, sync : Watches]
Histories == [Watches -> Watch \cup {NoWatch, GoneWatch}]
SyncTables == [Watches -> Sync \cup {NoWatchSync}]
Merges == [loaded : {TRUE}, watches : Histories, left : SUBSET SUBSET Watches, now : SUBSET Watches,
           syncs : SyncTables]

\* A merge works on groups of what it loaded ...
MergeShape ==
    /\ watches \in Histories /\ syncs \in SyncTables /\ jobs \in [Watches -> Push \cup {NoPush}]
    /\ edited \subseteq Watches /\ pushed \subseteq Watches
    /\ merge # NoMerge =>
          /\ merge \in Merges /\ merge.left \subseteq Clusters(merge.watches)
          /\ merge.now # {} => merge.now \in merge.left

\* ... whose watches are as they were loaded but for those the user has edited ...
AsLoaded ==
    merge # NoMerge =>
        \A C \in merge.left : \A w \in C : watches[w] # NoWatch /\ (watches[w] = merge.watches[w] \/ w \in edited)

\* ... and the syncs of the group at hand as they were read, but for those of watches whose
\* syncs have changed since.
SyncsAsRead ==
    merge # NoMerge /\ merge.now # {} =>
        \A s \in Watches : \A x \in {syncs[s], merge.syncs[s]} :
            x # NoWatchSync /\ x.watch \in merge.now \ pushed => syncs[s] = merge.syncs[s]

\* A watch has a sync of its name only once it is there.
Owned == \A s \in Watches : syncs[s] # NoWatchSync => watches[s] # NoWatch

MergeInv == MergeShape /\ AsLoaded /\ SyncsAsRead /\ Owned

LEMMA Present ==
  ASSUME NEW ws \in Histories, NEW w \in Watches
  PROVE  /\ w \in There(ws) <=> ws[w] \in Watch
         /\ w \in There(ws) <=> ws[w] \notin {NoWatch, GoneWatch}
<1>1. \A x \in Watch : x # NoWatch /\ x # GoneWatch
  <2>1. \A x \in Watch : x.source \in {"trakt", "manual"} BY DEF Watch
  <2>2. NoWatch.source = "none" /\ GoneWatch.source = "gone" BY DEF NoWatch, GoneWatch
  <2> QED BY <2>1, <2>2
<1> QED BY <1>1 DEF There, Histories

LEMMA SyncIs == \A x \in Sync : x # NoWatchSync
BY DEF Sync, NoWatchSync

LEMMA PushIs == \A x \in Push : x # NoPush
BY DEF Push, NoPush

LEMMA MergeIs == \A x \in Merges : x # NoMerge /\ x.loaded
<1>1. \A x \in Merges : x.loaded = TRUE BY DEF Merges
<1>2. NoMerge.loaded = FALSE BY DEF NoMerge
<1> QED BY <1>1, <1>2

LEMMA LoadedIs ==
  ASSUME MergeShape
  PROVE  merge.loaded <=> merge # NoMerge
BY MergeIs DEF MergeShape, NoMerge

\* The members of a group are there and of one name and day, and no two groups share one.
LEMMA GroupsApart ==
  ASSUME NEW ws \in Histories, NEW C \in Clusters(ws), NEW v \in C
  PROVE  /\ C \subseteq There(ws)
         /\ \A w \in C : Same(ws[v], ws[w])
         /\ \A D \in Clusters(ws) : v \in D => C = D
<1>1. PICK w \in There(ws) : C = {x \in There(ws) : Same(ws[x], ws[w])} BY DEF Clusters
<1>2. \A x \in C : Same(ws[v], ws[x]) BY <1>1 DEF Same
<1>3. ASSUME NEW D \in Clusters(ws), v \in D PROVE C = D
  <2>1. PICK u \in There(ws) : D = {x \in There(ws) : Same(ws[x], ws[u])} BY DEF Clusters
  <2>2. \A x \in There(ws) : Same(ws[x], ws[u]) <=> Same(ws[x], ws[w]) BY <1>1, <1>3, <2>1 DEF Same
  <2> QED BY <1>1, <2>1, <2>2
<1> QED BY <1>1, <1>2, <1>3

-----------------------------------------------------------------------------
(* The user, the importers and the worker.                                 *)

\* A step of theirs is noted if it changes a watch of a group or a sync of the one at hand.
LEMMA Disturbs ==
  ASSUME MergeInv, watches' \in Histories, syncs' \in SyncTables, jobs' \in [Watches -> Push \cup {NoPush}],
         UNCHANGED merge, edited' \subseteq Watches, pushed' \subseteq Watches,
         \A w \in Watches : watches[w] # NoWatch => watches'[w] # NoWatch,
         \A s \in Watches : syncs'[s] # NoWatchSync => watches'[s] # NoWatch,
         merge # NoMerge => edited \subseteq edited' /\ pushed \subseteq pushed',
         \A w \in Watches : merge # NoMerge /\ w \in UNION merge.left => watches'[w] = watches[w] \/ w \in edited',
         \A s \in Watches : merge # NoMerge => \/ syncs'[s] = syncs[s]
                                             \/ \A x \in {syncs[s], syncs'[s]} :
                                                   x # NoWatchSync => x.watch \notin merge.now \ pushed'
  PROVE  MergeInv'
<1>1. MergeShape' BY DEF MergeInv, MergeShape
<1>2. AsLoaded'
  <2>1. SUFFICES ASSUME merge # NoMerge, NEW C \in merge.left, NEW w \in C
                 PROVE  watches'[w] # NoWatch /\ (watches'[w] = merge.watches[w] \/ w \in edited')
    BY DEF AsLoaded
  <2>2. w \in Watches /\ w \in UNION merge.left BY <2>1 DEF MergeInv, MergeShape, Merges
  <2>3. watches[w] # NoWatch /\ (watches[w] = merge.watches[w] \/ w \in edited) BY <2>1 DEF MergeInv, AsLoaded
  <2> QED BY <2>1, <2>2, <2>3
<1>3. SyncsAsRead'
  <2>1. SUFFICES ASSUME merge # NoMerge, merge.now # {}, NEW s \in Watches, NEW x \in {syncs'[s], merge.syncs[s]},
                        x # NoWatchSync, x.watch \in merge.now \ pushed'
                 PROVE  syncs'[s] = merge.syncs[s]
    BY DEF SyncsAsRead
  <2>2. \A y \in {syncs[s], merge.syncs[s]} :
           y # NoWatchSync /\ y.watch \in merge.now \ pushed => syncs[s] = merge.syncs[s]
    BY <2>1 DEF MergeInv, SyncsAsRead
  <2>3. x.watch \in merge.now \ pushed BY <2>1
  <2>4. CASE syncs'[s] = syncs[s] BY <2>1, <2>2, <2>3, <2>4
  <2>5. CASE \A y \in {syncs[s], syncs'[s]} : y # NoWatchSync => y.watch \notin merge.now \ pushed'
    <3>1. x = merge.syncs[s] BY <2>1, <2>5
    <3>2. syncs[s] = x BY <2>1, <2>2, <2>3, <3>1
    <3> QED BY <2>1, <2>5, <3>2
  <2> QED BY <2>1, <2>4, <2>5
<1>4. Owned' BY DEF Owned
<1> QED BY <1>1, <1>2, <1>3, <1>4 DEF MergeInv

\* What the two histories of a merge become.
LEMMA Noted ==
  ASSUME MergeInv, NEW w \in Watches
  PROVE  /\ Edited(w) \subseteq Watches /\ Pushed({w}) \subseteq Watches
         /\ merge # NoMerge => /\ edited \subseteq Edited(w) /\ pushed \subseteq Pushed({w})
                               /\ w \in UNION merge.left => w \in Edited(w)
                               /\ w \notin merge.now \ Pushed({w})
<1>1. merge # NoMerge => merge.loaded BY LoadedIs DEF MergeInv
<1>2. edited \subseteq Watches /\ pushed \subseteq Watches BY DEF MergeInv, MergeShape
<1> QED BY <1>1, <1>2 DEF Edited, Pushed

\* What was not there before is of no group.
LEMMA NewIsApart ==
  ASSUME MergeInv, merge # NoMerge, NEW w \in Watches, watches[w] = NoWatch
  PROVE  w \notin UNION merge.left /\ w \notin merge.now
<1>1. w \notin UNION merge.left BY DEF MergeInv, AsLoaded
<1>2. merge.now # {} => merge.now \in merge.left BY DEF MergeInv, MergeShape
<1> QED BY <1>1, <1>2

LEMMA WatchIs == \A x \in Watch : x # NoWatch /\ x # GoneWatch
<1>1. \A x \in Watch : x.source \in {"trakt", "manual"} BY DEF Watch
<1>2. NoWatch.source = "none" /\ GoneWatch.source = "gone" BY DEF NoWatch, GoneWatch
<1> QED BY <1>1, <1>2

LEMMA GoneIs == GoneWatch # NoWatch
<1>1. NoWatch.source = "none" /\ GoneWatch.source = "gone" BY DEF NoWatch, GoneWatch
<1> QED BY <1>1

LEMMA NewHolds ==
  ASSUME MergeInv, NEW w \in Watches, NEW m \in Media, NEW d \in Days,
         AddWatched(w, m, d) \/ \E here \in BOOLEAN : Import(w, m, d, here)
  PROVE  MergeInv'
<1>1. ASSUME NEW source \in {"trakt", "manual"}, New(w, source, m, d)
      PROVE  /\ watches' \in Histories /\ UNCHANGED <<merge, edited, pushed>>
             /\ \A v \in Watches : v # w => watches'[v] = watches[v]
             /\ watches[w] = NoWatch /\ watches'[w] # NoWatch
  <2>1. [source |-> source, media |-> m, day |-> d] \in Watch BY DEF Watch
  <2>2. watches \in Histories BY DEF MergeInv, MergeShape
  <2> QED BY <1>1, <2>1, <2>2, WatchIs DEF New, Histories
<1>2. PICK source \in {"trakt", "manual"} : New(w, source, m, d) BY DEF AddWatched, Import
<1>3. syncs \in SyncTables /\ (syncs[w] = NoWatchSync) BY <1>1, <1>2 DEF MergeInv, MergeShape, Owned
<1>4. /\ syncs' \in SyncTables /\ UNCHANGED jobs
      /\ \A s \in Watches : s # w => syncs'[s] = syncs[s]
      /\ syncs'[w] # NoWatchSync => syncs'[w].watch = w
  <2>1. CASE AddWatched(w, m, d) BY <1>3, <2>1 DEF AddWatched
  <2>2. CASE \E here \in BOOLEAN : Import(w, m, d, here)
    <3>1. [status |-> "imported", ext |-> TRUE, watch |-> w] \in Sync BY DEF Sync
    <3>2. \/ UNCHANGED <<syncs, jobs>>
          \/ syncs' = [syncs EXCEPT ![w] = [status |-> "imported", ext |-> TRUE, watch |-> w]] /\ UNCHANGED jobs
      BY <2>2 DEF Import
    <3>3. CASE UNCHANGED <<syncs, jobs>> BY <1>3, <3>3
    <3>4. CASE syncs' = [syncs EXCEPT ![w] = [status |-> "imported", ext |-> TRUE, watch |-> w]] /\ UNCHANGED jobs
      <4>1. PICK row \in Sync : row.watch = w /\ syncs' = [syncs EXCEPT ![w] = row] BY <3>1, <3>4
      <4> QED BY <1>3, <3>4, <4>1 DEF SyncTables
    <3> QED BY <3>2, <3>3, <3>4
  <2> QED BY <2>1, <2>2
<1>5. merge # NoMerge => w \notin UNION merge.left /\ w \notin merge.now BY <1>1, <1>2, NewIsApart
<1>6. edited' \subseteq Watches /\ pushed' \subseteq Watches /\ jobs' \in [Watches -> Push \cup {NoPush}]
      /\ edited \subseteq edited' /\ pushed \subseteq pushed'
  BY <1>1, <1>2, <1>4 DEF MergeInv, MergeShape
<1>7. \A v \in Watches : watches[v] # NoWatch => watches'[v] # NoWatch BY <1>1, <1>2
<1>8. \A s \in Watches : syncs'[s] # NoWatchSync => watches'[s] # NoWatch
  BY <1>1, <1>2, <1>4 DEF MergeInv, Owned
<1>9. \A v \in Watches : merge # NoMerge /\ v \in UNION merge.left => watches'[v] = watches[v] \/ v \in edited'
  BY <1>1, <1>2, <1>5
<1>10. \A s \in Watches : merge # NoMerge => \/ syncs'[s] = syncs[s]
                                             \/ \A x \in {syncs[s], syncs'[s]} :
                                                   x # NoWatchSync => x.watch \notin merge.now \ pushed'
  BY <1>3, <1>4, <1>5
<1> QED BY <1>1, <1>2, <1>4, <1>6, <1>7, <1>8, <1>9, <1>10, Disturbs

LEMMA UserHolds ==
  ASSUME MergeInv, NEW w \in Watches,
         DeleteWatch(w) \/ QueuePush(w) \/ \E d \in Days : Update(w, d)
  PROVE  MergeInv'
<1>1. /\ watches \in Histories /\ syncs \in SyncTables /\ jobs \in [Watches -> Push \cup {NoPush}]
      /\ edited \subseteq Watches /\ pushed \subseteq Watches
      /\ \A s \in Watches : syncs[s] # NoWatchSync => watches[s] # NoWatch
  BY DEF MergeInv, MergeShape, Owned
<1>2. CASE DeleteWatch(w)
  <2>1. watches' = [watches EXCEPT ![w] = GoneWatch] /\ edited' = Edited(w) /\ pushed' = Pushed({w}) /\ UNCHANGED merge
    BY <1>2 DEF DeleteWatch
  <2>2. watches' \in Histories /\ watches'[w] = GoneWatch /\ \A v \in Watches : v # w => watches'[v] = watches[v]
    BY <1>1, <2>1 DEF Histories
  <2>3. syncs' = [s \in Watches |-> IF syncs[s] # NoWatchSync /\ syncs[s].watch = w THEN NoWatchSync ELSE syncs[s]]
    BY <1>2 DEF DeleteWatch
  <2>4. syncs' \in SyncTables BY <1>1, <2>3 DEF SyncTables
  <2>5. jobs' \in [Watches -> Push \cup {NoPush}] BY <1>1, <1>2 DEF DeleteWatch
  <2>6. \A v \in Watches : watches[v] # NoWatch => watches'[v] # NoWatch BY <2>2, GoneIs
  <2>7. \A s \in Watches : syncs'[s] # NoWatchSync => watches'[s] # NoWatch BY <1>1, <2>3, <2>6
  <2>8. \A v \in Watches : merge # NoMerge /\ v \in UNION merge.left => watches'[v] = watches[v] \/ v \in edited'
    BY <2>1, <2>2, Noted
  <2>9. \A s \in Watches : merge # NoMerge => \/ syncs'[s] = syncs[s]
                                              \/ \A x \in {syncs[s], syncs'[s]} :
                                                    x # NoWatchSync => x.watch \notin merge.now \ pushed'
    BY <2>1, <2>3, Noted
  <2>10. /\ edited' \subseteq Watches /\ pushed' \subseteq Watches
         /\ merge # NoMerge => edited \subseteq edited' /\ pushed \subseteq pushed'
    BY <2>1, Noted
  <2> QED BY <2>1, <2>2, <2>4, <2>5, <2>6, <2>7, <2>8, <2>9, <2>10, Disturbs
<1>3. CASE QueuePush(w)
  <2>1. /\ UNCHANGED <<watches, merge, edited>> /\ pushed' = Pushed({w}) /\ syncs[w] = NoWatchSync
        /\ syncs' = [syncs EXCEPT ![w] = [status |-> "pending", ext |-> FALSE, watch |-> w]]
        /\ jobs' = [jobs EXCEPT ![w] = [status |-> "pending", watch |-> w, sync |-> w]] /\ w \in There(watches)
    BY <1>3 DEF QueuePush
  <2>2. [status |-> "pending", ext |-> FALSE, watch |-> w] \in Sync BY DEF Sync
  <2>3. syncs' \in SyncTables /\ syncs'[w].watch = w /\ \A s \in Watches : s # w => syncs'[s] = syncs[s]
    BY <1>1, <2>1, <2>2 DEF SyncTables
  <2>4. jobs' \in [Watches -> Push \cup {NoPush}] BY <1>1, <2>1 DEF Push
  <2>5. \A s \in Watches : syncs'[s] # NoWatchSync => watches'[s] # NoWatch BY <1>1, <2>1, <2>3 DEF There
  <2>6. \A s \in Watches : merge # NoMerge => \/ syncs'[s] = syncs[s]
                                              \/ \A x \in {syncs[s], syncs'[s]} :
                                                    x # NoWatchSync => x.watch \notin merge.now \ pushed'
    BY <2>1, <2>3, Noted
  <2>7. /\ edited' \subseteq Watches /\ pushed' \subseteq Watches
        /\ merge # NoMerge => edited \subseteq edited' /\ pushed \subseteq pushed'
    BY <1>1, <2>1, Noted
  <2> QED BY <1>1, <2>1, <2>3, <2>4, <2>5, <2>6, <2>7, Disturbs
<1>4. CASE \E d \in Days : Update(w, d)
  <2>1. PICK d \in Days : Update(w, d) BY <1>4
  <2>2. watches[w] \in Watch BY <1>1, <2>1, Present DEF Update
  <2>3. [watches[w] EXCEPT !.day = d] \in Watch BY <2>2 DEF Watch
  <2>4. /\ watches' = [watches EXCEPT ![w] = [watches[w] EXCEPT !.day = d]] /\ edited' = Edited(w)
        /\ UNCHANGED <<syncs, jobs, merge, pushed>>
    BY <2>1 DEF Update
  <2>5. watches' \in Histories /\ watches'[w] \in Watch /\ \A v \in Watches : v # w => watches'[v] = watches[v]
    BY <1>1, <2>3, <2>4 DEF Histories
  <2>6. \A v \in Watches : watches[v] # NoWatch => watches'[v] # NoWatch BY <2>5, WatchIs
  <2>7. \A v \in Watches : merge # NoMerge /\ v \in UNION merge.left => watches'[v] = watches[v] \/ v \in edited'
    BY <2>4, <2>5, Noted
  <2>8. /\ edited' \subseteq Watches /\ pushed' \subseteq Watches
        /\ merge # NoMerge => edited \subseteq edited' /\ pushed \subseteq pushed'
    BY <1>1, <2>4, Noted
  <2>9. \A s \in Watches : syncs'[s] # NoWatchSync => watches'[s] # NoWatch BY <1>1, <2>4, <2>6
  <2> QED BY <1>1, <2>4, <2>5, <2>6, <2>7, <2>8, <2>9, Disturbs
<1> QED BY <1>2, <1>3, <1>4

LEMMA WorkerHolds ==
  ASSUME MergeInv, NEW j \in Watches, ClaimPush(j) \/ Deliver(j)
  PROVE  MergeInv'
<1>1. jobs[j] \in Push
  BY DEF ClaimPush, Deliver, MergeInv, MergeShape, NoPush
<1>2. /\ watches \in Histories /\ syncs \in SyncTables /\ jobs \in [Watches -> Push \cup {NoPush}]
      /\ edited \subseteq Watches /\ pushed \subseteq Watches
      /\ \A s \in Watches : syncs[s] # NoWatchSync => watches[s] # NoWatch
  BY DEF MergeInv, MergeShape, Owned
<1>3. CASE ClaimPush(j)
  <2>1. [jobs[j] EXCEPT !.status = "in_progress"] \in Push BY <1>1 DEF Push
  <2>2. jobs' \in [Watches -> Push \cup {NoPush}] BY <1>2, <1>3, <2>1 DEF ClaimPush
  <2>3. UNCHANGED <<watches, syncs, merge, edited, pushed>> BY <1>3 DEF ClaimPush
  <2> QED BY <1>2, <2>2, <2>3, Disturbs
<1>4. CASE Deliver(j)
  <2>1. PICK s0 \in Watches : s0 = jobs[j].sync BY <1>1 DEF Push
  <2>2. jobs' \in [Watches -> Push \cup {NoPush}] /\ UNCHANGED <<watches, merge, edited>>
    BY <1>2, <1>4 DEF Deliver
  <2>3. CASE syncs[s0] = NoWatchSync
    <3>1. UNCHANGED <<syncs, pushed>> BY <1>4, <2>1, <2>3 DEF Deliver
    <3> QED BY <1>2, <2>2, <3>1, Disturbs
  <2>4. CASE syncs[s0] # NoWatchSync
    <3>1. syncs[s0] \in Sync BY <1>2, <2>4 DEF SyncTables
    <3>2. PICK v \in Watches : v = syncs[s0].watch BY <3>1 DEF Sync
    <3>3. PICK y : y = [syncs[s0] EXCEPT !.status = "succeeded", !.ext = TRUE] OBVIOUS
    <3>4. y \in Sync /\ y.watch = v BY <3>1, <3>2, <3>3 DEF Sync
    <3>5. syncs' = [syncs EXCEPT ![s0] = y] /\ pushed' = Pushed({v}) BY <1>4, <2>1, <2>4, <3>2, <3>3 DEF Deliver
    <3>6. syncs' \in SyncTables /\ syncs'[s0] = y /\ \A s \in Watches : s # s0 => syncs'[s] = syncs[s]
      BY <1>2, <3>4, <3>5 DEF SyncTables
    <3>7. \A s \in Watches : merge # NoMerge => \/ syncs'[s] = syncs[s]
                                                \/ \A x \in {syncs[s], syncs'[s]} :
                                                      x # NoWatchSync => x.watch \notin merge.now \ pushed'
      BY <3>2, <3>4, <3>5, <3>6, Noted
    <3>8. \A s \in Watches : syncs'[s] # NoWatchSync => watches'[s] # NoWatch BY <1>2, <2>2, <2>4, <3>6
    <3>9. /\ edited' \subseteq Watches /\ pushed' \subseteq Watches
          /\ merge # NoMerge => edited \subseteq edited' /\ pushed \subseteq pushed'
      BY <1>2, <2>2, <3>5, Noted
    <3> QED BY <1>2, <2>2, <3>6, <3>7, <3>8, <3>9, Disturbs
  <2> QED BY <2>3, <2>4
<1> QED BY <1>3, <1>4

-----------------------------------------------------------------------------
(* The merge.                                                              *)

LEMMA LoadHolds ==
  ASSUME MergeInv, Load
  PROVE  MergeInv'
<1>1. PICK y : y = [loaded |-> TRUE, watches |-> watches, left |-> Clusters(watches), now |-> {}, syncs |-> syncs]
  OBVIOUS
<1>2. merge' = y BY <1>1 DEF Load
<1>3. Clusters(watches) \subseteq SUBSET Watches BY DEF Clusters, There
<1>4. y \in Merges BY <1>1, <1>3 DEF MergeInv, MergeShape, Merges
<1>5. MergeShape' BY <1>1, <1>2, <1>4 DEF Load, MergeInv, MergeShape
<1>6. AsLoaded'
  <2>1. \A C \in Clusters(watches) : C \subseteq There(watches) BY DEF Clusters
  <2>2. \A C \in Clusters(watches) : \A w \in C : watches[w] # NoWatch BY <2>1 DEF There
  <2> QED BY <1>1, <1>2, <2>2 DEF Load, AsLoaded
<1>7. SyncsAsRead' BY <1>1, <1>2 DEF SyncsAsRead
<1>8. Owned' BY DEF Load, MergeInv, Owned
<1> QED BY <1>5, <1>6, <1>7, <1>8 DEF MergeInv

LEMMA BeginGroupHolds ==
  ASSUME MergeInv, NEW C \in merge.left, BeginGroup(C)
  PROVE  MergeInv'
<1>1. merge # NoMerge /\ merge \in Merges BY LoadedIs DEF BeginGroup, MergeInv, MergeShape
<1>2. PICK y : y = [merge EXCEPT !.now = C, !.syncs = syncs] OBVIOUS
<1>3. y \in Merges /\ y.now = C /\ y.syncs = syncs /\ y.left = merge.left /\ y.watches = merge.watches
  BY <1>1, <1>2 DEF Merges, MergeInv, MergeShape
<1>4. merge' = y BY <1>2 DEF BeginGroup
<1>5. MergeShape' BY <1>1, <1>3, <1>4 DEF BeginGroup, MergeInv, MergeShape
<1>6. AsLoaded' BY <1>1, <1>3, <1>4 DEF BeginGroup, MergeInv, AsLoaded
<1>7. SyncsAsRead' BY <1>3, <1>4 DEF BeginGroup, SyncsAsRead
<1>8. Owned' BY DEF BeginGroup, MergeInv, Owned
<1> QED BY <1>5, <1>6, <1>7, <1>8 DEF MergeInv

LEMMA StopHolds ==
  ASSUME MergeInv, FailMerge \/ EndMerge
  PROVE  MergeInv'
BY DEF FailMerge, EndMerge, MergeInv, MergeShape, AsLoaded, SyncsAsRead, Owned

\* What the commit of a group rests on: a watch that stays, and the sync that does.
Commits(C, p, k, b) ==
    /\ merge # NoMerge /\ C = merge.now /\ C \in merge.left /\ C \in Clusters(merge.watches) /\ p \in C
    /\ Merged(C, p, k, b)
    /\ IF SyncsOf(C) = {} THEN k = p /\ b = p
       ELSE k \in SyncsOf(C) /\ b \in SyncsOf(C) /\ \A s \in SyncsOf(C) : syncs[s] # NoWatchSync

LEMMA MergeCommits ==
  ASSUME MergeInv, Merge
  PROVE  \E C \in SUBSET Watches : \E p, k, b \in Watches : Commits(C, p, k, b)
<1>1. PICK C : C = merge.now OBVIOUS
<1>2. merge # NoMerge /\ C # {} /\ merge \in Merges BY <1>1, LoadedIs DEF Merge, MergeInv, MergeShape
<1>3. C \in merge.left /\ C \in Clusters(merge.watches) /\ C \subseteq Watches
  BY <1>1, <1>2 DEF MergeInv, MergeShape, Merges
<1>4. PICK p \in Primaries(C) :
        /\ SyncsOf(C) # {} => ~Lost(p, C)
        /\ IF SyncsOf(C) = {} THEN Merged(C, p, p, p)
           ELSE \E k \in Keeps(p, C), b \in Best(C) : Merged(C, p, k, b)
  BY <1>1 DEF Merge
<1>5. p \in C BY DEF Primaries
<1>6. CASE SyncsOf(C) = {} BY <1>1, <1>2, <1>3, <1>4, <1>5, <1>6 DEF Commits
<1>7. CASE SyncsOf(C) # {}
  <2>1. PICK k \in Keeps(p, C), b \in Best(C) : Merged(C, p, k, b) BY <1>4, <1>7
  <2>2. k \in SyncsOf(C) /\ b \in SyncsOf(C) BY DEF Keeps, Best
  <2>3. k \in Watches /\ b \in Watches BY <2>2 DEF SyncsOf
  <2>4. \A s \in SyncsOf(C) : syncs[s] # NoWatchSync BY <1>4, <1>7 DEF Lost
  <2> QED BY <1>1, <1>2, <1>3, <1>5, <1>7, <2>1, <2>2, <2>3, <2>4 DEF Commits
<1> QED BY <1>6, <1>7

LEMMA MergedFields ==
  ASSUME NEW C \in SUBSET Watches, NEW p \in Watches, merge \in Merges,
         NEW k \in SyncsOf(C), NEW b \in SyncsOf(C)
  PROVE  /\ MergedSync(k, b, p, C).ext = (\E s \in SyncsOf(C) : ReadSyncs[s].ext)
         /\ MergedSync(k, b, p, C).status \in {"pending", "succeeded", "imported"}
<1>1. ReadSyncs[k] \in Sync /\ ReadSyncs[b] \in Sync BY DEF SyncsOf, ReadSyncs, Merges, SyncTables
<1>2. PICK e \in BOOLEAN : e = (\E s \in SyncsOf(C) : ReadSyncs[s].ext) OBVIOUS
<1>3. PICK y : y = [ReadSyncs[k] EXCEPT !.watch = p, !.ext = e] OBVIOUS
<1>4. y \in Sync /\ y.ext = e BY <1>1, <1>3 DEF Sync
<1>5. MergedSync(k, b, p, C) \in {y, [y EXCEPT !.status = ReadSyncs[b].status]}
  BY <1>2, <1>3 DEF MergedSync
<1>6. [y EXCEPT !.status = ReadSyncs[b].status] \in Sync /\ [y EXCEPT !.status = ReadSyncs[b].status].ext = e
  BY <1>1, <1>4 DEF Sync
<1>7. MergedSync(k, b, p, C) \in Sync /\ MergedSync(k, b, p, C).ext = e BY <1>4, <1>5, <1>6
<1> QED BY <1>2, <1>7 DEF Sync

AtProvider(C) == \E s \in SyncsOf(C) : ReadSyncs[s].ext

\* The sync that stays is the primary's.
LEMMA SyncKept ==
  ASSUME MergeInv, NEW C \in SUBSET Watches, NEW p \in Watches, NEW k \in Watches, NEW b \in Watches,
         Commits(C, p, k, b), SyncsOf(C) # {}
  PROVE  /\ syncs'[k] \in Sync /\ syncs'[k].watch = p
         /\ syncs'[k].ext = IF AtProvider(C) # ReadSyncs[k].ext THEN AtProvider(C) ELSE syncs[k].ext
<1>1. k \in SyncsOf(C) /\ b \in SyncsOf(C) /\ syncs[k] # NoWatchSync /\ syncs[k] \in Sync
  BY DEF Commits, MergeInv, MergeShape, SyncTables
<1>2. merge \in Merges BY DEF Commits, MergeInv, MergeShape
<1>3. PICK m : m = MergedSync(k, b, p, C) OBVIOUS
<1>4. m.ext = AtProvider(C) /\ AtProvider(C) \in BOOLEAN /\ m.status \in {"pending", "succeeded", "imported"}
  BY <1>1, <1>2, <1>3, MergedFields DEF AtProvider
<1>5. syncs'[k] = [watch |-> p, ext |-> IF m.ext # ReadSyncs[k].ext THEN m.ext ELSE syncs[k].ext,
                   status |-> IF m.status # ReadSyncs[k].status THEN m.status ELSE syncs[k].status]
  BY <1>1, <1>3 DEF Commits, Merged
<1>6. syncs'[k].ext = (IF m.ext # ReadSyncs[k].ext THEN m.ext ELSE syncs[k].ext) /\ syncs'[k].watch = p
  BY <1>5
<1>7. m.ext \in BOOLEAN /\ syncs[k].ext \in BOOLEAN /\ syncs[k].status \in {"pending", "succeeded", "imported"}
  BY <1>1, <1>4 DEF Sync
<1>8. syncs'[k] \in Sync
  <2>1. \A e \in BOOLEAN, st \in {"pending", "succeeded", "imported"} : [watch |-> p, ext |-> e, status |-> st] \in Sync
    BY DEF Sync
  <2>2. PICK e, st : /\ e = (IF m.ext # ReadSyncs[k].ext THEN m.ext ELSE syncs[k].ext)
                     /\ st = (IF m.status # ReadSyncs[k].status THEN m.status ELSE syncs[k].status)
    OBVIOUS
  <2>3. e \in BOOLEAN BY <1>7, <2>2, Zenon
  <2>4. st \in {"pending", "succeeded", "imported"} BY <1>4, <1>7, <2>2, Zenon
  <2> QED BY <1>5, <2>1, <2>2, <2>3, <2>4
<1> QED BY <1>4, <1>6, <1>8

\* What a commit does to a sync and to a job that are of no group.
LEMMA SyncsElsewhere ==
  ASSUME MergeInv, NEW C \in SUBSET Watches, NEW p \in Watches, NEW k \in Watches, NEW b \in Watches,
         Commits(C, p, k, b), NEW s \in Watches
  PROVE  /\ s \notin SyncsOf(C) => syncs'[s] \in {NoWatchSync, syncs[s]}
         /\ s \notin SyncsOf(C) /\ syncs[s].watch \notin C => syncs'[s] = syncs[s]
         /\ s \in SyncsOf(C) /\ s # k => syncs'[s] = NoWatchSync
BY DEF Commits, Merged

LEMMA JobsFollow ==
  ASSUME MergeInv, NEW C \in SUBSET Watches, NEW p \in Watches, NEW k \in Watches, NEW b \in Watches,
         Commits(C, p, k, b), NEW j \in Watches
  PROVE  /\ jobs[j] = NoPush => jobs'[j] = NoPush
         /\ jobs[j] # NoPush =>
               /\ jobs'[j] \in Push
               /\ jobs'[j].sync = IF jobs[j].sync \in SyncsOf(C) THEN k ELSE jobs[j].sync
               /\ jobs'[j].watch = IF jobs[j].watch \in C \/ jobs[j].sync \in SyncsOf(C) THEN p ELSE jobs[j].watch
<1>1. jobs'[j] = IF jobs[j] = NoPush THEN NoPush ELSE Repointed(jobs[j], k, p, C) BY DEF Commits, Merged
<1>2. CASE jobs[j] # NoPush
  <2>1. jobs[j] \in Push BY <1>2 DEF MergeInv, MergeShape
  <2>2. jobs'[j] = [jobs[j] EXCEPT !.sync = IF jobs[j].sync \in SyncsOf(C) THEN k ELSE jobs[j].sync,
                      !.watch = IF jobs[j].watch \in C \/ jobs[j].sync \in SyncsOf(C) THEN p ELSE jobs[j].watch]
    BY <1>1, <1>2 DEF Repointed
  <2> QED BY <1>2, <2>1, <2>2 DEF Push
<1> QED BY <1>1, <1>2

LEMMA MergeHolds ==
  ASSUME MergeInv, Merge
  PROVE  MergeInv'
<1>1. PICK C \in SUBSET Watches, p, k, b \in Watches : Commits(C, p, k, b) BY MergeCommits
<1>2. merge # NoMerge /\ merge \in Merges /\ C \in merge.left /\ C \in Clusters(merge.watches)
  BY <1>1 DEF Commits, MergeInv, MergeShape
<1>3. watches' \in Histories BY <1>1 DEF Commits, Merged, MergeInv, MergeShape, Histories
<1>4. syncs' \in SyncTables
  <2>1. \A s \in Watches : syncs'[s] \in Sync \cup {NoWatchSync}
    <3>1. SUFFICES ASSUME NEW s \in Watches PROVE syncs'[s] \in Sync \cup {NoWatchSync} OBVIOUS
    <3>2. CASE s \in SyncsOf(C) /\ s = k BY <1>1, <3>2, SyncKept
    <3>3. CASE ~(s \in SyncsOf(C) /\ s = k)
      BY <1>1, <3>3, SyncsElsewhere DEF MergeInv, MergeShape, SyncTables
    <3> QED BY <3>2, <3>3
  <2>2. syncs' = [s \in Watches |-> syncs'[s]] BY <1>1 DEF Commits, Merged
  <2> QED BY <2>1, <2>2 DEF SyncTables
<1>5. jobs' \in [Watches -> Push \cup {NoPush}]
  <2>1. \A j \in Watches : jobs'[j] \in Push \cup {NoPush} BY <1>1, JobsFollow
  <2>2. jobs' = [j \in Watches |-> jobs'[j]] BY <1>1 DEF Commits, Merged
  <2> QED BY <2>1, <2>2
<1>6. PICK y : y = [merge EXCEPT !.left = merge.left \ {C}, !.now = {}] OBVIOUS
<1>7. y \in Merges /\ y.left = merge.left \ {C} /\ y.now = {} /\ y.watches = merge.watches
  BY <1>2, <1>6 DEF Merges
<1>8. merge' = y /\ UNCHANGED edited /\ pushed' = {} BY <1>1, <1>6 DEF Commits, Merged
<1>9. MergeShape' BY <1>2, <1>3, <1>4, <1>5, <1>7, <1>8 DEF MergeInv, MergeShape
<1>10. AsLoaded'
  <2>1. SUFFICES ASSUME NEW D \in merge.left \ {C}, NEW w \in D
                 PROVE  watches'[w] # NoWatch /\ (watches'[w] = merge.watches[w] \/ w \in edited)
    BY <1>7, <1>8 DEF AsLoaded
  <2>2. D \in Clusters(merge.watches) /\ w \in Watches /\ merge.watches \in Histories
    BY <1>2 DEF MergeInv, MergeShape, Merges
  <2>3. w \notin C BY <1>2, <2>1, <2>2, GroupsApart
  <2>4. watches'[w] = watches[w] BY <1>1, <2>2, <2>3 DEF Commits, Merged
  <2> QED BY <1>2, <2>4 DEF MergeInv, AsLoaded
<1>11. SyncsAsRead' BY <1>7, <1>8 DEF SyncsAsRead
<1>12. Owned'
  <2>1. SUFFICES ASSUME NEW s \in Watches, syncs'[s] # NoWatchSync PROVE watches'[s] # NoWatch BY DEF Owned
  <2>2. syncs[s] # NoWatchSync BY <1>1, <2>1, SyncsElsewhere DEF Commits
  <2>3. watches[s] # NoWatch BY <2>2 DEF MergeInv, Owned
  <2>4. watches'[s] \in {GoneWatch, watches[s]} BY <1>1 DEF Commits, Merged
  <2> QED BY <2>3, <2>4, GoneIs
<1> QED BY <1>9, <1>10, <1>11, <1>12 DEF MergeInv

-----------------------------------------------------------------------------
(* What a commit does to plays, syncs and jobs.                            *)

\* A watch of another group stays; one of the group has its name and day in the one that does.
LEMMA WatchesStay ==
  ASSUME MergeInv, Unedited, NEW C \in SUBSET Watches, NEW p \in Watches, NEW k \in Watches, NEW b \in Watches,
         Commits(C, p, k, b), NEW w \in There(watches)
  PROVE  /\ w \in Watches
         /\ w \notin C \/ w = p => w \in There(watches)' /\ watches'[w] = watches[w]
         /\ w \in C => p \in There(watches)' /\ watches'[p] = watches[p] /\ Same(watches[p], watches[w])
<1>1. w \in Watches /\ p \in C /\ C \in merge.left /\ merge # NoMerge /\ C \in Clusters(merge.watches)
  BY DEF There, Commits
<1>2. \A v \in Watches : v \notin C \/ v = p => watches'[v] = watches[v] BY DEF Commits, Merged
<1>3. ASSUME w \in C PROVE Same(watches[p], watches[w]) /\ watches[p] \notin {NoWatch, GoneWatch}
  <2>1. merge.watches \in Histories BY <1>1 DEF MergeInv, MergeShape, Merges
  <2>2. watches[p] = merge.watches[p] /\ watches[w] = merge.watches[w]
    BY <1>1, <1>3 DEF MergeInv, AsLoaded, Unedited, Commits
  <2>3. C \subseteq There(merge.watches) /\ Same(merge.watches[p], merge.watches[w])
    BY <1>1, <1>3, <2>1, GroupsApart
  <2> QED BY <1>1, <2>2, <2>3 DEF There
<1>4. w \notin C \/ w = p => w \in There(watches)' /\ watches'[w] = watches[w] BY <1>1, <1>2 DEF There
<1>5. w \in C => p \in There(watches)' /\ watches'[p] = watches[p] BY <1>2, <1>3 DEF There
<1> QED BY <1>1, <1>3, <1>4, <1>5

LEMMA PlaysKept ==
  ASSUME MergeInv, Unedited, Merge, NEW m \in Media, NEW d \in Days, Played(NameOf[m], d)
  PROVE  Played(NameOf[m], d)'
<1>1. PICK C \in SUBSET Watches, p, k, b \in Watches : Commits(C, p, k, b) BY MergeCommits
<1>2. PICK w \in There(watches) : NameOf[watches[w].media] = NameOf[m] /\ watches[w].day = d BY DEF Played
<1>3. CASE w \notin C BY <1>1, <1>2, <1>3, WatchesStay DEF Played
<1>4. CASE w \in C
  <2>1. p \in There(watches)' /\ watches'[p] = watches[p] /\ Same(watches[p], watches[w])
    BY <1>1, <1>4, WatchesStay
  <2> QED BY <1>2, <2>1 DEF Played, Same
<1> QED BY <1>3, <1>4

\* The syncs of the group are those it read.
LEMMA SyncsRead ==
  ASSUME MergeInv, AsRead, NEW C \in SUBSET Watches, NEW p \in Watches, NEW k \in Watches, NEW b \in Watches,
         Commits(C, p, k, b), NEW s \in Watches
  PROVE  /\ s \in SyncsOf(C) <=> syncs[s] # NoWatchSync /\ syncs[s].watch \in C
         /\ s \in SyncsOf(C) => ReadSyncs[s] = syncs[s]
<1>1. C = merge.now /\ C # {} /\ merge # NoMerge BY DEF Commits
<1>2. \A x \in {syncs[s], merge.syncs[s]} : x # NoWatchSync /\ x.watch \in C => syncs[s] = merge.syncs[s]
  BY <1>1 DEF MergeInv, SyncsAsRead, AsRead
<1> QED BY <1>2 DEF SyncsOf, ReadSyncs

LEMMA KnownKept ==
  ASSUME MergeInv, AsRead, Merge, NEW m \in Media, NEW d \in Days, Known(NameOf[m], d)
  PROVE  Known(NameOf[m], d)'
<1>1. PICK C \in SUBSET Watches, p, k, b \in Watches : Commits(C, p, k, b) BY MergeCommits
<1>2. PICK s \in Watches : /\ syncs[s] # NoWatchSync /\ syncs[s].ext /\ syncs[s].watch \in There(watches)
                           /\ NameOf[watches[syncs[s].watch].media] = NameOf[m]
                           /\ watches[syncs[s].watch].day = d
  BY DEF Known
<1>3. PICK w : w = syncs[s].watch OBVIOUS
<1>4. (s \in SyncsOf(C) <=> w \in C) /\ (s \in SyncsOf(C) => ReadSyncs[s] = syncs[s]) /\ Unedited
  BY <1>1, <1>2, <1>3, SyncsRead DEF AsRead
<1>5. CASE w \notin C
  <2>1. syncs'[s] = syncs[s] BY <1>1, <1>3, <1>4, <1>5, SyncsElsewhere
  <2>2. w \in There(watches)' /\ watches'[w] = watches[w] BY <1>1, <1>2, <1>3, <1>4, <1>5, WatchesStay
  <2> QED BY <1>2, <1>3, <2>1, <2>2 DEF Known
<1>6. CASE w \in C
  <2>1. SyncsOf(C) # {} /\ AtProvider(C) BY <1>2, <1>4, <1>6 DEF AtProvider
  <2>2. syncs'[k] \in Sync /\ syncs'[k].watch = p /\ syncs'[k].ext
    <3>1. /\ syncs'[k] \in Sync /\ syncs'[k].watch = p
          /\ syncs'[k].ext = IF AtProvider(C) # ReadSyncs[k].ext THEN AtProvider(C) ELSE syncs[k].ext
      BY <1>1, <2>1, SyncKept
    <3>2. k \in SyncsOf(C) /\ syncs[k] # NoWatchSync BY <1>1, <2>1 DEF Commits
    <3>3. ReadSyncs[k] = syncs[k] /\ syncs[k].ext \in BOOLEAN
      BY <1>1, <3>2, SyncsRead DEF MergeInv, MergeShape, SyncTables, Sync
    <3>4. AtProvider(C) = TRUE BY <2>1 DEF AtProvider
    <3>5. syncs'[k].ext = IF TRUE # syncs[k].ext THEN TRUE ELSE syncs[k].ext BY <3>1, <3>3, <3>4
    <3> QED BY <3>1, <3>3, <3>5
  <2>3. p \in There(watches)' /\ watches'[p] = watches[p] /\ Same(watches[p], watches[w])
    BY <1>1, <1>2, <1>3, <1>4, <1>6, WatchesStay
  <2>4. syncs'[k] # NoWatchSync BY <2>2, SyncIs
  <2> QED BY <1>2, <1>3, <2>2, <2>3, <2>4 DEF Known, Same
<1> QED BY <1>5, <1>6

LEMMA JobsKept ==
  ASSUME MergeInv, AsRead, Merge, NEW j \in Watches, jobs[j].status = "pending", Served(j)
  PROVE  Served(j)'
<1>1. PICK C \in SUBSET Watches, p, k, b \in Watches : Commits(C, p, k, b) BY MergeCommits
<1>2. jobs[j] # NoPush /\ jobs[j] \in Push BY DEF NoPush, MergeInv, MergeShape
<1>3. PICK s, w : s = jobs[j].sync /\ w = jobs[j].watch OBVIOUS
<1>4. s \in Watches /\ w \in There(watches) /\ syncs[s] # NoWatchSync /\ syncs[s].watch = w
  BY <1>2, <1>3 DEF Served, Push
<1>5. (s \in SyncsOf(C) <=> w \in C) /\ Unedited BY <1>1, <1>4, SyncsRead DEF AsRead
<1>6. /\ jobs'[j].sync = IF s \in SyncsOf(C) THEN k ELSE s
      /\ jobs'[j].watch = IF w \in C \/ s \in SyncsOf(C) THEN p ELSE w
  BY <1>1, <1>2, <1>3, JobsFollow
<1>7. CASE w \in C
  <2>1. jobs'[j].sync = k /\ jobs'[j].watch = p BY <1>5, <1>6, <1>7
  <2>2. p \in There(watches)' BY <1>1, <1>4, <1>5, <1>7, WatchesStay
  <2>3. syncs'[k] \in Sync /\ syncs'[k].watch = p BY <1>1, <1>5, <1>7, SyncKept
  <2> QED BY <2>1, <2>2, <2>3, SyncIs DEF Served
<1>8. CASE w \notin C
  <2>1. jobs'[j].sync = s /\ jobs'[j].watch = w BY <1>5, <1>6, <1>8
  <2>2. w \in There(watches)' BY <1>1, <1>4, <1>5, <1>8, WatchesStay
  <2>3. syncs'[s] = syncs[s] BY <1>1, <1>4, <1>5, <1>8, SyncsElsewhere
  <2> QED BY <1>4, <2>1, <2>2, <2>3 DEF Served
<1> QED BY <1>7, <1>8

-----------------------------------------------------------------------------

LEMMA MergeInitHolds == MergeInit => MergeInv
BY DEF MergeInit, MergeInv, MergeShape, AsLoaded, SyncsAsRead, Owned, Histories, SyncTables

LEMMA MergeNextHolds == MergeInv /\ [MergeNext]_mergeVars => MergeInv'
<1> SUFFICES ASSUME MergeInv, [MergeNext]_mergeVars PROVE MergeInv'
  OBVIOUS
<1>1. CASE UNCHANGED mergeVars
  BY <1>1 DEF mergeVars, MergeInv, MergeShape, AsLoaded, SyncsAsRead, Owned
<1>2. CASE MergeNext
  BY <1>2, NewHolds, UserHolds, WorkerHolds, LoadHolds, BeginGroupHolds, StopHolds, MergeHolds DEF MergeNext
<1> QED BY <1>1, <1>2

LEMMA MergeInvariance == MergeSpec => []MergeInv
BY MergeInitHolds, MergeNextHolds, PTL DEF MergeSpec

\* A step of a merge is a commit, or changes neither watches nor syncs nor jobs.
LEMMA MergeSteps ==
  ASSUME MergeInv, [MergeNext]_mergeVars, MergeStep, ~Merge
  PROVE  UNCHANGED <<watches, syncs, jobs>>
<1>1. merge' # merge /\ merge # NoMerge BY LoadedIs DEF MergeStep, MergeInv
<1>2. MergeNext BY <1>1 DEF mergeVars
<1> QED
  BY <1>1, <1>2 DEF MergeNext, AddWatched, Import, New, DeleteWatch, QueuePush, Update, ClaimPush, Deliver, Load,
     EndMerge, FailMerge, BeginGroup

\* Watches, their syncs and jobs keep their types.
THEOREM MergeTypes == MergeSpec => []MergeTypeOK
<1>1. MergeInv => MergeTypeOK
  BY DEF MergeInv, MergeShape, MergeTypeOK, Histories, SyncTables, Watch, Sync, Push
<1> QED BY <1>1, MergeInvariance, PTL

\* The merge of duplicates loses no play, unless the user changed a watch of the group since
\* the load; and forgets nothing that the provider is known to have, and takes queued pushes
\* along, unless moreover a sync of the group has changed since it was read.
THEOREM MergesLoseNothing == MergeSpec => NoPlayLost
<1>1. ASSUME MergeInv, [MergeNext]_mergeVars
      PROVE  /\ [(MergeStep /\ Unedited) =>
                   \A m \in Media, d \in Days : Played(NameOf[m], d) => Played(NameOf[m], d)']_mergeVars
             /\ [(MergeStep /\ AsRead) =>
                   \A m \in Media, d \in Days : Known(NameOf[m], d) => Known(NameOf[m], d)']_mergeVars
             /\ [(MergeStep /\ AsRead) =>
                   \A j \in Watches : (jobs[j].status = "pending" /\ Served(j)) => Served(j)']_mergeVars
  <2> SUFFICES ASSUME MergeStep
      PROVE  /\ Unedited => \A m \in Media, d \in Days : Played(NameOf[m], d) => Played(NameOf[m], d)'
             /\ AsRead => \A m \in Media, d \in Days : Known(NameOf[m], d) => Known(NameOf[m], d)'
             /\ AsRead => \A j \in Watches : (jobs[j].status = "pending" /\ Served(j)) => Served(j)'
    OBVIOUS
  <2>1. CASE Merge BY <1>1, <2>1, PlaysKept, KnownKept, JobsKept
  <2>2. CASE ~Merge
    <3>1. UNCHANGED <<watches, syncs, jobs>> BY <1>1, <2>2, MergeSteps
    <3> QED BY <3>1 DEF Played, Known, Served, There
  <2> QED BY <2>1, <2>2
<1> QED BY <1>1, MergeInvariance, PTL DEF MergeSpec, NoPlayLost, PlaysStay, KnownStaysKnown, JobsMoveAlong

-----------------------------------------------------------------------------
(* Merges of titles *)

EpisodeRows == [show : MediaItems, number : {1, 2}, id : EpisodeIds]
ItemRows == [media : MediaItems, status : ListStatus, links : SUBSET ListSources]
QueueRows ==
    [kind : {"update", "push", "remove"}, at : MediaItems,
     status : {"waiting", "running", "done", "deleted"}]
EpisodeTables == [Episodes -> EpisodeRows \cup {NoEpisode}]
ItemTables == [MediaItems -> ItemRows \cup {NoItem, Unlisted}]
SeenTables ==
    [WatchRows -> [of : MediaItems \cup Episodes \cup {"none", "lost"}, names : SUBSET (Ids \cup DeletedRow)]]
Requests ==
    [step : {"load", "repoint", "flush"}, target : MediaItems, source : MediaItems,
     submit : SUBSET Ids, episodes : EpisodeTables, items : ItemTables,
     outbox : Seq(QueueRows), plays : SUBSET WatchRows]

\* A row has at most one item on the list.
OneEach(its) == \A r \in MediaItems : \A o, p \in ItemOf(its, r) : o = p

UpdateShape ==
    /\ series \in BOOLEAN /\ ids \in [MediaItems -> (SUBSET Ids) \cup {DeletedRow}]
    /\ episodes \in EpisodeTables /\ \A e \in Episodes : episodes[e] # NoEpisode => Exists(episodes[e].show)
    /\ seen \in SeenTables
    /\ items \in ItemTables /\ \A o \in MediaItems : Listed(o) => Exists(items[o].media)
    /\ OneEach(items)
    /\ outbox \in Seq(QueueRows) /\ Len(outbox) <= MaxQueued + 1
    /\ update \in Requests \cup {NoUpdate}

\* What a request has read stays so, but for an item that is removed.
ReadStays ==
    update # NoUpdate =>
        /\ update.source # update.target /\ Exists(update.source) /\ Exists(update.target)
        /\ \A e \in Episodes : update.episodes[e] # NoEpisode => episodes[e] = update.episodes[e]
        /\ OneEach(update.items)
        /\ \A o \in MediaItems : update.items[o] \in ItemRows => items[o] \in {update.items[o], Unlisted}
        /\ ~disturbed => items = update.items /\ outbox = update.outbox

\* The plays its statements have found are of what is to go, and all that were there.
PlaysRead ==
    update # NoUpdate =>
        /\ \A w \in update.plays : seen[w].of \in Matched \cup {update.source}
        /\ update.step \in {"repoint", "flush"} =>
              \A w \in WatchRows \ late : seen[w].of \in Matched => w \in update.plays
        /\ update.step = "flush" =>
              \A w \in WatchRows \ late : seen[w].of = update.source => w \in update.plays

UpdateInv == UpdateShape /\ ReadStays /\ PlaysRead

LEMMA EpisodeIs ==
    ASSUME NEW x \in EpisodeRows \cup {NoEpisode}
    PROVE  /\ x # NoEpisode <=> x \in EpisodeRows
           /\ x # NoEpisode <=> x.show \in MediaItems
           /\ x # NoEpisode => x.number \in {1, 2} /\ x.id \in EpisodeIds
  BY NamesAssumption DEF EpisodeRows, NoEpisode

LEMMA ItemIs ==
    ASSUME NEW x \in ItemRows \cup {NoItem, Unlisted}
    PROVE  /\ x \notin {NoItem, Unlisted} <=> x \in ItemRows
           /\ x \in ItemRows <=> x.media \in MediaItems
           /\ x \in ItemRows => x.status \in ListStatus /\ x.links \subseteq ListSources
  BY NamesAssumption DEF ItemRows, NoItem, Unlisted

LEMMA NoItems == Unlisted # NoItem /\ NoItem \notin ItemRows /\ Unlisted \notin ItemRows
  BY NamesAssumption DEF ItemRows, NoItem, Unlisted

LEMMA RequestIs ==
    /\ \A u \in Requests : u # NoUpdate
    /\ NoUpdate.step = "idle"
  BY DEF Requests, NoUpdate

LEMMA IdsExist == \A I \in SUBSET Ids : I # DeletedRow
<1>1. <<"gone", "gone">> \notin Ids
    BY NamesAssumption DEF Ids
<1> QED
    BY <1>1 DEF DeletedRow

LEMMA ShapeIsType == UpdateShape => UpdateTypeOK
<1> SUFFICES ASSUME UpdateShape PROVE UpdateTypeOK
    OBVIOUS
<1>1. ASSUME NEW r \in MediaItems, Exists(r) PROVE ids[r] \subseteq Ids
    BY <1>1 DEF UpdateShape, Exists
<1>2. ASSUME NEW e \in Episodes, episodes[e] # NoEpisode
      PROVE  /\ episodes[e] \in [show : MediaItems, number : {1, 2}, id : EpisodeIds]
             /\ Exists(episodes[e].show)
    BY <1>2, EpisodeIs DEF UpdateShape, EpisodeTables, EpisodeRows
<1>3. ASSUME NEW w \in WatchRows PROVE seen[w].of \in MediaItems \cup Episodes \cup {"none", "lost"}
    BY DEF UpdateShape, SeenTables
<1>4. ASSUME NEW o \in MediaItems, Listed(o)
      PROVE  /\ items[o] \in [media : MediaItems, status : ListStatus, links : SUBSET ListSources]
             /\ Exists(items[o].media)
    BY <1>4, ItemIs DEF UpdateShape, ItemTables, Listed, ItemRows
<1> QED
    BY <1>1, <1>2, <1>3, <1>4 DEF UpdateTypeOK, UpdateShape, QueueRows

LEMMA PlaysReadStays ==
    ASSUME PlaysRead, UNCHANGED <<update, seen, late>>
    PROVE  PlaysRead'
  BY DEF PlaysRead, Matched, Moving, MatchesOf, EpisodesOf

LEMMA ReadReadStays ==
    ASSUME ReadStays, UNCHANGED <<ids, update>>,
           \A e \in Episodes : episodes[e] # NoEpisode => episodes'[e] = episodes[e],
           \A o \in MediaItems : items[o] # NoItem => items'[o] \in {items[o], Unlisted},
           Unlisted # NoItem, \A o \in MediaItems : items[o] = Unlisted => items'[o] = Unlisted,
           NoItem \notin ItemRows,
           disturbed' = Busy \/ UNCHANGED <<items, outbox, disturbed>>
    PROVE  ReadStays'
<1> SUFFICES ASSUME update # NoUpdate PROVE ReadStays'
    BY Zenon DEF ReadStays
<1>1. \A e \in Episodes : update.episodes[e] # NoEpisode => episodes'[e] = update.episodes[e]
    BY DEF ReadStays
<1>2. \A o \in MediaItems : update.items[o] \in ItemRows => items'[o] \in {update.items[o], Unlisted}
    BY DEF ReadStays
<1>3. update.source # update.target /\ ids'[update.source] # DeletedRow /\ ids'[update.target] # DeletedRow
      /\ OneEach(update.items)
    BY DEF ReadStays, Exists
<1>4. ~disturbed' => items' = update.items /\ outbox' = update.outbox
    <2>1. CASE disturbed' = Busy
        BY <2>1, Zenon DEF Busy
    <2>2. CASE UNCHANGED <<items, outbox, disturbed>>
        BY <2>2, Zenon DEF ReadStays
    <2> QED
        BY <2>1, <2>2
<1>5. update' = update
    OBVIOUS
<1> HIDE DEF ReadStays
<1> QED
    BY <1>1, <1>2, <1>3, <1>4, <1>5 DEF ReadStays, Exists, OneEach, ItemOf

LEMMA AddEpisodeHolds ==
    ASSUME UpdateInv, NEW e \in Episodes, NEW r \in MediaItems, NEW n \in {1, 2}, NEW i \in EpisodeIds,
           AddEpisode(e, r, n, i)
    PROVE  UpdateInv'
<1> DEFINE new == [show |-> r, number |-> n, id |-> i]
<1>1. /\ Exists(r) /\ episodes[e] = NoEpisode /\ episodes' = [episodes EXCEPT ![e] = new] /\ disturbed' = Busy
      /\ UNCHANGED <<series, ids, seen, items, outbox, update, late>>
    BY DEF AddEpisode
<1>2. new \in EpisodeRows /\ new # NoEpisode /\ new.show = r
    BY NamesAssumption DEF EpisodeRows, NoEpisode
<1> HIDE DEF new
<1>3. episodes \in EpisodeTables
    BY DEF UpdateInv, UpdateShape
<1>4. episodes' \in EpisodeTables /\ \A f \in Episodes : episodes'[f] = IF f = e THEN new ELSE episodes[f]
    BY <1>1, <1>2, <1>3 DEF EpisodeTables
<1>5. \A f \in Episodes : episodes'[f] # NoEpisode => ids[episodes'[f].show] # DeletedRow
    BY <1>1, <1>2, <1>4 DEF UpdateInv, UpdateShape, Exists
<1>6. UpdateShape'
    BY <1>1, <1>4, <1>5 DEF UpdateInv, UpdateShape, OneEach, ItemOf, Exists, Listed
<1>7. ReadStays'
    BY <1>1, <1>4, NoItems, ReadReadStays DEF UpdateInv
<1>8. PlaysRead'
    BY <1>1, PlaysReadStays DEF UpdateInv
<1> QED
    BY <1>6, <1>7, <1>8 DEF UpdateInv

LEMMA AddWatchHolds ==
    ASSUME UpdateInv, NEW w \in WatchRows, NEW x \in MediaItems \cup Episodes, NEW push \in BOOLEAN,
           AddWatch(w, x, push)
    PROVE  UpdateInv'
<1> DEFINE named == IF push THEN ids[TitleOf(episodes, x)] ELSE NotPushed
           missed == Busy /\ (update.step = "flush" \/ (series /\ update.step = "repoint"))
           new == [of |-> x, names |-> named]
<1>1. /\ seen[w] = NoPlay /\ seen' = [seen EXCEPT ![w] = new]
      /\ late' = IF missed THEN late \cup {w} ELSE late
      /\ series \/ x \in MediaItems
      /\ (series /\ x \in Episodes /\ episodes[x] # NoEpisode) \/ x \in MediaItems
      /\ UNCHANGED <<series, ids, episodes, items, outbox, update, disturbed>>
    BY DEF AddWatch
<1>2. named \subseteq Ids \cup DeletedRow
    <2>1. TitleOf(episodes, x) \in MediaItems
        BY <1>1, EpisodeIs DEF TitleOf, UpdateInv, UpdateShape, EpisodeTables
    <2> QED
        BY <2>1 DEF UpdateInv, UpdateShape, NotPushed
<1> HIDE DEF named
<1>3. new \in [of : MediaItems \cup Episodes \cup {"none", "lost"}, names : SUBSET (Ids \cup DeletedRow)] /\ new.of = x
    BY <1>2
<1> HIDE DEF new
<1>4. seen \in SeenTables
    BY DEF UpdateInv, UpdateShape
<1>5. seen' \in SeenTables /\ \A v \in WatchRows : seen'[v] = IF v = w THEN new ELSE seen[v]
    BY <1>1, <1>3, <1>4 DEF SeenTables
<1>6. UpdateShape'
    BY <1>1, <1>5 DEF UpdateInv, UpdateShape, OneEach, ItemOf, Exists, Listed
<1>7. ReadStays'
    BY <1>1, NoItems, ReadReadStays DEF UpdateInv
<1>8. PlaysRead'
    <2> SUFFICES ASSUME update # NoUpdate PROVE PlaysRead'
        BY <1>1 DEF PlaysRead
    <2>1. update \in Requests /\ update.plays \subseteq WatchRows /\ update.source \in MediaItems
        BY DEF UpdateInv, UpdateShape, Requests
    <2>2. Matched' = Matched /\ Matched \subseteq Episodes
        BY <1>1 DEF Matched, Moving, MatchesOf, EpisodesOf
    <2>3. w \notin update.plays
        BY <1>1, <2>1, <2>2, NamesAssumption DEF UpdateInv, PlaysRead, NoPlay
    <2>4. ASSUME NEW v \in update.plays PROVE seen'[v].of \in Matched \cup {update.source}
        BY <2>1, <2>3, <1>5 DEF UpdateInv, PlaysRead
    <2>5. ASSUME update.step \in {"repoint", "flush"}, NEW v \in WatchRows \ late', seen'[v].of \in Matched
          PROVE  v \in update.plays
        <3>1. v # w
            BY <2>5, <2>2, <1>1, <1>3, <1>5, NamesAssumption DEF Busy
        <3> QED
            BY <3>1, <2>5, <1>1, <1>5 DEF UpdateInv, PlaysRead
    <2>6. ASSUME update.step = "flush", NEW v \in WatchRows \ late', seen'[v].of = update.source
          PROVE  v \in update.plays
        BY <2>6, <1>1, <1>5 DEF UpdateInv, PlaysRead, Busy
    <2> QED
        BY <2>2, <2>4, <2>5, <2>6, <1>1 DEF PlaysRead
<1> QED
    BY <1>6, <1>7, <1>8 DEF UpdateInv

LEMMA AddItemHolds ==
    ASSUME UpdateInv, NEW r \in MediaItems, NEW status \in ListStatus, NEW links \in SUBSET ListSources,
           AddItem(r, status, links)
    PROVE  UpdateInv'
<1> DEFINE new == [media |-> r, status |-> status, links |-> links]
<1>1. /\ Exists(r) /\ items[r] = NoItem /\ items' = [items EXCEPT ![r] = new] /\ disturbed' = Busy
      /\ \A o \in MediaItems : Listed(o) => items[o].media # r
      /\ UNCHANGED <<series, ids, episodes, seen, outbox, update, late>>
    BY DEF AddItem
<1>2. new \in ItemRows /\ new.media = r
    BY DEF ItemRows
<1> HIDE DEF new
<1>3. items \in ItemTables
    BY DEF UpdateInv, UpdateShape
<1>4. items' \in ItemTables /\ \A o \in MediaItems : items'[o] = IF o = r THEN new ELSE items[o]
    BY <1>1, <1>2, <1>3 DEF ItemTables
<1>5. \A o \in MediaItems : items'[o] \notin {NoItem, Unlisted} => ids[items'[o].media] # DeletedRow
    BY <1>1, <1>2, <1>4 DEF UpdateInv, UpdateShape, Exists, Listed
<1>6. OneEach(items')
    <2>1. ASSUME NEW q \in MediaItems, NEW o \in MediaItems, NEW p \in MediaItems,
                 items'[o].media = q, items'[p].media = q
          PROVE  o = p
        <3>1. \A v \in MediaItems : items[v].media = r => Listed(v)
            BY <1>3, ItemIs DEF ItemTables, Listed
        <3> QED
            BY <3>1, <2>1, <1>1, <1>2, <1>4 DEF UpdateInv, UpdateShape, OneEach, ItemOf
    <2> QED
        BY <2>1 DEF OneEach, ItemOf
<1>7. UpdateShape'
    BY <1>1, <1>4, <1>5, <1>6 DEF UpdateInv, UpdateShape, OneEach, ItemOf, Exists, Listed
<1>8. ReadStays'
    BY <1>1, <1>4, NoItems, ReadReadStays DEF UpdateInv
<1>9. PlaysRead'
    BY <1>1, PlaysReadStays DEF UpdateInv
<1> QED
    BY <1>7, <1>8, <1>9 DEF UpdateInv

LEMMA RemoveItemHolds ==
    ASSUME UpdateInv, NEW o \in MediaItems, RemoveItem(o)
    PROVE  UpdateInv'
<1>1. /\ Listed(o) /\ items' = [items EXCEPT ![o] = Unlisted] /\ disturbed' = Busy
      /\ UNCHANGED <<series, ids, episodes, seen, outbox, update, late>>
    BY DEF RemoveItem
<1>2. items \in ItemTables
    BY DEF UpdateInv, UpdateShape
<1>3. items' \in ItemTables /\ \A p \in MediaItems : items'[p] = IF p = o THEN Unlisted ELSE items[p]
    BY <1>1, <1>2 DEF ItemTables
<1>4. Unlisted.media \notin MediaItems
    BY NamesAssumption DEF Unlisted
<1>5. OneEach(items')
    BY <1>3, <1>4 DEF UpdateInv, UpdateShape, OneEach, ItemOf
<1>6. \A p \in MediaItems : items'[p] \notin {NoItem, Unlisted} => ids[items'[p].media] # DeletedRow
    BY <1>3 DEF UpdateInv, UpdateShape, Exists, Listed
<1>7. UpdateShape'
    BY <1>1, <1>3, <1>5, <1>6 DEF UpdateInv, UpdateShape, OneEach, ItemOf, Exists, Listed
<1>8. ReadStays'
    BY <1>1, <1>3, NoItems, ReadReadStays DEF UpdateInv
<1>9. PlaysRead'
    BY <1>1, PlaysReadStays DEF UpdateInv
<1> QED
    BY <1>7, <1>8, <1>9 DEF UpdateInv

LEMMA OutboxHolds ==
    ASSUME UpdateInv, UNCHANGED <<series, ids, episodes, seen, items, update, late>>, disturbed' = Busy,
           outbox' \in Seq(QueueRows), Len(outbox') <= MaxQueued + 1
    PROVE  UpdateInv'
<1>1. UpdateShape'
    BY DEF UpdateInv, UpdateShape, OneEach, ItemOf, Exists, Listed
<1>2. ReadStays'
    BY NoItems, ReadReadStays DEF UpdateInv
<1>3. PlaysRead'
    BY PlaysReadStays DEF UpdateInv
<1> QED
    BY <1>1, <1>2, <1>3 DEF UpdateInv

LEMMA EnqueueHolds ==
    ASSUME UpdateInv, NEW k \in {"update", "push", "remove"}, NEW at \in MediaItems, Enqueue(k, at)
    PROVE  UpdateInv'
<1> DEFINE new == [kind |-> k, at |-> at, status |-> "waiting"]
<1>1. /\ Len(outbox) < MaxQueued /\ outbox' = Append(outbox, new) /\ disturbed' = Busy
      /\ UNCHANGED <<series, ids, episodes, seen, items, update, late>>
    BY DEF Enqueue
<1>2. new \in QueueRows
    BY DEF QueueRows
<1> HIDE DEF new
<1>3. outbox' \in Seq(QueueRows) /\ Len(outbox') <= MaxQueued + 1
    <2>1. outbox \in Seq(QueueRows) /\ MaxQueued \in Nat
        BY QueueAssumption DEF UpdateInv, UpdateShape
    <2> QED
        BY <2>1, <1>1, <1>2
<1> QED
    BY <1>1, <1>3, OutboxHolds

LEMMA QueueMovesOn ==
    ASSUME UpdateInv, NEW j \in DOMAIN outbox, ClaimQueued(j) \/ FinishQueued(j)
    PROVE  UpdateInv'
<1>1. /\ disturbed' = Busy /\ UNCHANGED <<series, ids, episodes, seen, items, update, late>>
      /\ \E status \in {"running", "done"} : outbox' = [outbox EXCEPT ![j].status = status]
    BY DEF ClaimQueued, FinishQueued
<1>2. outbox \in Seq(QueueRows) /\ Len(outbox) <= MaxQueued + 1
    BY DEF UpdateInv, UpdateShape
<1>3. outbox' \in Seq(QueueRows) /\ Len(outbox') <= MaxQueued + 1
    <2>1. PICK status \in {"running", "done"} : outbox' = [outbox EXCEPT ![j].status = status]
        BY <1>1
    <2> DEFINE new == [outbox[j] EXCEPT !.status = status]
    <2>2. outbox[j] \in QueueRows
        BY <1>2
    <2>3. new \in QueueRows /\ outbox' = [outbox EXCEPT ![j] = new]
        BY <2>1, <2>2 DEF QueueRows
    <2> HIDE DEF new
    <2> QED
        BY <2>3, <1>2
<1> QED
    BY <1>1, <1>3, OutboxHolds

LEMMA BeginUpdateHolds ==
    ASSUME UpdateInv, NEW t \in MediaItems, NEW s \in MediaItems, NEW submit \in SUBSET Ids,
           BeginUpdate(t, s, submit)
    PROVE  UpdateInv'
<1>1. /\ Exists(t) /\ Exists(s) /\ s # t /\ disturbed' = FALSE /\ late' = {}
      /\ update' = [step |-> "load", target |-> t, source |-> s, submit |-> submit,
                    episodes |-> episodes, items |-> items, outbox |-> outbox, plays |-> {}]
      /\ UNCHANGED <<series, ids, episodes, seen, items, outbox, count>>
    BY DEF BeginUpdate
<1>2. update' \in Requests /\ update'.step = "load" /\ update'.plays = {}
      /\ update'.target = t /\ update'.source = s
      /\ update'.episodes = episodes /\ update'.items = items /\ update'.outbox = outbox
    BY <1>1 DEF UpdateInv, UpdateShape, Requests
<1>3. UpdateShape'
    BY <1>1, <1>2 DEF UpdateInv, UpdateShape, OneEach, ItemOf, Exists, Listed
<1>4. ReadStays'
    <2>1. OneEach(items)
        BY DEF UpdateInv, UpdateShape
    <2> QED
        BY <2>1, <1>1, <1>2 DEF ReadStays, Exists, OneEach, ItemOf
<1>5. PlaysRead'
    BY <1>2 DEF PlaysRead
<1> QED
    BY <1>3, <1>4, <1>5 DEF UpdateInv

LEMMA LoadRowsHolds ==
    ASSUME UpdateInv, LoadRows
    PROVE  UpdateInv'
<1> DEFINE found == {w \in WatchRows : seen[w].of \in Matched}
<1>1. /\ update.step = "load"
      /\ update' = [update EXCEPT !.step = "repoint", !.items = items, !.outbox = outbox, !.plays = found]
      /\ UNCHANGED <<series, ids, episodes, seen, items, outbox, disturbed, late, count>>
    BY DEF LoadRows
<1> HIDE DEF found
<1>2. update # NoUpdate /\ update \in Requests
    BY <1>1, RequestIs DEF UpdateInv, UpdateShape
<1>3. update' \in Requests /\ update' # NoUpdate /\ update'.step = "repoint" /\ update'.plays = found
      /\ update'.target = update.target /\ update'.source = update.source
      /\ update'.episodes = update.episodes /\ update'.items = items /\ update'.outbox = outbox
    <2>1. items \in ItemTables /\ outbox \in Seq(QueueRows) /\ found \in SUBSET WatchRows
        BY DEF UpdateInv, UpdateShape, found
    <2> QED
        BY <1>1, <1>2, <2>1, RequestIs DEF Requests
<1>4. UpdateShape'
    BY <1>1, <1>3 DEF UpdateInv, UpdateShape, OneEach, ItemOf, Exists, Listed
<1>5. ReadStays'
    <2>1. OneEach(items)
        BY DEF UpdateInv, UpdateShape
    <2> QED
        BY <2>1, <1>1, <1>2, <1>3 DEF UpdateInv, ReadStays, Exists, OneEach, ItemOf
<1>6. Matched' = Matched
    BY <1>3 DEF Matched, Moving, MatchesOf, EpisodesOf
<1>7. PlaysRead'
    BY <1>1, <1>3, <1>6 DEF PlaysRead, found
<1> QED
    BY <1>4, <1>5, <1>7 DEF UpdateInv

LEMMA RepointHolds ==
    ASSUME UpdateInv, Repoint
    PROVE  UpdateInv'
<1> DEFINE found == update.plays \cup {w \in WatchRows : seen[w].of = update.source}
<1>1. /\ update.step = "repoint"
      /\ update' = [update EXCEPT !.step = "flush", !.plays = found]
      /\ UNCHANGED <<series, ids, episodes, seen, items, outbox, disturbed, late, count>>
    BY DEF Repoint
<1>2. update # NoUpdate /\ update \in Requests
    BY <1>1, RequestIs DEF UpdateInv, UpdateShape
<1>3. found \subseteq WatchRows
    BY <1>2 DEF Requests
<1> HIDE DEF found
<1>4. update' \in Requests /\ update' # NoUpdate /\ update'.step = "flush" /\ update'.plays = found
      /\ update'.target = update.target /\ update'.source = update.source
      /\ update'.episodes = update.episodes /\ update'.items = update.items /\ update'.outbox = update.outbox
    BY <1>1, <1>2, <1>3, RequestIs DEF Requests
<1>5. UpdateShape'
    BY <1>1, <1>4 DEF UpdateInv, UpdateShape, OneEach, ItemOf, Exists, Listed
<1>6. ReadStays'
    BY <1>1, <1>2, <1>4 DEF UpdateInv, ReadStays, Exists, OneEach, ItemOf
<1>7. Matched' = Matched
    BY <1>4 DEF Matched, Moving, MatchesOf, EpisodesOf
<1>8. PlaysRead'
    BY <1>1, <1>2, <1>4, <1>7 DEF UpdateInv, PlaysRead, found
<1> QED
    BY <1>5, <1>6, <1>8 DEF UpdateInv

LEMMA FailUpdateHolds ==
    ASSUME UpdateInv, FailUpdate
    PROVE  UpdateInv'
  BY DEF UpdateInv, UpdateShape, ReadStays, PlaysRead, OneEach, ItemOf, Exists, Listed, FailUpdate

LEMMA Flushing ==
    ASSUME UpdateInv, update.step = "flush"
    PROVE  /\ update # NoUpdate /\ update \in Requests
           /\ update.source \in MediaItems /\ update.target \in MediaItems /\ update.source # update.target
           /\ update.episodes \in EpisodeTables /\ update.items \in ItemTables
           /\ update.outbox \in Seq(QueueRows) /\ update.submit \subseteq Ids /\ update.plays \subseteq WatchRows
           /\ Exists(update.source) /\ Exists(update.target)
           /\ Moving \subseteq Episodes /\ Matched \subseteq Moving
           /\ \A e \in Episodes : MatchesOf(e) \subseteq Episodes
  BY RequestIs DEF UpdateInv, UpdateShape, ReadStays, Requests, Moving, Matched, EpisodesOf, MatchesOf

\* What the flush makes of an episode.
LEMMA EpisodeMoves ==
    ASSUME UpdateInv, update.step = "flush", NEW e \in Episodes
    PROVE  /\ EpisodesAfter[e] \in EpisodeRows \cup {NoEpisode}
           /\ e \in Moving => episodes[e] # NoEpisode /\ episodes[e].show = update.source
           /\ e \in Moving \ Matched =>
                 /\ EpisodesAfter[e] # NoEpisode /\ EpisodesAfter[e].show = update.target
                 /\ EpisodesAfter[e].number = episodes[e].number /\ EpisodesAfter[e].id = episodes[e].id
           /\ e \notin Moving \ Matched =>
                 EpisodesAfter[e] = IF episodes[e].show = update.source THEN NoEpisode ELSE episodes[e]
<1>1. episodes[e] \in EpisodeRows \cup {NoEpisode}
    BY DEF UpdateInv, UpdateShape, EpisodeTables
<1>2. e \in Moving => episodes[e] # NoEpisode /\ episodes[e].show = update.source
    BY Flushing DEF UpdateInv, ReadStays, Moving, EpisodesOf
<1>3. CASE e \in Moving \ Matched
    <2> DEFINE new == [episodes[e] EXCEPT !.show = update.target]
    <2>1. episodes[e] \in EpisodeRows /\ update.target \in MediaItems
        BY <1>1, <1>2, <1>3, EpisodeIs, Flushing
    <2>2. new \in EpisodeRows /\ new.show = update.target /\ new.number = episodes[e].number /\ new.id = episodes[e].id
        BY <2>1 DEF EpisodeRows
    <2>3. EpisodesAfter[e] = new
        BY <1>3 DEF EpisodesAfter
    <2> HIDE DEF new
    <2> QED
        BY <2>2, <2>3, <1>2, <1>3, EpisodeIs
<1>4. CASE e \notin Moving \ Matched
    BY <1>1, <1>2, <1>4 DEF EpisodesAfter
<1> QED
    BY <1>3, <1>4

LEMMA EpisodesMove ==
    ASSUME UpdateInv, update.step = "flush"
    PROVE  /\ EpisodesAfter \in EpisodeTables
           /\ \A e \in Episodes : EpisodesAfter[e] # NoEpisode =>
                 /\ EpisodesAfter[e].show # update.source /\ Exists(EpisodesAfter[e].show)
                 /\ EpisodesAfter[e].show = update.target => episodes[e].show \in {update.source, update.target}
<1>1. EpisodesAfter \in EpisodeTables
    BY EpisodeMoves DEF EpisodeTables, EpisodesAfter
<1>2. ASSUME NEW e \in Episodes, EpisodesAfter[e] # NoEpisode
      PROVE  /\ EpisodesAfter[e].show # update.source /\ Exists(EpisodesAfter[e].show)
             /\ EpisodesAfter[e].show = update.target => episodes[e].show \in {update.source, update.target}
    <2>1. CASE e \in Moving \ Matched
        BY <2>1, EpisodeMoves, Flushing
    <2>2. CASE e \notin Moving \ Matched
        BY <2>2, <1>2, EpisodeMoves DEF UpdateInv, UpdateShape
    <2> QED
        BY <2>1, <2>2
<1> QED
    BY <1>1, <1>2

\* What the flush makes of a play.
LEMMA PlayMoves ==
    ASSUME UpdateInv, update.step = "flush", NEW w \in WatchRows
    PROVE  /\ w \in update.plays =>
                 \/ seen[w].of = update.source /\ OfAfter(w) = update.target
                 \/ /\ seen[w].of \in Matched /\ OfAfter(w) \in MatchesOf(seen[w].of)
           /\ w \notin update.plays =>
                 OfAfter(w) = IF \/ seen[w].of = update.source
                                 \/ seen[w].of \in Episodes /\ EpisodesAfter[seen[w].of] = NoEpisode
                              THEN "lost" ELSE seen[w].of
<1>1. ASSUME w \in update.plays
      PROVE  \/ seen[w].of = update.source /\ OfAfter(w) = update.target
             \/ /\ seen[w].of \in Matched /\ OfAfter(w) \in MatchesOf(seen[w].of)
    <2>1. seen[w].of \in Matched \cup {update.source}
        BY <1>1, Flushing DEF UpdateInv, PlaysRead
    <2>2. CASE seen[w].of = update.source
        BY <2>2, <1>1, Flushing DEF OfAfter
    <2>3. CASE seen[w].of \in Matched
        <3>1. MatchesOf(seen[w].of) # {}
            BY <2>3 DEF Matched
        <3>2. seen[w].of \notin MediaItems
            BY <2>3, Flushing, NamesAssumption
        <3>3. OfAfter(w) = CHOOSE f \in MatchesOf(seen[w].of) : TRUE
            BY <3>2, <1>1 DEF OfAfter
        <3> QED
            BY <3>1, <3>3, <2>3
    <2> QED
        BY <2>1, <2>2, <2>3
<1>2. w \notin update.plays =>
         OfAfter(w) = IF \/ seen[w].of = update.source
                         \/ seen[w].of \in Episodes /\ EpisodesAfter[seen[w].of] = NoEpisode
                      THEN "lost" ELSE seen[w].of
    BY DEF OfAfter
<1> QED
    BY <1>1, <1>2

\* The episode of the row that stays is as it was read, and it is the one that moves.
LEMMA MatchIs ==
    ASSUME UpdateInv, update.step = "flush", NEW e \in Matched, NEW f \in MatchesOf(e)
    PROVE  /\ f \in Episodes /\ episodes[f] # NoEpisode /\ EpisodesAfter[f] = episodes[f]
           /\ episodes[f].show = update.target /\ SameEpisode(episodes[e], episodes[f])
<1>1. e \in Episodes /\ e \in Moving /\ f \in Episodes
    BY Flushing
<1>2. update.episodes[f] # NoEpisode /\ update.episodes[f].show = update.target
    BY DEF MatchesOf, EpisodesOf
<1>3. update.episodes[e] # NoEpisode
    BY <1>1 DEF Moving, EpisodesOf
<1>4. episodes[e] = update.episodes[e] /\ episodes[f] = update.episodes[f]
    BY <1>1, <1>2, <1>3, Flushing DEF UpdateInv, ReadStays
<1>5. update.episodes[f].number = update.episodes[e].number
      \/ Lower(update.episodes[f].id) = Lower(update.episodes[e].id)
    BY DEF MatchesOf
<1>6. f \notin Moving
    BY <1>2, Flushing DEF Moving, EpisodesOf
<1> QED
    BY <1>1, <1>2, <1>4, <1>5, <1>6, EpisodeMoves, Flushing DEF SameEpisode

\* The ids that the title has afterwards.
NamedAfter == {i \in ids[update.target] : i[1] \notin KindsOf(update.submit)} \cup update.submit

LEMMA Committed ==
    ASSUME UpdateInv, CommitUpdate
    PROVE  /\ update.step = "flush" /\ update' = NoUpdate
           /\ ids' = [ids EXCEPT ![update.target] = NamedAfter, ![update.source] = DeletedRow]
           /\ seen' = [w \in WatchRows |->
                 [of |-> OfAfter(w), names |-> IF OfAfter(w) \in {"none", "lost"} THEN NotPushed
                                               ELSE Renamed(episodes, w, NamedAfter)]]
           /\ episodes' = EpisodesAfter /\ items' = MergedItems
           /\ UNCHANGED <<series, disturbed, late, count>>
           /\ \E kept \in Kept : /\ ~UpdateFails(kept)
                                 /\ outbox' \in Resynced(MovedJobs(kept), MergedItems)
                                 /\ Len(outbox') <= MaxQueued + 1
<1>1. \E kept \in Kept : /\ ~UpdateFails(kept)
                         /\ \E box \in Resynced(MovedJobs(kept), MergedItems) :
                               Len(box) <= MaxQueued + 1 /\ outbox' = box
    BY Zenon DEF CommitUpdate
<1>2. \E kept \in Kept : /\ ~UpdateFails(kept)
                         /\ outbox' \in Resynced(MovedJobs(kept), MergedItems)
                         /\ Len(outbox') <= MaxQueued + 1
    BY <1>1, Zenon
<1>3. /\ ids' = [ids EXCEPT ![update.target] = NamedAfter, ![update.source] = DeletedRow]
      /\ seen' = [w \in WatchRows |->
            [of |-> OfAfter(w), names |-> IF OfAfter(w) \in {"none", "lost"} THEN NotPushed
                                          ELSE Renamed(episodes, w, NamedAfter)]]
    BY Zenon DEF CommitUpdate, NamedAfter
<1> QED
    BY <1>2, <1>3, Zenon DEF CommitUpdate

LEMMA IdsMove ==
    ASSUME UpdateInv, CommitUpdate
    PROVE  /\ ids' \in [MediaItems -> (SUBSET Ids) \cup {DeletedRow}]
           /\ ids'[update.target] = NamedAfter /\ NamedAfter \subseteq Ids
           /\ \A r \in MediaItems : r # update.source /\ Exists(r) => ids'[r] # DeletedRow
<1>1. ids \in [MediaItems -> (SUBSET Ids) \cup {DeletedRow}]
    BY DEF UpdateInv, UpdateShape
<1>2. NamedAfter \subseteq Ids
    BY <1>1, Committed, Flushing DEF NamedAfter, Exists
<1>3. NamedAfter # DeletedRow
    BY <1>2, IdsExist
<1>4. ids' = [ids EXCEPT ![update.target] = NamedAfter, ![update.source] = DeletedRow]
    BY Committed
<1>5. update.target \in MediaItems /\ update.source \in MediaItems /\ update.source # update.target
    BY Committed, Flushing
<1>6. ids' \in [MediaItems -> (SUBSET Ids) \cup {DeletedRow}]
    BY <1>1, <1>2, <1>4, <1>5
<1>7. \A r \in MediaItems : ids'[r] = IF r = update.source THEN DeletedRow
                                      ELSE IF r = update.target THEN NamedAfter ELSE ids[r]
    BY <1>1, <1>4, <1>5
<1> QED
    BY <1>2, <1>3, <1>5, <1>6, <1>7 DEF Exists

LEMMA SeenMoves ==
    ASSUME UpdateInv, CommitUpdate
    PROVE  /\ seen' \in SeenTables
           /\ \A w \in WatchRows :
                 /\ seen'[w].of = OfAfter(w)
                 /\ seen'[w].names = IF OfAfter(w) \in {"none", "lost"} THEN NotPushed
                                     ELSE Renamed(episodes, w, NamedAfter)
<1>1. \A w \in WatchRows : OfAfter(w) \in MediaItems \cup Episodes \cup {"none", "lost"}
    <2>1. ASSUME NEW w \in WatchRows PROVE OfAfter(w) \in MediaItems \cup Episodes \cup {"none", "lost"}
        <3>1. seen[w].of \in MediaItems \cup Episodes \cup {"none", "lost"}
            BY DEF UpdateInv, UpdateShape, SeenTables
        <3>2. CASE w \in update.plays
            BY <3>2, PlayMoves, Committed, Flushing
        <3>3. CASE w \notin update.plays
            BY <3>1, <3>3, PlayMoves, Committed
        <3> QED
            BY <3>2, <3>3
    <2> QED
        BY <2>1
<1>2. ASSUME NEW w \in WatchRows PROVE Renamed(episodes, w, NamedAfter) \subseteq Ids \cup DeletedRow
    BY IdsMove DEF UpdateInv, UpdateShape, SeenTables, Renamed
<1>3. seen' = [w \in WatchRows |->
         [of |-> OfAfter(w), names |-> IF OfAfter(w) \in {"none", "lost"} THEN NotPushed
                                       ELSE Renamed(episodes, w, NamedAfter)]]
    BY Committed
<1>4. NotPushed \subseteq Ids \cup DeletedRow
    BY DEF NotPushed
<1>5. \A w \in WatchRows :
         /\ seen'[w].of = OfAfter(w)
         /\ seen'[w].names = IF OfAfter(w) \in {"none", "lost"} THEN NotPushed
                             ELSE Renamed(episodes, w, NamedAfter)
    BY <1>3
<1>6. seen' \in SeenTables
    BY <1>1, <1>2, <1>3, <1>4 DEF SeenTables
<1> QED
    BY <1>5, <1>6

LEMMA PlaysFollow ==
    ASSUME UpdateInv, CommitUpdate
    PROVE  PlaysSurvive
<1> SUFFICES ASSUME NEW w \in WatchRows \ late,
                    seen[w].of \in MediaItems
                    \/ (seen[w].of \in Episodes /\ update.episodes[seen[w].of] # NoEpisode)
             PROVE  /\ seen'[w].of \in MediaItems \cup Episodes
                    /\ TitleOf(episodes, seen[w].of) = update.source =>
                          TitleOf(episodes', seen'[w].of) = update.target
                    /\ seen[w].of \in Episodes =>
                          SameEpisode(episodes[seen[w].of], episodes'[seen'[w].of])
    BY Zenon DEF PlaysSurvive
<1> DEFINE x == seen[w].of
           y == OfAfter(w)
<1>1. seen'[w].of = y /\ episodes' = EpisodesAfter /\ update.step = "flush"
    BY SeenMoves, Committed
<1>2. update.source \in MediaItems /\ update.target \in MediaItems /\ update.source # update.target
      /\ Matched \subseteq Moving /\ Moving \subseteq Episodes
    BY <1>1, Flushing
<1>3. CASE w \in update.plays
    <2>1. CASE x = update.source /\ y = update.target
        BY <2>1, <1>1, <1>2, NamesAssumption DEF TitleOf
    <2>2. CASE x \in Matched /\ y \in MatchesOf(x)
        <3>1. /\ y \in Episodes /\ EpisodesAfter[y] = episodes[y]
              /\ episodes[y].show = update.target /\ SameEpisode(episodes[x], episodes[y])
            BY <2>2, <1>1, MatchIs
        <3> QED
            BY <3>1, <1>1, NamesAssumption DEF TitleOf
    <2> QED
        BY <1>1, <1>3, <2>1, <2>2, PlayMoves
<1>4. CASE w \notin update.plays
    <2>1. x # update.source /\ x \notin Matched
        BY <1>1, <1>4, Flushing DEF UpdateInv, PlaysRead
    <2>2. CASE x \in MediaItems
        BY <2>1, <2>2, <1>1, <1>4, PlayMoves, NamesAssumption DEF TitleOf
    <2>3. CASE x \in Episodes /\ update.episodes[x] # NoEpisode
        <3>1. episodes[x] # NoEpisode /\ episodes[x] = update.episodes[x]
            BY <2>3, <1>1, Flushing DEF UpdateInv, ReadStays
        <3>2. CASE x \in Moving
            BY <3>2, <2>1, <2>3, <1>1, <1>4, EpisodeMoves, PlayMoves, NamesAssumption DEF TitleOf, SameEpisode
        <3>3. CASE x \notin Moving
            <4>1. episodes[x].show # update.source
                BY <3>1, <3>3, <2>3 DEF Moving, EpisodesOf
            <4>2. EpisodesAfter[x] = episodes[x]
                BY <4>1, <3>3, <2>3, <1>1, EpisodeMoves
            <4>3. y = x
                BY <4>2, <3>1, <2>1, <1>1, <1>4, PlayMoves
            <4> QED
                BY <4>1, <4>2, <4>3, <2>3, <1>1, NamesAssumption DEF TitleOf, SameEpisode
        <3> QED
            BY <3>2, <3>3
    <2> QED
        BY <2>2, <2>3
<1> QED
    BY <1>3, <1>4

LEMMA PushesFollow ==
    ASSUME UpdateInv, CommitUpdate
    PROVE  PushesName
<1> SUFFICES ASSUME NEW w \in WatchRows, seen'[w].names # NotPushed,
                    TitleOf(episodes', seen'[w].of) = update.target
             PROVE  seen'[w].names = ids'[update.target]
    BY Zenon DEF PushesName
<1> DEFINE x == seen[w].of
           y == OfAfter(w)
<1>1. seen'[w].of = y /\ episodes' = EpisodesAfter /\ update.step = "flush" /\ ids'[update.target] = NamedAfter
      /\ y \notin {"none", "lost"} /\ seen'[w].names = Renamed(episodes, w, NamedAfter)
    BY SeenMoves, Committed, IdsMove
<1>2. update.source \in MediaItems /\ update.target \in MediaItems /\ update.source # update.target
      /\ Matched \subseteq Moving /\ Moving \subseteq Episodes
    BY <1>1, Flushing
<1>3. x \in MediaItems \cup Episodes \cup {"none", "lost"}
    BY DEF UpdateInv, UpdateShape, SeenTables
<1>4. TitleOf(episodes, x) \in {update.source, update.target}
    <2>1. CASE w \in update.plays
        <3>1. CASE x = update.source
            BY <3>1, <1>2 DEF TitleOf
        <3>2. CASE x \in Matched
            BY <3>2, <1>1, <1>2, EpisodeMoves, NamesAssumption DEF TitleOf
        <3> QED
            BY <3>1, <3>2, <2>1, <1>1, PlayMoves
    <2>2. CASE w \notin update.plays
        <3>1. y = x
            BY <2>2, <1>1, PlayMoves
        <3>2. CASE x \in MediaItems
            BY <3>1, <3>2, <1>1 DEF TitleOf
        <3>3. CASE x \in Episodes
            <4>1. TitleOf(EpisodesAfter, x) = EpisodesAfter[x].show /\ TitleOf(episodes, x) = episodes[x].show
                BY <3>3, NamesAssumption DEF TitleOf
            <4>2. EpisodesAfter[x].show = update.target
                BY <4>1, <3>1, <1>1
            <4>3. EpisodesAfter[x] # NoEpisode
                BY <4>2, <1>2, NamesAssumption DEF NoEpisode
            <4> QED
                BY <4>1, <4>2, <4>3, <3>3, <1>1, EpisodesMove
        <3> QED
            BY <1>1, <1>3, <3>1, <3>2, <3>3
    <2> QED
        BY <2>1, <2>2
<1> QED
    BY <1>1, <1>4 DEF Renamed

From == ItemOf(update.items, update.source)
To == ItemOf(update.items, update.target)

\* What is listed of either row was read, but for an item of the row that stays.
LEMMA ItemsRead ==
    ASSUME UpdateInv, update.step = "flush"
    PROVE  /\ From \subseteq MediaItems /\ To \subseteq MediaItems /\ From \cap To = {}
           /\ \A f, g \in From : f = g
           /\ \A f, g \in To : f = g
           /\ \A f \in From : update.items[f] \in ItemRows /\ update.items[f].media = update.source
           /\ \A o \in From \cup To : items[o] \in {update.items[o], Unlisted}
           /\ \A o \in To : update.items[o] \in ItemRows /\ update.items[o].media = update.target
<1>1. update.source \in MediaItems /\ update.target \in MediaItems /\ update.source # update.target
      /\ update.items \in ItemTables /\ update # NoUpdate
    BY Flushing
<1>2. From \subseteq MediaItems /\ To \subseteq MediaItems /\ From \cap To = {}
    BY <1>1 DEF From, To, ItemOf
<1>3. (\A f, g \in From : f = g) /\ (\A f, g \in To : f = g)
    BY <1>1 DEF UpdateInv, ReadStays, OneEach, From, To
<1>4. /\ \A f \in From : update.items[f] \in ItemRows /\ update.items[f].media = update.source
      /\ \A o \in To : update.items[o] \in ItemRows /\ update.items[o].media = update.target
    BY <1>1, ItemIs DEF From, To, ItemOf, ItemTables
<1>5. \A o \in From \cup To : items[o] \in {update.items[o], Unlisted}
    BY <1>1, <1>2, <1>4 DEF UpdateInv, ReadStays
<1> QED
    BY <1>2, <1>3, <1>4, <1>5

\* What the flush makes of an item.
LEMMA ItemMoves ==
    ASSUME UpdateInv, update.step = "flush", NEW o \in MediaItems
    PROVE  /\ items[o].media \notin {update.source, update.target} => MergedItems[o] = items[o]
           /\ (items[o].media = update.target /\ (o \notin To \/ From = {})) => MergedItems[o] = items[o]
           /\ (items[o].media = update.source /\ (o \notin From \/ To # {})) => MergedItems[o] = Unlisted
           /\ (items[o].media = update.source /\ o \in From /\ To = {}) =>
                 /\ MergedItems[o] \in ItemRows /\ MergedItems[o].media = update.target
                 /\ MergedItems[o].status = items[o].status /\ MergedItems[o].links = items[o].links
           /\ \A f \in From : (items[o].media = update.target /\ o \in To) =>
                 /\ MergedItems[o] \in ItemRows /\ MergedItems[o].media = update.target
                 /\ Rank[items[o].status] <= Rank[MergedItems[o].status]
                 /\ Rank[update.items[f].status] <= Rank[MergedItems[o].status]
                 /\ items[o].links \subseteq MergedItems[o].links
                 /\ update.items[f].links \subseteq MergedItems[o].links
<1>1. items[o] \in ItemRows \cup {NoItem, Unlisted}
    BY DEF UpdateInv, UpdateShape, ItemTables
<1>2. update.source \in MediaItems /\ update.target \in MediaItems /\ update.source # update.target
    BY Flushing
<1>3. From \cap To = {} /\ From \subseteq MediaItems /\ To \subseteq MediaItems
    BY ItemsRead
<1>4. Unlisted.media \notin MediaItems
    BY NamesAssumption DEF Unlisted
<1>5. o \in From => items[o].media # update.target
    BY <1>2, <1>4, ItemsRead
<1>6. o \in To => items[o].media # update.source
    BY <1>2, <1>4, ItemsRead
<1>7. items[o].media \notin {update.source, update.target} => MergedItems[o] = items[o]
    BY DEF MergedItems
<1>8. (items[o].media = update.target /\ (o \notin To \/ From = {})) => MergedItems[o] = items[o]
    BY <1>2, <1>5 DEF MergedItems, From, To
<1>9. (items[o].media = update.source /\ (o \notin From \/ To # {})) => MergedItems[o] = Unlisted
    BY <1>2, <1>6 DEF MergedItems, From, To
<1>10. ASSUME items[o].media = update.source, o \in From, To = {}
       PROVE  /\ MergedItems[o] \in ItemRows /\ MergedItems[o].media = update.target
              /\ MergedItems[o].status = items[o].status /\ MergedItems[o].links = items[o].links
    <2> DEFINE new == [items[o] EXCEPT !.media = update.target]
    <2>1. MergedItems[o] = new
        BY <1>10, <1>2, <1>6 DEF MergedItems, From, To
    <2>2. items[o] \in ItemRows
        BY <1>1, <1>2, <1>10, ItemIs
    <2>3. /\ new \in ItemRows /\ new.media = update.target
          /\ new.status = items[o].status /\ new.links = items[o].links
        BY <2>2, <1>2 DEF ItemRows
    <2> HIDE DEF new
    <2> QED
        BY <2>1, <2>3
<1>11. ASSUME NEW f \in From, items[o].media = update.target, o \in To
       PROVE  /\ MergedItems[o] \in ItemRows /\ MergedItems[o].media = update.target
              /\ Rank[items[o].status] <= Rank[MergedItems[o].status]
              /\ Rank[update.items[f].status] <= Rank[MergedItems[o].status]
              /\ items[o].links \subseteq MergedItems[o].links
              /\ update.items[f].links \subseteq MergedItems[o].links
    <2> DEFINE old == update.items[f]
               new == [items[o] EXCEPT !.status = MergedStatus(old.status, items[o].status),
                                       !.links = items[o].links \cup old.links]
    <2>1. (CHOOSE g \in From : TRUE) = f
        BY ItemsRead
    <2>2. MergedItems[o] = new
        BY <1>11, <1>2, <2>1 DEF MergedItems, From, To
    <2>3. items[o] \in ItemRows /\ old \in ItemRows
        BY <1>1, <1>2, <1>11, ItemIs, ItemsRead
    <2>4. items[o].status \in ListStatus /\ old.status \in ListStatus
          /\ items[o].links \subseteq ListSources /\ old.links \subseteq ListSources
        BY <2>3 DEF ItemRows
    <2>5. /\ MergedStatus(old.status, items[o].status) \in ListStatus
          /\ Rank[old.status] <= Rank[MergedStatus(old.status, items[o].status)]
          /\ Rank[items[o].status] <= Rank[MergedStatus(old.status, items[o].status)]
        BY <2>4, StatusAssumption DEF MergedStatus, Rank
    <2>6. /\ new \in ItemRows /\ new.media = items[o].media
          /\ new.status = MergedStatus(old.status, items[o].status)
          /\ new.links = items[o].links \cup old.links
        BY <2>3, <2>4, <2>5 DEF ItemRows
    <2> HIDE DEF new
    <2> QED
        BY <2>2, <2>5, <2>6, <1>11
<1> QED
    BY <1>7, <1>8, <1>9, <1>10, <1>11

LEMMA ItemsMove ==
    ASSUME UpdateInv, update.step = "flush", NEW kept, ~UpdateFails(kept)
    PROVE  /\ MergedItems \in ItemTables /\ OneEach(MergedItems)
           /\ \A o \in MediaItems : MergedItems[o] \notin {NoItem, Unlisted} =>
                 MergedItems[o].media # update.source /\ Exists(MergedItems[o].media)
<1>1. update.source \in MediaItems /\ update.target \in MediaItems /\ update.source # update.target
      /\ Exists(update.target)
    BY Flushing
<1>2. ASSUME NEW o \in MediaItems PROVE items[o] \in ItemRows \cup {NoItem, Unlisted}
    BY DEF UpdateInv, UpdateShape, ItemTables
<1>3. ASSUME NEW o \in MediaItems
      PROVE  \/ MergedItems[o] = items[o] /\ items[o].media # update.source
             \/ MergedItems[o] = Unlisted
             \/ MergedItems[o] \in ItemRows /\ MergedItems[o].media = update.target
    BY <1>1, ItemMoves, ItemsRead
<1>4. MergedItems \in ItemTables
    <2>1. \A o \in MediaItems : MergedItems[o] \in ItemRows \cup {NoItem, Unlisted}
        BY <1>2, <1>3
    <2>2. MergedItems = [o \in MediaItems |-> MergedItems[o]]
        BY DEF MergedItems
    <2> HIDE DEF MergedItems
    <2> QED
        BY <2>1, <2>2 DEF ItemTables
<1>5. ASSUME NEW o \in MediaItems, MergedItems[o] \notin {NoItem, Unlisted}
      PROVE  MergedItems[o].media # update.source /\ Exists(MergedItems[o].media)
    BY <1>1, <1>3, <1>5 DEF UpdateInv, UpdateShape, Listed
<1>6. From # {} => ItemOf(items, update.target) \subseteq To
    BY DEF UpdateFails, KeyTaken, From, To
<1>7. ASSUME NEW r \in MediaItems, NEW o \in MediaItems, NEW p \in MediaItems,
             MergedItems[o].media = r, MergedItems[p].media = r
      PROVE  o = p
    <2>1. \A q \in MediaItems : \A u, v \in ItemOf(items, q) : u = v
        BY DEF UpdateInv, UpdateShape, OneEach
    <2>2. Unlisted.media \notin MediaItems
        BY NamesAssumption DEF Unlisted
    <2>3. CASE r # update.target
        <3>1. MergedItems[o] = items[o] /\ MergedItems[p] = items[p]
            BY <2>2, <2>3, <1>3, <1>7
        <3> QED
            BY <2>1, <3>1, <1>7 DEF ItemOf
    <2>4. CASE r = update.target
        <3>1. ASSUME NEW q \in MediaItems, MergedItems[q].media = r
              PROVE  q \in ItemOf(items, update.target) \/ (q \in From /\ To = {})
            BY <3>1, <2>2, <2>4, <1>1, ItemMoves DEF ItemOf
        <3>2. (o \in From /\ To = {}) \/ (p \in From /\ To = {}) => ItemOf(items, update.target) = {}
            BY <1>6
        <3> QED
            BY <2>1, <3>1, <3>2, <1>1, <1>7, ItemsRead
    <2> QED
        BY <2>3, <2>4
<1>8. OneEach(MergedItems)
    BY <1>7 DEF OneEach, ItemOf
<1> QED
    BY <1>4, <1>5, <1>8

LEMMA ListFollows ==
    ASSUME UpdateInv, CommitUpdate, ~disturbed
    PROVE  ListSurvives
<1>1. update.step = "flush" /\ items' = MergedItems
    BY Committed
<1>2. update.source \in MediaItems /\ update.target \in MediaItems /\ update.source # update.target
      /\ items = update.items
    BY <1>1, Flushing DEF UpdateInv, ReadStays
<1> SUFFICES ASSUME NEW o \in MediaItems, items[o].media \in {update.source, update.target}
             PROVE  \E p \in MediaItems :
                       /\ MergedItems[p].media = update.target
                       /\ Rank[items[o].status] <= Rank[MergedItems[p].status]
                       /\ items[o].links \subseteq MergedItems[p].links
    BY <1>1 DEF ListSurvives, ItemOf
<1>3. items[o] \in ItemRows
    BY <1>2, ItemIs DEF UpdateInv, UpdateShape, ItemTables
<1>4. Rank[items[o].status] <= Rank[items[o].status]
    BY <1>3, StatusAssumption DEF ItemRows, Rank
<1>5. CASE items[o].media = update.source
    <2>1. o \in From
        BY <1>2, <1>5 DEF From, ItemOf
    <2>2. CASE To = {}
        BY <2>1, <2>2, <1>1, <1>4, <1>5, ItemMoves
    <2>3. CASE To # {}
        <3>1. PICK p \in To : TRUE
            BY <2>3
        <3>2. p \in MediaItems /\ items[p].media = update.target
            BY <3>1, <1>1, <1>2, ItemsRead
        <3> QED
            BY <3>1, <3>2, <2>1, <1>1, <1>2, ItemMoves
    <2> QED
        BY <2>2, <2>3
<1>6. CASE items[o].media = update.target
    <2>1. o \in To
        BY <1>2, <1>6 DEF To, ItemOf
    <2>2. CASE From = {}
        BY <2>2, <1>1, <1>4, <1>6, ItemMoves
    <2>3. CASE From # {}
        BY <2>1, <2>3, <1>1, <1>6, ItemMoves
    <2> QED
        BY <2>2, <2>3
<1> QED
    BY <1>5, <1>6

\* What jobs are of, and are of afterwards.
LEMMA KeysAre ==
    ASSUME UpdateInv, update.step = "flush", NEW key \in Keys
    PROVE  /\ key[2] \in MediaItems /\ key[3] \in MediaItems
           /\ \/ key[1] = "update" /\ key[2] = update.source /\ key[3] = update.target
              \/ /\ key[1] \in {"push", "remove"} /\ key[2] \in From
                 /\ \/ To = {} /\ key[3] = key[2]
                    \/ key[3] \in To
<1>1. CASE key = <<"update", update.source, update.target>>
    BY <1>1, Flushing
<1>2. ASSUME NEW k \in {"push", "remove"}, NEW pair \in ItemAfter, key = <<k, pair[1], pair[2]>>
      PROVE  /\ key[2] \in MediaItems /\ key[3] \in MediaItems
             /\ key[1] \in {"push", "remove"} /\ key[2] \in From
             /\ \/ To = {} /\ key[3] = key[2]
                \/ key[3] \in To
    <2> DEFINE f == CHOOSE g \in From : TRUE
               stays == IF To = {} THEN From ELSE To
               t == CHOOSE o \in stays : TRUE
    <2>1. From # {} /\ pair = <<f, t>>
        BY DEF ItemAfter, From, To
    <2>2. f \in From
        BY <2>1
    <2>3. t \in stays
        BY <2>1
    <2>4. To = {} => t = f
        BY <2>2, <2>3, ItemsRead
    <2> HIDE DEF f, t
    <2>5. key[1] = k /\ key[2] = f /\ key[3] = t
        BY <2>1, <1>2
    <2> QED
        BY <2>2, <2>3, <2>4, <2>5, ItemsRead
<1>3. key = <<"update", update.source, update.target>>
      \/ \E k \in {"push", "remove"}, pair \in ItemAfter : key = <<k, pair[1], pair[2]>>
    BY DEF Keys
<1> QED
    BY <1>1, <1>2, <1>3

KeysOf(j) == {k \in Keys : j \in JobsOf(update.outbox, k[1], k[2])}

LEMMA JobMoves ==
    ASSUME UpdateInv, update.step = "flush", NEW kept, NEW j \in DOMAIN outbox
    PROVE  /\ MovedJobs(kept)[j] \in QueueRows
           /\ KeysOf(j) = {} => MovedJobs(kept)[j] = outbox[j]
           /\ KeysOf(j) # {} /\ j \in kept =>
                 /\ MovedJobs(kept)[j].kind = outbox[j].kind /\ MovedJobs(kept)[j].status = outbox[j].status
                 /\ \E k \in KeysOf(j) : MovedJobs(kept)[j].at = k[3]
<1>1. outbox \in Seq(QueueRows) /\ outbox[j] \in QueueRows
    BY DEF UpdateInv, UpdateShape
<1>2. CASE KeysOf(j) = {}
    BY <1>1, <1>2 DEF MovedJobs, KeysOf
<1>3. CASE KeysOf(j) # {} /\ j \in kept
    <2> DEFINE key == CHOOSE k \in KeysOf(j) : TRUE
               new == [outbox[j] EXCEPT !.at = key[3]]
    <2>1. key \in KeysOf(j) /\ key \in Keys
        BY <1>3 DEF KeysOf
    <2>2. MovedJobs(kept)[j] = new
        BY <1>3 DEF MovedJobs, KeysOf
    <2> HIDE DEF key
    <2>3. key[3] \in MediaItems
        BY <2>1, KeysAre
    <2>4. new \in QueueRows /\ new.at = key[3] /\ new.kind = outbox[j].kind /\ new.status = outbox[j].status
        BY <1>1, <2>3 DEF QueueRows
    <2> HIDE DEF new
    <2> QED
        BY <2>1, <2>2, <2>4, <1>3
<1>4. CASE KeysOf(j) # {} /\ j \notin kept
    <2>1. MovedJobs(kept)[j] = [outbox[j] EXCEPT !.status = "deleted"]
        BY <1>4 DEF MovedJobs, KeysOf
    <2>2. [outbox[j] EXCEPT !.status = "deleted"] \in QueueRows
        BY <1>1 DEF QueueRows
    <2> QED
        BY <2>1, <2>2, <1>4
<1> QED
    BY <1>2, <1>3, <1>4

LEMMA BoxMoves ==
    ASSUME UpdateInv, update.step = "flush", NEW kept
    PROVE  /\ MovedJobs(kept) \in Seq(QueueRows) /\ DOMAIN MovedJobs(kept) = DOMAIN outbox
<1>1. outbox \in Seq(QueueRows)
    BY DEF UpdateInv, UpdateShape
<1>2. \A j \in DOMAIN outbox : MovedJobs(kept)[j] \in QueueRows
    BY JobMoves
<1>3. MovedJobs(kept) = [j \in DOMAIN outbox |-> MovedJobs(kept)[j]]
    BY DEF MovedJobs
<1> HIDE DEF MovedJobs
<1>4. DOMAIN outbox = 1 .. Len(outbox) /\ Len(outbox) \in Nat
    BY <1>1
<1>5. MovedJobs(kept) \in [1 .. Len(outbox) -> QueueRows]
    BY <1>2, <1>3, <1>4
<1> QED
    BY <1>4, <1>5

\* A push that is added is for an item of the row that stays.
LEMMA PushIsAdded ==
    ASSUME NEW box \in Seq(QueueRows), NEW its, NEW new \in Resynced(box, its)
    PROVE  /\ new \in Seq(QueueRows)
           /\ DOMAIN box \subseteq DOMAIN new /\ \A j \in DOMAIN box : new[j] = box[j]
<1> DEFINE push(n) == [kind |-> "push", at |-> CHOOSE p \in n : TRUE, status |-> "waiting"]
<1>1. PICK n \in SUBSET ItemOf(its, update.target) : new = IF n = {} THEN box ELSE Append(box, push(n))
    BY DEF Resynced
<1>2. CASE n = {}
    BY <1>1, <1>2
<1>3. CASE n # {}
    <2>1. (CHOOSE p \in n : TRUE) \in MediaItems
        BY <1>3 DEF ItemOf
    <2>2. push(n) \in QueueRows
        BY <2>1 DEF QueueRows
    <2> HIDE DEF push
    <2>3. new = Append(box, push(n))
        BY <1>1, <1>3
    <2> QED
        BY <2>2, <2>3
<1> QED
    BY <1>2, <1>3

LEMMA OutboxMoves ==
    ASSUME UpdateInv, CommitUpdate
    PROVE  outbox' \in Seq(QueueRows) /\ Len(outbox') <= MaxQueued + 1
<1>1. PICK kept \in Kept : outbox' \in Resynced(MovedJobs(kept), MergedItems) /\ Len(outbox') <= MaxQueued + 1
    BY Committed
<1>2. MovedJobs(kept) \in Seq(QueueRows)
    BY Committed, BoxMoves
<1> QED
    BY <1>1, <1>2, PushIsAdded

\* A job that goes over to no key stays; of those of one key, one is left.
LEMMA JobStays ==
    ASSUME UpdateInv, update.step = "flush", NEW kept,
           NEW box \in Resynced(MovedJobs(kept), MergedItems),
           NEW k, NEW at, NEW j \in JobsOf(outbox, k, at), KeysOf(j) = {}
    PROVE  j \in JobsOf(box, k, at)
<1>1. j \in DOMAIN outbox /\ MovedJobs(kept)[j] = outbox[j]
    BY JobMoves DEF JobsOf
<1>2. j \in DOMAIN box /\ box[j] = outbox[j]
    BY <1>1, BoxMoves, PushIsAdded
<1> QED
    BY <1>2 DEF JobsOf

LEMMA JobGoesOver ==
    ASSUME UpdateInv, update.step = "flush", outbox = update.outbox, NEW kept \in Kept,
           NEW box \in Resynced(MovedJobs(kept), MergedItems),
           NEW key \in Keys, JobsOf(outbox, key[1], key[2]) # {}
    PROVE  JobsOf(box, key[1], key[3]) # {}
<1> DEFINE moving == JobsOf(outbox, key[1], key[2])
           own == IF key[2] = key[3] THEN {} ELSE JobsOf(outbox, key[1], key[3])
<1>1. kept \cap moving \in IF own # {} \/ moving = {} THEN {{}} ELSE {{j} : j \in moving}
    BY DEF Kept, Folded
<1>2. CASE own # {}
    <2>1. PICK j \in own : TRUE
        BY <1>2
    <2>2. key[2] # key[3] /\ j \in JobsOf(outbox, key[1], key[3])
        BY <2>1
    <2>3. KeysOf(j) = {}
        <3> SUFFICES ASSUME NEW other \in KeysOf(j) PROVE FALSE
            OBVIOUS
        <3>1. other \in Keys /\ other[1] = key[1] /\ other[2] = key[3]
            BY <2>2 DEF KeysOf, JobsOf
        <3> QED
            BY <2>2, <3>1, KeysAre, ItemsRead, Flushing
    <2> QED
        BY <2>2, <2>3, JobStays
<1>3. CASE own = {}
    <2>1. PICK j \in moving : j \in kept
        BY <1>1, <1>3
    <2>2. key \in KeysOf(j) /\ j \in DOMAIN outbox
        BY <2>1 DEF KeysOf, JobsOf
    <2>3. PICK other \in KeysOf(j) : MovedJobs(kept)[j].at = other[3]
        BY <2>1, <2>2, JobMoves
    <2>4. other \in Keys /\ other[1] = key[1] /\ other[2] = key[2]
        BY <2>1, <2>3 DEF KeysOf, JobsOf
    <2>5. other[3] = key[3]
        BY <2>4, KeysAre, ItemsRead
    <2>6. MovedJobs(kept)[j].kind = outbox[j].kind /\ MovedJobs(kept)[j].status = outbox[j].status
        BY <2>1, <2>2, JobMoves
    <2>7. j \in DOMAIN box /\ box[j] = MovedJobs(kept)[j]
        BY <2>2, BoxMoves, PushIsAdded
    <2>8. j \in JobsOf(box, key[1], key[3])
        BY <2>1, <2>3, <2>5, <2>6, <2>7 DEF JobsOf
    <2> QED
        BY <2>8
<1> QED
    BY <1>2, <1>3

LEMMA ItemsHaveKeys ==
    ASSUME UpdateInv, update.step = "flush", NEW k \in {"push", "remove"}, NEW f \in From
    PROVE  \E key \in Keys : key[1] = k /\ key[2] = f
<1> DEFINE t == CHOOSE o \in IF To = {} THEN From ELSE To : TRUE
<1>1. (CHOOSE g \in From : TRUE) = f
    BY ItemsRead
<1>2. <<f, t>> \in ItemAfter
    BY <1>1 DEF ItemAfter, From, To
<1> HIDE DEF t
<1>3. <<k, f, t>> \in Keys
    BY <1>2 DEF Keys
<1> QED
    BY <1>3

LEMMA JobsMove ==
    ASSUME UpdateInv, CommitUpdate, ~disturbed
    PROVE  JobsSurvive
<1>1. update.step = "flush" /\ items' = MergedItems
    BY Committed
<1>2. update.source \in MediaItems /\ update.target \in MediaItems /\ update.source # update.target
      /\ items = update.items /\ outbox = update.outbox /\ Exists(update.target)
    BY <1>1, Flushing DEF UpdateInv, ReadStays
<1>3. PICK kept \in Kept : outbox' \in Resynced(MovedJobs(kept), MergedItems)
    BY Committed
<1> SUFFICES ASSUME NEW k \in {"update", "push", "remove"}, NEW at \in MediaItems,
                    IsServed(k, at), JobsOf(outbox, k, at) # {}
             PROVE  \E to \in {at} \cup {key[3] : key \in {q \in Keys : q[1] = k /\ q[2] = at}} :
                       IsServed(k, to)' /\ JobsOf(outbox', k, to) # {}
    BY Zenon DEF JobsSurvive
<1>4. ASSUME NEW key \in Keys, key[1] = k, key[2] = at
      PROVE  IsServed(k, key[3])' /\ JobsOf(outbox', k, key[3]) # {}
    <2>1. JobsOf(outbox', k, key[3]) # {}
        BY <1>1, <1>2, <1>3, <1>4, JobGoesOver
    <2>2. CASE k = "update"
        BY <2>1, <2>2, <1>1, <1>2, <1>4, KeysAre, IdsMove DEF IsServed, Exists
    <2>3. CASE k # "update"
        <3>1. key[2] \in From /\ items[key[2]].media = update.source /\ key[3] \in MediaItems
            BY <2>3, <1>1, <1>2, <1>4, KeysAre, ItemsRead
        <3>2. MergedItems[key[3]] \in ItemRows
            <4>1. CASE To = {} /\ key[3] = key[2]
                BY <3>1, <4>1, <1>1, ItemMoves
            <4>2. CASE key[3] \in To
                BY <3>1, <4>2, <1>1, <1>2, ItemMoves, ItemsRead
            <4> QED
                BY <4>1, <4>2, <2>3, <1>1, <1>4, KeysAre
        <3>3. MergedItems[key[3]] \notin {NoItem, Unlisted}
            BY <3>2, NoItems
        <3> QED
            BY <2>1, <2>3, <3>3, <1>1 DEF IsServed, Listed
    <2> QED
        BY <2>1, <2>2, <2>3
<1>5. ASSUME \A key \in Keys : ~(key[1] = k /\ key[2] = at)
      PROVE  IsServed(k, at)' /\ JobsOf(outbox', k, at) # {}
    <2>1. PICK j \in JobsOf(outbox, k, at) : TRUE
        OBVIOUS
    <2>2. KeysOf(j) = {}
        BY <2>1, <1>2, <1>5 DEF KeysOf, JobsOf
    <2>3. JobsOf(outbox', k, at) # {}
        BY <2>1, <2>2, <1>1, <1>3, JobStays
    <2>4. CASE k = "update"
        <3>1. <<"update", update.source, update.target>> \in Keys
            BY DEF Keys
        <3>2. at # update.source
            BY <3>1, <2>4, <1>5
        <3> QED
            BY <2>3, <2>4, <3>2, IdsMove DEF IsServed, Exists
    <2>5. CASE k # "update"
        <3>1. items[at] \notin {NoItem, Unlisted}
            BY <2>5 DEF IsServed, Listed
        <3>2. at \notin From
            BY <2>5, <1>1, <1>5, ItemsHaveKeys
        <3>3. items[at].media # update.source
            BY <3>2, <1>2 DEF From, ItemOf
        <3>4. MergedItems[at] \notin {NoItem, Unlisted}
            <4>1. CASE items[at].media = update.target /\ From # {}
                <5>1. at \in To
                    BY <4>1, <1>2 DEF To, ItemOf
                <5> QED
                    BY <4>1, <5>1, <1>1, ItemMoves, NoItems
            <4>2. CASE ~(items[at].media = update.target /\ From # {})
                BY <4>2, <3>1, <3>3, <1>1, ItemMoves
            <4> QED
                BY <4>1, <4>2
        <3> QED
            BY <2>3, <2>5, <3>4, <1>1 DEF IsServed, Listed
    <2> QED
        BY <2>3, <2>4, <2>5
<1>6. CASE \E key \in Keys : key[1] = k /\ key[2] = at
    BY <1>4, <1>6
<1>7. CASE \A key \in Keys : ~(key[1] = k /\ key[2] = at)
    BY <1>5, <1>7
<1> QED
    BY <1>6, <1>7

LEMMA CommitUpdateHolds ==
    ASSUME UpdateInv, CommitUpdate
    PROVE  UpdateInv'
<1>1. update.step = "flush" /\ update' = NoUpdate /\ series' = series /\ episodes' = EpisodesAfter
      /\ items' = MergedItems /\ \E kept : ~UpdateFails(kept)
    BY Committed
<1>2. update.source \in MediaItems /\ update.target \in MediaItems /\ update.source # update.target
    BY <1>1, Flushing
<1>3. ids' \in [MediaItems -> (SUBSET Ids) \cup {DeletedRow}]
      /\ \A r \in MediaItems : r # update.source /\ Exists(r) => ids'[r] # DeletedRow
    BY IdsMove
<1>4. episodes' \in EpisodeTables
      /\ \A e \in Episodes : episodes'[e] # NoEpisode => ids'[episodes'[e].show] # DeletedRow
    <2>1. EpisodesAfter \in EpisodeTables
        BY <1>1, EpisodesMove
    <2>2. ASSUME NEW e \in Episodes, EpisodesAfter[e] # NoEpisode PROVE ids'[EpisodesAfter[e].show] # DeletedRow
        <3>1. EpisodesAfter[e].show \in MediaItems
            BY <2>1, <2>2, EpisodeIs DEF EpisodeTables
        <3> QED
            BY <2>2, <3>1, <1>1, <1>3, EpisodesMove
    <2> QED
        BY <2>1, <2>2, <1>1
<1>5. items' \in ItemTables /\ OneEach(items')
      /\ \A o \in MediaItems : items'[o] \notin {NoItem, Unlisted} => ids'[items'[o].media] # DeletedRow
    <2>1. MergedItems \in ItemTables /\ OneEach(MergedItems)
        BY <1>1, ItemsMove
    <2>2. ASSUME NEW o \in MediaItems, MergedItems[o] \notin {NoItem, Unlisted}
          PROVE  ids'[MergedItems[o].media] # DeletedRow
        <3>1. MergedItems[o].media \in MediaItems
            BY <2>1, <2>2, ItemIs DEF ItemTables
        <3> QED
            BY <2>2, <3>1, <1>1, <1>3, ItemsMove
    <2> QED
        BY <2>1, <2>2, <1>1
<1>6. seen' \in SeenTables
    BY SeenMoves
<1>7. outbox' \in Seq(QueueRows) /\ Len(outbox') <= MaxQueued + 1
    BY OutboxMoves
<1>8. UpdateShape'
    <2>1. (OneEach(items))'
        BY <1>5 DEF OneEach, ItemOf
    <2> QED
        BY <2>1, <1>1, <1>3, <1>4, <1>5, <1>6, <1>7 DEF UpdateInv, UpdateShape, Exists, Listed
<1>9. ReadStays' /\ PlaysRead'
    BY <1>1 DEF ReadStays, PlaysRead
<1> QED
    BY <1>8, <1>9 DEF UpdateInv

LEMMA UpdateInitHolds == UpdateInit => UpdateInv
<1> SUFFICES ASSUME UpdateInit PROVE UpdateInv
    OBVIOUS
<1>1. update = NoUpdate /\ series \in BOOLEAN
    BY DEF UpdateInit
<1>2. ids \in [MediaItems -> (SUBSET Ids) \cup {DeletedRow}]
    BY DEF UpdateInit
<1>3. episodes \in EpisodeTables /\ \A e \in Episodes : episodes[e] = NoEpisode
    BY DEF UpdateInit, EpisodeTables
<1>4. seen \in SeenTables
    BY DEF UpdateInit, SeenTables, NoPlay, NotPushed
<1>5. items \in ItemTables /\ \A o \in MediaItems : items[o] = NoItem
    BY DEF UpdateInit, ItemTables
<1>6. OneEach(items)
    BY <1>5, NamesAssumption DEF OneEach, ItemOf, NoItem
<1>7. outbox \in Seq(QueueRows) /\ Len(outbox) <= MaxQueued + 1
    BY QueueAssumption DEF UpdateInit
<1> QED
    BY <1>1, <1>2, <1>3, <1>4, <1>5, <1>6, <1>7
    DEF UpdateInv, UpdateShape, ReadStays, PlaysRead, Listed

LEMMA UpdateNextHolds == UpdateInv /\ [UpdateNext]_updateVars => UpdateInv'
<1> SUFFICES ASSUME UpdateInv, [UpdateNext]_updateVars PROVE UpdateInv'
    OBVIOUS
<1>1. ASSUME NEW e \in Episodes, NEW r \in MediaItems, NEW n \in {1, 2}, NEW i \in EpisodeIds,
             AddEpisode(e, r, n, i)
      PROVE  UpdateInv'
    BY <1>1, AddEpisodeHolds
<1>2. ASSUME NEW w \in WatchRows, NEW x \in MediaItems \cup Episodes, NEW push \in BOOLEAN,
             AddWatch(w, x, push)
      PROVE  UpdateInv'
    BY <1>2, AddWatchHolds
<1>3. ASSUME NEW r \in MediaItems, RemoveItem(r) PROVE UpdateInv'
    BY <1>3, RemoveItemHolds
<1>4. ASSUME NEW r \in MediaItems, NEW status \in ListStatus, NEW L \in SUBSET ListSources,
             AddItem(r, status, L)
      PROVE  UpdateInv'
    BY <1>4, AddItemHolds
<1>5. ASSUME NEW k \in {"update", "push", "remove"}, NEW at \in MediaItems, Enqueue(k, at) PROVE UpdateInv'
    BY <1>5, EnqueueHolds
<1>6. ASSUME NEW j \in DOMAIN outbox, ClaimQueued(j) \/ FinishQueued(j) PROVE UpdateInv'
    BY <1>6, QueueMovesOn
<1>7. ASSUME NEW t \in MediaItems, NEW s \in MediaItems, NEW submit \in SUBSET Ids, BeginUpdate(t, s, submit)
      PROVE  UpdateInv'
    BY <1>7, BeginUpdateHolds
<1>8. CASE LoadRows \/ Repoint \/ CommitUpdate \/ FailUpdate
    BY <1>8, LoadRowsHolds, RepointHolds, CommitUpdateHolds, FailUpdateHolds
<1>9. CASE UNCHANGED updateVars
    BY <1>9 DEF UpdateInv, UpdateShape, ReadStays, PlaysRead, OneEach, ItemOf, Exists, Listed,
                Matched, Moving, MatchesOf, EpisodesOf, updateVars
<1> QED
    BY <1>1, <1>2, <1>3, <1>4, <1>5, <1>6, <1>7, <1>8, <1>9, Zenon DEF UpdateNext

LEMMA UpdateInvariance == UpdateSpec => []UpdateInv
  BY UpdateInitHolds, UpdateNextHolds, PTL DEF UpdateSpec

(* UpdateTypes: rows, episodes, plays, items, jobs and the request are of  *)
(* their types, and nothing refers to a row that was deleted.              *)
THEOREM UpdateTypes == UpdateSpec => []UpdateTypeOK
  BY UpdateInvariance, ShapeIsType, PTL DEF UpdateInv

LEMMA UpdateStep ==
    ASSUME UpdateInv, [UpdateNext]_updateVars
    PROVE  [UpdateCommits =>
              PlaysSurvive /\ PushesName /\ (~disturbed => ListSurvives /\ JobsSurvive)]_updateVars
<1> SUFFICES ASSUME UpdateNext, UpdateCommits
             PROVE  PlaysSurvive /\ PushesName /\ (~disturbed => ListSurvives /\ JobsSurvive)
    BY Zenon
<1>1. ids' # ids
    BY DEF UpdateCommits, Exists
<1>2. CommitUpdate
    BY <1>1 DEF UpdateNext, AddEpisode, AddWatch, RemoveItem, AddItem, Enqueue, ClaimQueued, FinishQueued,
                BeginUpdate, LoadRows, Repoint, FailUpdate
<1>3. PlaysSurvive /\ PushesName
    BY <1>2, PlaysFollow, PushesFollow
<1>4. ASSUME ~disturbed PROVE ListSurvives /\ JobsSurvive
    BY <1>2, <1>4, ListFollows, JobsMove
<1> QED
    BY <1>3, <1>4

(* MergesOfTitlesKeepAll: a merge of titles keeps plays and pushes of both *)
(* rows and, if nothing was written meanwhile, what is listed of them and  *)
(* the jobs on it (update_media_item_external_ids), for any rows, episodes *)
(* and plays.                                                              *)
THEOREM MergesOfTitlesKeepAll == UpdateSpec => MergeKeepsAll
  BY UpdateInvariance, UpdateStep, PTL DEF UpdateSpec, MergeKeepsAll

(* Metadata lookups *)

LookupStatuses == {"none", "pending", "in_progress", "completed", "failed"}
LookupRows == [status : LookupStatuses, stale : BOOLEAN, named : BOOLEAN]
AnswerRows == [run : Nat, rank : Nat]
Works ==
    [queue : Seq(LookupRequests), step : {"next", "asking"}, run : Nat, asked : SUBSET LookupProviders,
     rank : Nat \ {0}, doomed : SUBSET AnswerRows]

LookupShape ==
    /\ lookups \in [LookupRequests -> LookupRows] /\ answers \in [LookupRequests -> SUBSET AnswerRows]
    /\ runs \in [LookupRequests -> Nat] /\ overtaken \subseteq LookupRequests
    /\ work \in [LookupWorkers -> Works]
    /\ \A w \in LookupWorkers :
          /\ work[w].step = "asking" => work[w].queue # <<>>
          /\ \A i, j \in DOMAIN work[w].queue : work[w].queue[i] = work[w].queue[j] => i = j

Holds(w, l) == l \in Range(work[w].queue)
AsksFor(w, l) == work[w].step = "asking" /\ Head(work[w].queue) = l

\* A request that was not overtaken has one worker, and its answers are those of the attempt
\* at hand, or of the one before as long as nothing was stored.
LookupOK(l) ==
    l \notin overtaken =>
        /\ \A v, w \in LookupWorkers : Holds(v, l) /\ Holds(w, l) => v = w
        /\ \A w \in LookupWorkers : Holds(w, l) => lookups[l].status = "in_progress"
        /\ \A w \in LookupWorkers : AsksFor(w, l) =>
              /\ work[w].run = runs[l]
              /\ IF work[w].rank = 1 THEN answers[l] = work[w].doomed
                 ELSE work[w].doomed = {} /\ answers[l] = Numbered(runs[l], 1, work[w].rank - 1)
        /\ lookups[l].status = "completed" => \E n \in Nat \ {0} : answers[l] = Numbered(runs[l], 1, n)

LookupInv == LookupShape /\ \A l \in LookupRequests : LookupOK(l)

LEMMA IdleIs == AtRest \in Works /\ AtRest.queue = <<>> /\ AtRest.step = "next" /\ AtRest.rank = 1 /\ AtRest.doomed = {}
  BY DEF AtRest, Works

LEMMA NumberedIs ==
    ASSUME NEW run \in Nat, NEW rank \in Nat \ {0}, NEW n \in Nat
    PROVE  /\ Numbered(run, rank, n) \subseteq AnswerRows
           /\ Numbered(run, 1, rank - 1) \cup Numbered(run, rank, n) = Numbered(run, 1, rank + n - 1)
<1>1. /\ rank .. rank + n - 1 \subseteq Nat
      /\ (1 .. 1 + (rank - 1) - 1) \cup (rank .. rank + n - 1) = 1 .. 1 + (rank + n - 1) - 1
    OBVIOUS
<1>2. \A I, J : [run : {run}, rank : I] \cup [run : {run}, rank : J] = [run : {run}, rank : I \cup J]
    OBVIOUS
<1>3. Numbered(run, rank, n) \subseteq AnswerRows
    BY <1>1 DEF Numbered, AnswerRows
<1>4. Numbered(run, 1, rank - 1) \cup Numbered(run, rank, n) = Numbered(run, 1, rank + n - 1)
    BY <1>1, <1>2, Zenon DEF Numbered
<1> QED
    BY <1>3, <1>4

\* The first of a queue is in it, and once.
LEMMA HeadIs ==
    ASSUME LookupShape, NEW w \in LookupWorkers, work[w].queue # <<>>
    PROVE  /\ Head(work[w].queue) \in LookupRequests /\ Holds(w, Head(work[w].queue))
           /\ Tail(work[w].queue) \in Seq(LookupRequests)
           /\ \A i, j \in DOMAIN Tail(work[w].queue) : Tail(work[w].queue)[i] = Tail(work[w].queue)[j] => i = j
           /\ Range(Tail(work[w].queue)) = Range(work[w].queue) \ {Head(work[w].queue)}
<1> DEFINE q == work[w].queue
<1>1. q \in Seq(LookupRequests) /\ q # <<>>
    BY DEF LookupShape, Works
<1>2. \A i, j \in DOMAIN q : q[i] = q[j] => i = j
    BY DEF LookupShape
<1> HIDE DEF q
<1>3. Len(q) \in Nat \ {0} /\ DOMAIN q = 1 .. Len(q) /\ Head(q) = q[1] /\ Head(q) \in LookupRequests
    BY <1>1
<1>4. /\ Tail(q) \in Seq(LookupRequests) /\ DOMAIN Tail(q) = 1 .. Len(q) - 1
      /\ \A i \in 1 .. Len(q) - 1 : Tail(q)[i] = q[i + 1]
    BY <1>1, <1>3
<1>5. \A i, j \in DOMAIN Tail(q) : Tail(q)[i] = Tail(q)[j] => i = j
    <2> SUFFICES ASSUME NEW i \in 1 .. Len(q) - 1, NEW j \in 1 .. Len(q) - 1, q[i + 1] = q[j + 1] PROVE i = j
        BY <1>4
    <2>1. i + 1 = j + 1
        BY <1>2, <1>3
    <2> QED
        BY <2>1
<1>6. Range(Tail(q)) = Range(q) \ {Head(q)}
    <2>1. ASSUME NEW x \in Range(Tail(q)) PROVE x \in Range(q) \ {Head(q)}
        <3>1. PICK i \in 1 .. Len(q) - 1 : x = q[i + 1]
            BY <1>4 DEF Range
        <3>2. i + 1 \in 1 .. Len(q) /\ i + 1 # 1
            BY <1>3
        <3> QED
            BY <3>1, <3>2, <1>2, <1>3 DEF Range
    <2>2. ASSUME NEW x \in Range(q) \ {Head(q)} PROVE x \in Range(Tail(q))
        <3>1. PICK i \in 1 .. Len(q) : x = q[i] /\ i # 1
            BY <1>3 DEF Range
        <3>2. i - 1 \in 1 .. Len(q) - 1 /\ Tail(q)[i - 1] = x
            BY <3>1, <1>3, <1>4
        <3> QED
            BY <3>2, <1>4 DEF Range
    <2> QED
        BY <2>1, <2>2
<1>7. Head(q) \in Range(q)
    BY <1>3 DEF Range
<1> QED
    BY <1>3, <1>4, <1>5, <1>6, <1>7 DEF q, Holds

\* What a step does not touch stays.
LEMMA ElsewhereStays ==
    ASSUME NEW l, LookupOK(l), overtaken \subseteq overtaken',
           lookups'[l].status = lookups[l].status, answers'[l] = answers[l], runs'[l] = runs[l],
           \A w \in LookupWorkers : Holds(w, l)' => Holds(w, l),
           \A w \in LookupWorkers : AsksFor(w, l)' => AsksFor(w, l) /\ work'[w] = work[w]
    PROVE  LookupOK(l)'
<1> SUFFICES ASSUME l \notin overtaken' PROVE LookupOK(l)'
    BY DEF LookupOK
<1>1. l \notin overtaken
    OBVIOUS
<1>2. \A v, w \in LookupWorkers : Holds(v, l)' /\ Holds(w, l)' => v = w
    BY <1>1 DEF LookupOK
<1>3. \A w \in LookupWorkers : Holds(w, l)' => lookups'[l].status = "in_progress"
    BY <1>1 DEF LookupOK
<1>4. ASSUME NEW w \in LookupWorkers, AsksFor(w, l)'
      PROVE  /\ work'[w].run = runs'[l]
             /\ IF work'[w].rank = 1 THEN answers'[l] = work'[w].doomed
                ELSE work'[w].doomed = {} /\ answers'[l] = Numbered(runs'[l], 1, work'[w].rank - 1)
    BY <1>1, <1>4 DEF LookupOK
<1>5. lookups'[l].status = "completed" => \E n \in Nat \ {0} : answers'[l] = Numbered(runs'[l], 1, n)
    BY <1>1 DEF LookupOK
<1> QED
    BY <1>2, <1>3, <1>4, <1>5 DEF LookupOK, Holds, AsksFor, Numbered

LEMMA CreateLookupHolds ==
    ASSUME LookupInv, NEW l \in LookupRequests, CreateLookup(l)
    PROVE  LookupInv'
<1>1. /\ lookups[l].status = "none" /\ lookups' = [lookups EXCEPT ![l].status = "pending"]
      /\ UNCHANGED <<answers, work, runs, overtaken>>
    BY DEF CreateLookup
<1>2. lookups' \in [LookupRequests -> LookupRows]
      /\ \A k \in LookupRequests : lookups'[k].status = IF k = l THEN "pending" ELSE lookups[k].status
    BY <1>1 DEF LookupInv, LookupShape, LookupRows, LookupStatuses
<1>3. LookupShape'
    BY <1>1, <1>2 DEF LookupInv, LookupShape
<1>4. ASSUME NEW k \in LookupRequests PROVE LookupOK(k)'
    <2>1. CASE k = l
        BY <2>1, <1>1, <1>2 DEF LookupInv, LookupOK, Holds, AsksFor
    <2>2. CASE k # l
        BY <2>2, <1>1, <1>2, ElsewhereStays DEF LookupInv, Holds, AsksFor
    <2> QED
        BY <2>1, <2>2
<1> QED
    BY <1>3, <1>4 DEF LookupInv

LEMMA StaleHolds ==
    ASSUME LookupInv, NEW l \in LookupRequests, Stale(l)
    PROVE  LookupInv'
<1>1. lookups' = [lookups EXCEPT ![l].stale = TRUE] /\ UNCHANGED <<answers, work, runs, overtaken>>
    BY DEF Stale
<1>2. lookups' \in [LookupRequests -> LookupRows] /\ \A k \in LookupRequests : lookups'[k].status = lookups[k].status
    BY <1>1 DEF LookupInv, LookupShape, LookupRows
<1>3. LookupShape'
    BY <1>1, <1>2 DEF LookupInv, LookupShape
<1>4. \A k \in LookupRequests : LookupOK(k)'
    BY <1>1, <1>2, ElsewhereStays DEF LookupInv, Holds, AsksFor
<1> QED
    BY <1>3, <1>4 DEF LookupInv

LEMMA ClaimHolds ==
    ASSUME LookupInv, NEW w \in LookupWorkers, ClaimLookups(w)
    PROVE  LookupInv'
<1>1. PICK n \in 1 .. LookupBatch : \E claimed \in [1 .. n -> {l \in LookupRequests : Claimable(l)}] :
        /\ Oldest(claimed)
        /\ lookups' = [l \in LookupRequests |->
               IF l \in Range(claimed) THEN [lookups[l] EXCEPT !.status = "in_progress", !.stale = FALSE]
               ELSE lookups[l]]
        /\ overtaken' = overtaken \cup {l \in Range(claimed) : WorkedOn(l)}
        /\ work' = [work EXCEPT ![w] = [AtRest EXCEPT !.queue = claimed]]
    BY DEF ClaimLookups
<1>2. PICK claimed \in [1 .. n -> {l \in LookupRequests : Claimable(l)}] :
        /\ Oldest(claimed)
        /\ lookups' = [l \in LookupRequests |->
               IF l \in Range(claimed) THEN [lookups[l] EXCEPT !.status = "in_progress", !.stale = FALSE]
               ELSE lookups[l]]
        /\ overtaken' = overtaken \cup {l \in Range(claimed) : WorkedOn(l)}
        /\ work' = [work EXCEPT ![w] = [AtRest EXCEPT !.queue = claimed]]
    BY <1>1
<1>3. work[w] = AtRest /\ UNCHANGED <<answers, runs>>
    BY DEF ClaimLookups
<1>4. claimed \in Seq(LookupRequests) /\ DOMAIN claimed = 1 .. n /\ Range(claimed) \subseteq LookupRequests /\ n \in Nat
    BY LookupAssumption DEF Range
<1>5. \A i, j \in 1 .. n : claimed[i] = claimed[j] => i = j
    <2> SUFFICES ASSUME NEW i \in 1 .. n, NEW j \in 1 .. n, i # j PROVE claimed[i] # claimed[j]
        OBVIOUS
    <2>1. claimed[i] \in Int /\ claimed[j] \in Int
        BY <1>4 DEF LookupRequests
    <2>2. i < j => claimed[i] < claimed[j]
        BY <1>2, <1>4 DEF Oldest
    <2>3. j < i => claimed[j] < claimed[i]
        BY <1>2, <1>4 DEF Oldest
    <2> QED
        BY <2>1, <2>2, <2>3
<1> DEFINE new == [AtRest EXCEPT !.queue = claimed]
<1>6. new \in Works /\ new.queue = claimed /\ new.step = "next"
    BY <1>4 DEF AtRest, Works
<1> HIDE DEF new
<1>7. work' \in [LookupWorkers -> Works] /\ \A v \in LookupWorkers : work'[v] = IF v = w THEN new ELSE work[v]
    BY <1>2, <1>6 DEF LookupInv, LookupShape, new
<1>8. lookups' \in [LookupRequests -> LookupRows]
      /\ \A l \in LookupRequests :
            lookups'[l].status = IF l \in Range(claimed) THEN "in_progress" ELSE lookups[l].status
    BY <1>2 DEF LookupInv, LookupShape, LookupRows, LookupStatuses
<1>9. LookupShape'
    <2>1. overtaken' \subseteq LookupRequests
        BY <1>2, <1>4 DEF LookupInv, LookupShape
    <2>2. answers' \in [LookupRequests -> SUBSET AnswerRows] /\ runs' \in [LookupRequests -> Nat]
        BY <1>3 DEF LookupInv, LookupShape
    <2>3. ASSUME NEW v \in LookupWorkers
          PROVE  /\ work'[v].step = "asking" => work'[v].queue # <<>>
                 /\ \A i, j \in DOMAIN work'[v].queue : work'[v].queue[i] = work'[v].queue[j] => i = j
        <3>1. CASE v = w
            BY <3>1, <1>4, <1>5, <1>6, <1>7
        <3>2. CASE v # w
            BY <3>2, <1>7 DEF LookupInv, LookupShape
        <3> QED
            BY <3>1, <3>2
    <2> QED
        BY <2>1, <2>2, <2>3, <1>7, <1>8 DEF LookupShape
<1>10. ASSUME NEW l \in LookupRequests PROVE LookupOK(l)'
    <2>1. Holds(w, l)' <=> l \in Range(claimed)
        BY <1>6, <1>7 DEF Holds
    <2>2. ~AsksFor(w, l)'
        BY <1>6, <1>7 DEF AsksFor
    <2>3. ~Holds(w, l)
        BY <1>3, IdleIs DEF Holds, Range
    <2>4. \A v \in LookupWorkers \ {w} : (Holds(v, l)' <=> Holds(v, l)) /\ (AsksFor(v, l)' <=> AsksFor(v, l))
        BY <1>7 DEF Holds, AsksFor
    <2>5. CASE l \in Range(claimed)
        <3> SUFFICES ASSUME l \notin overtaken' PROVE LookupOK(l)'
            BY DEF LookupOK
        <3>1. \A v \in LookupWorkers : ~Holds(v, l)
            BY <2>5, <1>2 DEF WorkedOn, Holds
        <3>2. \A v \in LookupWorkers : AsksFor(v, l) => Holds(v, l)
            BY HeadIs DEF LookupInv, LookupShape, AsksFor
        <3>3. \A v \in LookupWorkers : ~AsksFor(v, l)'
            BY <3>1, <3>2, <2>2, <2>4
        <3>4. \A v \in LookupWorkers : Holds(v, l)' => v = w
            BY <3>1, <2>4
        <3>5. lookups'[l].status = "in_progress"
            BY <2>5, <1>8
        <3> QED
            BY <3>3, <3>4, <3>5 DEF LookupOK
    <2>6. CASE l \notin Range(claimed)
        <3>1. overtaken \subseteq overtaken' /\ lookups'[l].status = lookups[l].status
            BY <2>6, <1>2, <1>8
        <3>2. \A v \in LookupWorkers : Holds(v, l)' => Holds(v, l)
            BY <2>1, <2>4, <2>6
        <3>3. \A v \in LookupWorkers : AsksFor(v, l)' => AsksFor(v, l) /\ work'[v] = work[v]
            BY <2>2, <2>4, <1>7
        <3> QED
            BY <3>1, <3>2, <3>3, <1>3, ElsewhereStays DEF LookupInv
    <2> QED
        BY <2>5, <2>6
<1> QED
    BY <1>9, <1>10 DEF LookupInv

\* What a worker does with the first of its batch.
LEMMA CommitIs ==
    ASSUME LookupShape, NEW l \in LookupRequests, NEW doomed, NEW new \in SUBSET AnswerRows,
           CommitAnswers(l, doomed, new)
    PROVE  /\ lookups' \in [LookupRequests -> LookupRows]
           /\ \A k \in LookupRequests : lookups'[k].status = lookups[k].status
           /\ answers' \in [LookupRequests -> SUBSET AnswerRows]
           /\ answers'[l] = (answers[l] \ doomed) \cup new /\ \A k \in LookupRequests \ {l} : answers'[k] = answers[k]
<1>1. PICK stale \in BOOLEAN : lookups' = [lookups EXCEPT ![l].stale = stale, ![l].named = TRUE]
    BY DEF CommitAnswers, LookupShape, LookupRows
<1>2. lookups' \in [LookupRequests -> LookupRows] /\ \A k \in LookupRequests : lookups'[k].status = lookups[k].status
    BY <1>1 DEF LookupShape, LookupRows
<1>3. answers' = [answers EXCEPT ![l] = (answers[l] \ doomed) \cup new]
    BY DEF CommitAnswers
<1> QED
    BY <1>2, <1>3 DEF LookupShape

\* Another worker does not work on a request that was not overtaken.
LEMMA HeadStep ==
    ASSUME LookupInv, NEW w \in LookupWorkers, NEW l \in LookupRequests, Holds(w, l),
           NEW new, work' = [work EXCEPT ![w] = new],
           Range(new.queue) \subseteq Range(work[w].queue),
           new.step = "asking" => Head(new.queue) = l, UNCHANGED overtaken,
           \A k \in LookupRequests \ {l} :
              lookups'[k].status = lookups[k].status /\ answers'[k] = answers[k] /\ runs'[k] = runs[k],
           l \notin overtaken => 
              /\ l \in Range(new.queue) => lookups'[l].status = "in_progress"
              /\ new.step = "asking" =>
                    /\ new.run = runs'[l]
                    /\ IF new.rank = 1 THEN answers'[l] = new.doomed
                       ELSE new.doomed = {} /\ answers'[l] = Numbered(runs'[l], 1, new.rank - 1)
              /\ lookups'[l].status = "completed" => \E n \in Nat \ {0} : answers'[l] = Numbered(runs'[l], 1, n)
    PROVE  \A k \in LookupRequests : LookupOK(k)'
<1>1. \A v \in LookupWorkers : work'[v] = IF v = w THEN new ELSE work[v]
    BY DEF LookupInv, LookupShape
<1>2. \A v \in LookupWorkers \ {w}, k \in LookupRequests :
         (Holds(v, k)' <=> Holds(v, k)) /\ (AsksFor(v, k)' <=> AsksFor(v, k))
    BY <1>1 DEF Holds, AsksFor
<1>3. \A k \in LookupRequests : (Holds(w, k)' <=> k \in Range(new.queue)) /\ (Holds(w, k)' => Holds(w, k))
    BY <1>1 DEF Holds
<1>4. \A k \in LookupRequests : AsksFor(w, k)' <=> new.step = "asking" /\ Head(new.queue) = k
    BY <1>1 DEF AsksFor
<1>5. ASSUME NEW k \in LookupRequests \ {l} PROVE LookupOK(k)'
    <2>1. \A v \in LookupWorkers : AsksFor(v, k)' => AsksFor(v, k) /\ work'[v] = work[v]
        BY <1>1, <1>2, <1>4
    <2>2. \A v \in LookupWorkers : Holds(v, k)' => Holds(v, k)
        BY <1>2, <1>3
    <2> QED
        BY <2>1, <2>2, ElsewhereStays DEF LookupInv
<1>6. LookupOK(l)'
    <2> SUFFICES ASSUME l \notin overtaken PROVE LookupOK(l)'
        BY DEF LookupOK
    <2>1. \A v \in LookupWorkers : Holds(v, l) => v = w
        BY DEF LookupInv, LookupOK
    <2>2. \A v \in LookupWorkers : AsksFor(v, l) => Holds(v, l)
        BY HeadIs DEF LookupInv, LookupShape, AsksFor
    <2>3. \A v \in LookupWorkers : Holds(v, l)' => v = w
        BY <2>1, <1>2
    <2>4. \A v \in LookupWorkers : AsksFor(v, l)' => v = w
        BY <2>1, <2>2, <1>2
    <2> QED
        BY <2>3, <2>4, <1>1, <1>3, <1>4 DEF LookupOK
<1> QED
    BY <1>5, <1>6

\* The worker's shape after a step at the first of its batch.
LEMMA HeadShape ==
    ASSUME LookupInv, NEW w \in LookupWorkers, NEW new \in Works, work' = [work EXCEPT ![w] = new],
           new.step = "asking" => new.queue # <<>>,
           \A i, j \in DOMAIN new.queue : new.queue[i] = new.queue[j] => i = j,
           lookups' \in [LookupRequests -> LookupRows], answers' \in [LookupRequests -> SUBSET AnswerRows],
           runs' \in [LookupRequests -> Nat], UNCHANGED overtaken
    PROVE  LookupShape'
<1>1. work' \in [LookupWorkers -> Works] /\ \A v \in LookupWorkers : work'[v] = IF v = w THEN new ELSE work[v]
    BY DEF LookupInv, LookupShape
<1>2. ASSUME NEW v \in LookupWorkers
      PROVE  /\ work'[v].step = "asking" => work'[v].queue # <<>>
             /\ \A i, j \in DOMAIN work'[v].queue : work'[v].queue[i] = work'[v].queue[j] => i = j
    <2>1. CASE v = w
        BY <2>1, <1>1
    <2>2. CASE v # w
        BY <2>2, <1>1 DEF LookupInv, LookupShape
    <2> QED
        BY <2>1, <2>2
<1> QED
    BY <1>1, <1>2 DEF LookupInv, LookupShape

LEMMA BeginLookupHolds ==
    ASSUME LookupInv, NEW w \in LookupWorkers, NEW local \in 0 .. MaxFound, NEW enabled \in SUBSET LookupProviders,
           BeginLookup(w, local, enabled)
    PROVE  LookupInv'
<1> DEFINE l == Head(work[w].queue)
           run == runs[l] + 1
           doomed == IF local > 0 THEN {} ELSE answers[l]
           new == [work[w] EXCEPT !.step = "asking", !.run = run, !.asked = enabled, !.rank = local + 1,
                                  !.doomed = doomed]
<1>1. /\ work[w].queue # <<>> /\ runs' = [runs EXCEPT ![l] = run]
      /\ IF local > 0 THEN CommitAnswers(l, answers[l], Numbered(run, 1, local)) ELSE UNCHANGED <<answers, lookups>>
      /\ UNCHANGED overtaken
    BY DEF BeginLookup, Doomed
<1>2. work' = [work EXCEPT ![w] = new]
    BY DEF BeginLookup, Doomed, LookupInv, LookupShape, Works
<1>3. l \in LookupRequests /\ Holds(w, l)
    BY <1>1, HeadIs DEF LookupInv
<1>4. local \in Nat /\ run \in Nat /\ runs[l] \in Nat
    BY <1>3, LookupAssumption DEF LookupInv, LookupShape
<1>5. work[w] \in Works /\ answers[l] \subseteq AnswerRows
    BY <1>3 DEF LookupInv, LookupShape
<1>7. /\ runs' \in [LookupRequests -> Nat] /\ runs'[l] = run /\ \A k \in LookupRequests \ {l} : runs'[k] = runs[k]
    BY <1>1, <1>3, <1>4 DEF LookupInv, LookupShape
<1>14. doomed \subseteq AnswerRows /\ local + 1 \in Nat \ {0}
    BY <1>4, <1>5
<1> HIDE DEF run, l, doomed
<1>6. new \in Works /\ new.queue = work[w].queue /\ new.step = "asking" /\ new.run = run /\ new.rank = local + 1
      /\ new.doomed = doomed
    BY <1>4, <1>5, <1>14 DEF Works
<1> HIDE DEF new
<1>8. /\ lookups' \in [LookupRequests -> LookupRows] /\ \A k \in LookupRequests : lookups'[k].status = lookups[k].status
      /\ answers' \in [LookupRequests -> SUBSET AnswerRows]
      /\ answers'[l] = (IF local > 0 THEN Numbered(run, 1, local) ELSE answers[l])
      /\ \A k \in LookupRequests \ {l} : answers'[k] = answers[k]
    <2>1. CASE local > 0
        <3>1. CommitAnswers(l, answers[l], Numbered(run, 1, local)) /\ Numbered(run, 1, local) \in SUBSET AnswerRows
            <4>1. CommitAnswers(l, answers[l], Numbered(run, 1, local))
                BY <1>1, <2>1
            <4>2. Numbered(run, 1, local) \subseteq AnswerRows
                BY <1>4, NumberedIs
            <4> QED
                BY <4>1, <4>2
        <3>2. /\ lookups' \in [LookupRequests -> LookupRows]
              /\ \A k \in LookupRequests : lookups'[k].status = lookups[k].status
              /\ answers' \in [LookupRequests -> SUBSET AnswerRows]
              /\ answers'[l] = (answers[l] \ answers[l]) \cup Numbered(run, 1, local)
              /\ \A k \in LookupRequests \ {l} : answers'[k] = answers[k]
            BY <3>1, <1>3, CommitIs DEF LookupInv
        <3>3. (answers[l] \ answers[l]) \cup Numbered(run, 1, local) = Numbered(run, 1, local)
            OBVIOUS
        <3> QED
            BY <3>2, <3>3, <2>1
    <2>2. CASE ~(local > 0)
        BY <2>2, <1>1 DEF LookupInv, LookupShape
    <2> QED
        BY <2>1, <2>2
<1>9. LookupShape'
    <2>1. \A i, j \in DOMAIN new.queue : new.queue[i] = new.queue[j] => i = j
        BY <1>6 DEF LookupInv, LookupShape
    <2> QED
        BY <2>1, <1>1, <1>2, <1>6, <1>7, <1>8, HeadShape
<1>10. new.run = runs'[l] /\ IF new.rank = 1 THEN answers'[l] = new.doomed
          ELSE new.doomed = {} /\ answers'[l] = Numbered(runs'[l], 1, new.rank - 1)
    BY <1>4, <1>6, <1>7, <1>8 DEF doomed
<1>11. l \notin overtaken => lookups'[l].status = "in_progress"
    BY <1>3, <1>8 DEF LookupInv, LookupOK
<1>12. Head(new.queue) = l /\ Range(new.queue) \subseteq Range(work[w].queue)
    BY <1>6 DEF l
<1>13. \A k \in LookupRequests : LookupOK(k)'
    BY <1>1, <1>2, <1>3, <1>7, <1>8, <1>10, <1>11, <1>12, HeadStep
<1> QED
    BY <1>9, <1>13 DEF LookupInv

LEMMA AnswerHolds ==
    ASSUME LookupInv, NEW w \in LookupWorkers, NEW p \in LookupProviders, TakeAnswer(w, p)
    PROVE  LookupInv'
<1> DEFINE l == Head(work[w].queue)
<1>1. /\ work[w].step = "asking" /\ work[w].queue # <<>>
      /\ UNCHANGED <<runs, overtaken>>
    BY DEF TakeAnswer, LookupInv, LookupShape
<1>2. PICK n \in Answers(p, KindOf[l]) :
         /\ work' = [work EXCEPT ![w].asked = @ \ {p}, ![w].rank = @ + n, ![w].doomed = IF n > 0 THEN {} ELSE @]
         /\ IF n > 0 THEN CommitAnswers(l, work[w].doomed, Numbered(work[w].run, work[w].rank, n))
            ELSE UNCHANGED <<answers, lookups>>
    BY DEF TakeAnswer
<1>14. n \in Nat
    BY LookupAssumption DEF Answers
<1> DEFINE new == [work[w] EXCEPT !.asked = work[w].asked \ {p}, !.rank = work[w].rank + n,
                                  !.doomed = IF n > 0 THEN {} ELSE work[w].doomed]
<1>3. work' = [work EXCEPT ![w] = new]
    BY <1>2 DEF LookupInv, LookupShape, Works
<1>4. l \in LookupRequests /\ Holds(w, l) /\ AsksFor(w, l)
    BY <1>1, HeadIs DEF LookupInv, AsksFor
<1>5. work[w] \in Works /\ answers[l] \subseteq AnswerRows
    BY <1>4 DEF LookupInv, LookupShape
<1>6. /\ work[w].run \in Nat /\ work[w].rank \in Nat \ {0} /\ work[w].doomed \subseteq AnswerRows
      /\ work[w].rank + n \in Nat \ {0}
    BY <1>5, <1>14 DEF Works
<1>7. /\ new \in Works /\ new.queue = work[w].queue /\ new.step = "asking" /\ new.run = work[w].run
      /\ new.rank = work[w].rank + n /\ new.doomed = IF n > 0 THEN {} ELSE work[w].doomed
    BY <1>1, <1>5, <1>6 DEF Works
<1> HIDE DEF l, new
<1>8. /\ lookups' \in [LookupRequests -> LookupRows] /\ \A k \in LookupRequests : lookups'[k].status = lookups[k].status
      /\ answers' \in [LookupRequests -> SUBSET AnswerRows]
      /\ answers'[l] = (IF n > 0 THEN (answers[l] \ work[w].doomed) \cup Numbered(work[w].run, work[w].rank, n)
                        ELSE answers[l])
      /\ \A k \in LookupRequests \ {l} : answers'[k] = answers[k]
    <2>1. CASE n > 0
        <3>1. CommitAnswers(l, work[w].doomed, Numbered(work[w].run, work[w].rank, n))
              /\ Numbered(work[w].run, work[w].rank, n) \in SUBSET AnswerRows
            BY <1>14, <1>2, <1>6, <2>1, NumberedIs
        <3> QED
            BY <3>1, <1>4, <2>1, CommitIs DEF LookupInv
    <2>2. CASE ~(n > 0)
        BY <1>14, <2>2, <1>2 DEF LookupInv, LookupShape
    <2> QED
        BY <2>1, <2>2
<1>9. LookupShape'
    <2>1. \A i, j \in DOMAIN new.queue : new.queue[i] = new.queue[j] => i = j
        BY <1>7 DEF LookupInv, LookupShape
    <2>2. new.queue # <<>> /\ runs' \in [LookupRequests -> Nat]
        BY <1>1, <1>7 DEF LookupInv, LookupShape
    <2> QED
        BY <2>1, <2>2, <1>1, <1>3, <1>7, <1>8, HeadShape
<1>10. ASSUME l \notin overtaken
       PROVE  new.run = runs'[l] /\ IF new.rank = 1 THEN answers'[l] = new.doomed
              ELSE new.doomed = {} /\ answers'[l] = Numbered(runs'[l], 1, new.rank - 1)
    <2>1. /\ work[w].run = runs[l]
          /\ IF work[w].rank = 1 THEN answers[l] = work[w].doomed
             ELSE work[w].doomed = {} /\ answers[l] = Numbered(runs[l], 1, work[w].rank - 1)
        BY <1>4, <1>10 DEF LookupInv, LookupOK
    <2>2. runs'[l] = runs[l]
        BY <1>1
    <2>3. CASE n = 0
        BY <1>14, <2>1, <2>2, <2>3, <1>6, <1>7, <1>8
    <2>4. CASE n > 0
        <3>1. new.rank # 1 /\ new.doomed = {} /\ new.rank - 1 = work[w].rank + n - 1
            BY <1>14, <2>4, <1>6, <1>7
        <3>2. CASE work[w].rank = 1
            <4>1. answers'[l] = Numbered(runs[l], 1, n) /\ new.rank - 1 = n
                <5>1. answers'[l] = (answers[l] \ work[w].doomed) \cup Numbered(work[w].run, work[w].rank, n)
                    BY <2>4, <1>8
                <5>2. answers'[l] = (answers[l] \ answers[l]) \cup Numbered(runs[l], 1, n)
                    BY <5>1, <2>1, <3>2
                <5>3. new.rank - 1 = n
                    BY <3>1, <3>2, <1>14
                <5> QED
                    BY <5>2, <5>3
            <4> QED
                BY <4>1, <3>1, <2>1, <2>2, <1>7
        <3>3. CASE work[w].rank # 1
            <4>1. answers'[l] = Numbered(runs[l], 1, work[w].rank - 1) \cup Numbered(runs[l], work[w].rank, n)
                BY <3>3, <2>1, <2>4, <1>8
            <4>2. answers'[l] = Numbered(runs[l], 1, work[w].rank + n - 1)
                <5>1. runs[l] \in Nat /\ work[w].rank \in Nat \ {0} /\ n \in Nat
                    BY <1>14, <1>6, <2>1
                <5> QED
                    BY <5>1, <4>1, NumberedIs
            <4> QED
                BY <4>2, <3>1, <2>1, <2>2, <1>7
        <3> QED
            BY <3>2, <3>3
    <2> QED
        BY <2>3, <2>4, <1>14
<1>11. l \notin overtaken => lookups'[l].status = "in_progress"
    BY <1>4, <1>8 DEF LookupInv, LookupOK
<1>12. Head(new.queue) = l /\ Range(new.queue) \subseteq Range(work[w].queue)
    BY <1>7 DEF l
<1>13. \A k \in LookupRequests : LookupOK(k)'
    BY <1>1, <1>3, <1>4, <1>8, <1>10, <1>11, <1>12, HeadStep
<1> QED
    BY <1>9, <1>13 DEF LookupInv

\* The end of a request: it is completed only with what was stored for it.
LEMMA CloseHolds ==
    ASSUME LookupInv, NEW w \in LookupWorkers, NEW status \in {"failed", "completed"}, Close(w, status),
           work[w].queue # <<>>, status = "completed" => work[w].step = "asking" /\ work[w].rank # 1
    PROVE  LookupInv'
<1> DEFINE l == Head(work[w].queue)
           new == [AtRest EXCEPT !.queue = Tail(work[w].queue)]
<1>1. /\ work' = [work EXCEPT ![w] = new] /\ UNCHANGED <<runs, overtaken>>
      /\ answers' = [answers EXCEPT ![l] = answers[l] \ work[w].doomed]
      /\ lookups' = [lookups EXCEPT ![l].status = status, ![l].stale = FALSE, ![l].named = @ \/ work[w].step = "asking"]
    BY DEF Close
<1>2. /\ l \in LookupRequests /\ Holds(w, l) /\ Tail(work[w].queue) \in Seq(LookupRequests)
      /\ \A i, j \in DOMAIN Tail(work[w].queue) : Tail(work[w].queue)[i] = Tail(work[w].queue)[j] => i = j
      /\ Range(Tail(work[w].queue)) = Range(work[w].queue) \ {l}
    BY HeadIs DEF LookupInv
<1> DEFINE rest == Tail(work[w].queue)
<1> HIDE DEF rest
<1>3. new \in Works /\ new.queue = Tail(work[w].queue) /\ new.step = "next"
    <2>1. rest \in Seq(LookupRequests)
        BY <1>2 DEF rest
    <2>2. [AtRest EXCEPT !.queue = rest] \in Works /\ [AtRest EXCEPT !.queue = rest].queue = rest
          /\ [AtRest EXCEPT !.queue = rest].step = "next"
        BY <2>1 DEF AtRest, Works
    <2> QED
        BY <2>2 DEF rest
<1>4. work[w] \in Works /\ answers[l] \subseteq AnswerRows
    BY <1>2 DEF LookupInv, LookupShape
<1> HIDE DEF l, new
<1>5. /\ lookups' \in [LookupRequests -> LookupRows]
      /\ lookups'[l].status = status /\ \A k \in LookupRequests \ {l} : lookups'[k].status = lookups[k].status
    <2>1. \A k \in LookupRequests : lookups[k] \in LookupRows
        BY DEF LookupInv, LookupShape
    <2>2. (lookups[l].named \/ work[w].step = "asking") \in BOOLEAN
        OBVIOUS
    <2>3. lookups' = [lookups EXCEPT ![l] = [lookups[l] EXCEPT !.status = status, !.stale = FALSE,
                                                !.named = lookups[l].named \/ work[w].step = "asking"]]
        BY <1>1, <1>2 DEF LookupInv, LookupShape
    <2> DEFINE row == [lookups[l] EXCEPT !.status = status, !.stale = FALSE,
                                         !.named = lookups[l].named \/ work[w].step = "asking"]
    <2>4. row \in LookupRows /\ row.status = status
        BY <2>1, <1>2 DEF LookupRows, LookupStatuses
    <2> HIDE DEF row
    <2> QED
        BY <2>3, <2>4, <1>2 DEF LookupInv, LookupShape, row
<1>6. /\ answers' \in [LookupRequests -> SUBSET AnswerRows] /\ answers'[l] = answers[l] \ work[w].doomed
      /\ \A k \in LookupRequests \ {l} : answers'[k] = answers[k]
    BY <1>1, <1>2, <1>4 DEF LookupInv, LookupShape
<1>7. LookupShape'
    <2>1. \A i, j \in DOMAIN new.queue : new.queue[i] = new.queue[j] => i = j
        BY <1>2, <1>3
    <2>2. runs' \in [LookupRequests -> Nat]
        BY <1>1 DEF LookupInv, LookupShape
    <2> QED
        BY <2>1, <2>2, <1>1, <1>3, <1>5, <1>6, HeadShape
<1>8. l \notin Range(new.queue) /\ Range(new.queue) \subseteq Range(work[w].queue)
    BY <1>2, <1>3
<1>9. ASSUME l \notin overtaken, status = "completed"
      PROVE  \E n \in Nat \ {0} : answers'[l] = Numbered(runs'[l], 1, n)
    <2>1. AsksFor(w, l)
        BY <1>9 DEF AsksFor, l
    <2>2. work[w].doomed = {} /\ answers[l] = Numbered(runs[l], 1, work[w].rank - 1)
        BY <2>1, <1>2, <1>9 DEF LookupInv, LookupOK
    <2>3. work[w].rank - 1 \in Nat \ {0}
        BY <1>4, <1>9 DEF Works
    <2> QED
        BY <2>2, <2>3, <1>1, <1>6
<1>10. \A k \in LookupRequests : LookupOK(k)'
    BY <1>1, <1>2, <1>3, <1>5, <1>6, <1>8, <1>9, HeadStep
<1> QED
    BY <1>7, <1>10 DEF LookupInv

\* A worker that lets go of its batch, and does not complete a request by it.
LEMMA LetGoHolds ==
    ASSUME LookupInv, NEW w \in LookupWorkers, work' = [work EXCEPT ![w] = AtRest],
           UNCHANGED <<answers, runs, overtaken>>, lookups' \in [LookupRequests -> LookupRows],
           \A l \in LookupRequests :
               lookups'[l].status = lookups[l].status \/ (Holds(w, l) /\ lookups'[l].status = "pending")
    PROVE  LookupInv'
<1>1. \A v \in LookupWorkers : work'[v] = IF v = w THEN AtRest ELSE work[v]
    BY DEF LookupInv, LookupShape
<1>2. LookupShape'
    BY IdleIs, HeadShape DEF LookupInv, LookupShape
<1>3. ASSUME NEW l \in LookupRequests PROVE LookupOK(l)'
    <2>1. ~Holds(w, l)' /\ ~AsksFor(w, l)'
        BY <1>1, IdleIs DEF Holds, AsksFor, Range
    <2>2. \A v \in LookupWorkers \ {w} : (Holds(v, l)' <=> Holds(v, l)) /\ (AsksFor(v, l)' <=> AsksFor(v, l))
        BY <1>1 DEF Holds, AsksFor
    <2>3. CASE lookups'[l].status = lookups[l].status
        <3>1. \A v \in LookupWorkers : Holds(v, l)' => Holds(v, l)
            BY <2>1, <2>2
        <3>2. \A v \in LookupWorkers : AsksFor(v, l)' => AsksFor(v, l) /\ work'[v] = work[v]
            BY <2>1, <2>2, <1>1
        <3> QED
            BY <2>3, <3>1, <3>2, ElsewhereStays DEF LookupInv
    <2>4. CASE Holds(w, l) /\ lookups'[l].status = "pending"
        <3> SUFFICES ASSUME l \notin overtaken PROVE LookupOK(l)'
            BY DEF LookupOK
        <3>1. \A v \in LookupWorkers : Holds(v, l) => v = w
            BY <2>4 DEF LookupInv, LookupOK
        <3>2. \A v \in LookupWorkers : AsksFor(v, l) => Holds(v, l)
            BY HeadIs DEF LookupInv, LookupShape, AsksFor
        <3>3. \A v \in LookupWorkers : ~Holds(v, l)' /\ ~AsksFor(v, l)'
            BY <3>1, <3>2, <2>1, <2>2
        <3> QED
            BY <3>3, <2>4 DEF LookupOK
    <2> QED
        BY <2>3, <2>4
<1> QED
    BY <1>2, <1>3 DEF LookupInv

LEMMA LookupInitHolds == LookupInit => LookupInv
<1> SUFFICES ASSUME LookupInit PROVE LookupInv
    OBVIOUS
<1>1. LookupShape
    BY IdleIs DEF LookupInit, LookupShape, LookupRows, LookupStatuses, AnswerRows
<1>2. \A w \in LookupWorkers : work[w] = AtRest
    BY DEF LookupInit
<1>3. \A l \in LookupRequests, w \in LookupWorkers : ~Holds(w, l) /\ ~AsksFor(w, l)
    BY <1>2, IdleIs DEF Holds, AsksFor, Range
<1>4. \A l \in LookupRequests : lookups[l].status = "none"
    BY DEF LookupInit
<1> QED
    BY <1>1, <1>3, <1>4 DEF LookupInv, LookupOK

LEMMA LookupNextHolds == LookupInv /\ [LookupNext]_lookupVars => LookupInv'
<1> SUFFICES ASSUME LookupInv, [LookupNext]_lookupVars PROVE LookupInv'
    OBVIOUS
<1>1. ASSUME NEW w \in LookupWorkers, Finish(w) PROVE LookupInv'
    <2>1. work[w].queue # <<>>
        BY <1>1 DEF Finish, LookupInv, LookupShape
    <2>2. CASE work[w].rank = 1
        BY <2>1, <2>2, <1>1, CloseHolds DEF Finish
    <2>3. CASE work[w].rank # 1
        BY <2>1, <2>3, <1>1, CloseHolds DEF Finish
    <2> QED
        BY <2>2, <2>3
<1>2. ASSUME NEW w \in LookupWorkers, Refuse(w) PROVE LookupInv'
    BY <1>2, CloseHolds DEF Refuse
<1>3. ASSUME NEW w \in LookupWorkers, Abandon(w) PROVE LookupInv'
    <2>1. work' = [work EXCEPT ![w] = AtRest] /\ UNCHANGED <<lookups, answers, runs, overtaken>>
        BY <1>3 DEF Abandon
    <2>2. lookups' \in [LookupRequests -> LookupRows]
        BY <2>1 DEF LookupInv, LookupShape
    <2> QED
        BY <2>1, <2>2, LetGoHolds
<1>4. ASSUME NEW w \in LookupWorkers, Shutdown(w) PROVE LookupInv'
    <2>1. /\ work' = [work EXCEPT ![w] = AtRest] /\ UNCHANGED <<answers, runs, overtaken>>
          /\ lookups' = [l \in LookupRequests |->
               IF l \in Range(work[w].queue) THEN [lookups[l] EXCEPT !.status = "pending"] ELSE lookups[l]]
        BY <1>4 DEF Shutdown
    <2>2. lookups' \in [LookupRequests -> LookupRows]
          /\ \A l \in LookupRequests : lookups'[l].status = lookups[l].status
                                  \/ (Holds(w, l) /\ lookups'[l].status = "pending")
        BY <2>1 DEF LookupInv, LookupShape, LookupRows, LookupStatuses, Holds
    <2> QED
        BY <2>1, <2>2, LetGoHolds
<1>5. CASE UNCHANGED lookupVars
    <2>1. UNCHANGED <<lookups, answers, work, runs, overtaken>>
        BY <1>5 DEF lookupVars
    <2>2. LookupShape'
        BY <2>1 DEF LookupInv, LookupShape
    <2>3. \A l \in LookupRequests : LookupOK(l)'
        BY <2>1, ElsewhereStays DEF LookupInv, Holds, AsksFor
    <2> QED
        BY <2>2, <2>3 DEF LookupInv
<1> QED
    BY <1>1, <1>2, <1>3, <1>4, <1>5, CreateLookupHolds, StaleHolds, ClaimHolds, BeginLookupHolds, AnswerHolds
    DEF LookupNext, LookupStep

LEMMA LookupInvariance == LookupSpec => []LookupInv
<1> QED
    BY LookupInitHolds, LookupNextHolds, PTL DEF LookupSpec

\* A numbered answer is as large as its last number.
LEMMA NumberedCount ==
    ASSUME NEW run \in Nat, NEW n \in Nat \ {0}
    PROVE  /\ Numbered(run, 1, n) # {} /\ {c.run : c \in Numbered(run, 1, n)} = {run}
           /\ {c.rank : c \in Numbered(run, 1, n)} = 1 .. Cardinality(Numbered(run, 1, n))
<1> DEFINE A == [run : {run}, rank : 1 .. n]
           f == [i \in 1 .. n |-> [run |-> run, rank |-> i]]
<1>1. Numbered(run, 1, n) = A
    <2>1. 1 + n - 1 = n
        OBVIOUS
    <2> QED
        BY <2>1 DEF Numbered
<1>2. f \in Bijection(1 .. n, A)
    BY DEF Bijection, Injection, Surjection, IsInjective
<1>3. IsFiniteSet(1 .. n) /\ Cardinality(1 .. n) = n
    BY FS_Interval
<1>4. Cardinality(A) = n
    BY <1>2, <1>3, FS_Bijection DEF ExistsBijection
<1>5. [run |-> run, rank |-> 1] \in A
    OBVIOUS
<1>6. {c.run : c \in A} = {run}
    BY <1>5
<1>7. {c.rank : c \in A} = 1 .. n
    <2>1. ASSUME NEW i \in 1 .. n PROVE i \in {c.rank : c \in A}
        <3>1. [run |-> run, rank |-> i] \in A /\ [run |-> run, rank |-> i].rank = i
            OBVIOUS
        <3> QED
            BY <3>1
    <2> QED
        BY <2>1
<1> QED
    BY <1>1, <1>4, <1>5, <1>6, <1>7

(* CompletedLookupsAreOneAnswer: a completed request that no second worker *)
(* claimed has the candidates of one attempt, numbered without a gap       *)
(* (_process_request), for any batches, answers, crashes and shutdowns.    *)
THEOREM CompletedLookupsAreOneAnswer == LookupSpec => []CompletedIsOneAnswer
<1>1. LookupInv => CompletedIsOneAnswer
    <2> SUFFICES ASSUME LookupInv, NEW l \in LookupRequests \ overtaken, lookups[l].status = "completed"
                 PROVE  /\ answers[l] # {} /\ {c.run : c \in answers[l]} = {runs[l]}
                        /\ {c.rank : c \in answers[l]} = 1 .. Cardinality(answers[l])
        BY DEF CompletedIsOneAnswer
    <2>1. PICK n \in Nat \ {0} : answers[l] = Numbered(runs[l], 1, n)
        BY DEF LookupInv, LookupOK
    <2>2. runs[l] \in Nat
        BY DEF LookupInv, LookupShape
    <2> QED
        BY <2>1, <2>2, NumberedCount
<1> QED
    BY <1>1, LookupInvariance, PTL
=============================================================================
