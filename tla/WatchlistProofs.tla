-------------------------- MODULE WatchlistProofs --------------------------
(***************************************************************************)
(* Proofs about Watchlist, for every set of shows and movies.              *)
(*                                                                         *)
(* What was added by hand stays because of two facts: its row has the      *)
(* source "manual" or a link of the manual source, and no import and no    *)
(* deleted source touches the links of the manual source.  The row must    *)
(* be "manual" in between the two commits of an addition, when the link is *)
(* not there yet.                                                          *)
(*                                                                         *)
(* An undisturbed import (CleanImport) fetches the provider's lists as     *)
(* they are and leaves behind it only exact ones; the last section.        *)
(***************************************************************************)
EXTENDS Watchlist, TLAPS

\* Only rows are linked.
LinksHaveRows == \A s \in Source : \A m \in linked[s] : Has(m)

\* What was added by hand can be told from what a provider listed.
AskedMarked == \A m \in asked : Has(m) /\ (item[m].source = "manual" \/ m \in linked["manual"])

\* A row between the two commits of its addition is there and marked.
AddingMarked == \A m \in Media : adding[m] # "no" => Has(m) /\ item[m].source = "manual"

\* A fetched list is that of the next source.
FetchedIsNext == fetched # NoFetch => todo # <<>>

Inv == TypeOK /\ FetchedIsNext /\ LinksHaveRows /\ AskedMarked /\ AddingMarked /\ NoOrphans

(***************************************************************************)
(* Operators.                                                              *)
(***************************************************************************)

LEMMA RowIsNotNoRow == \A row \in Row : row # NoRow /\ row.source \in {"manual", "provider", "auto_from_history"}
  BY DEF Row, NoRow, Status

LEMMA ShowStatusType == \A total, seen : ShowStatus(total, seen) \in Status
  BY DEF ShowStatus, Status

LEMMA MovieStatusType == \A m : MovieStatus(m) \in Status
  BY DEF MovieStatus, Status

\* A change of status keeps the row's source.
LEMMA ChangedType ==
  ASSUME NEW row \in Row, NEW status \in Status
  PROVE  Changed(row, status) \in Row /\ Changed(row, status).source = row.source
  BY DEF Changed, Row

LEMMA EvaluatedType ==
  ASSUME NEW m, NEW row \in Row
  PROVE  Evaluated(m, row) \in Row /\ Evaluated(m, row).source = row.source
  BY ChangedType, ShowStatusType DEF Evaluated

\* An upsert returns a row: a new one of its own source, or the present one, which only a
\* restoration may give the new source, and never instead of "manual".
LEMMA UpsertedType ==
  ASSUME TypeOK, NEW m \in Media, NEW restore \in BOOLEAN,
         NEW source \in {"manual", "provider", "auto_from_history"}
  PROVE  LET row == Upserted(m, source, restore)
         IN /\ row \in Row
            /\ ~Has(m) => row.source = source
            /\ Has(m) => row.source = item[m].source \/ (restore /\ Dropped(m) /\ row.source = source)
            /\ Has(m) /\ restore /\ Dropped(m) /\ source = "manual" => row.source = "manual"
<1> DEFINE fresh == [status |-> "added", source |-> source]
<1>1. fresh \in Row /\ fresh.source = source
  BY DEF Row, Status
<1>2. CASE ~Has(m) /\ m \in Show
  <2>1. Upserted(m, source, restore) = Evaluated(m, fresh)
    BY <1>2, MediaAssumption DEF Upserted
  <2> QED
    BY <2>1, <1>1, <1>2, EvaluatedType
<1>3. CASE ~Has(m) /\ m \notin Show
  <2>1. Upserted(m, source, restore) = [status |-> MovieStatus(m), source |-> source]
    BY <1>3 DEF Upserted, Media
  <2> QED
    BY <2>1, <1>3, MovieStatusType DEF Row
<1>4. CASE Has(m) /\ Dropped(m) /\ restore
  <2>1. Upserted(m, source, restore)
          = [status |-> "added", source |-> IF item[m].source = "manual" THEN "manual" ELSE source]
    BY <1>4 DEF Upserted
  <2> QED
    BY <2>1, <1>4 DEF Row, Status
<1>5. CASE Has(m) /\ ~(Dropped(m) /\ restore)
  <2>1. Upserted(m, source, restore) = item[m]
    BY <1>5 DEF Upserted
  <2> QED
    BY <2>1, <1>5 DEF TypeOK, Has
<1> QED
  BY <1>2, <1>3, <1>4, <1>5

LEMMA QueuedType ==
  ASSUME queue \subseteq Delivery, NEW kind \in {"push", "remove"}, NEW m \in Media, NEW flag \in BOOLEAN
  PROVE  Queued(kind, m, flag) \subseteq Delivery
<1>1. [kind |-> kind, media |-> m, flag |-> flag, old |-> FALSE] \in Delivery
  BY DEF Delivery
<1> QED
  BY <1>1 DEF Queued

LEMMA OutlivedType ==
  ASSUME queue \subseteq Delivery, NEW S PROVE Outlived(S) \subseteq Delivery
<1> SUFFICES ASSUME NEW d \in queue PROVE (IF d.media \in S THEN [d EXCEPT !.old = TRUE] ELSE d) \in Delivery
  BY DEF Outlived
<1> QED
  BY DEF Delivery

LEMMA RemoteType ==
  ASSUME TypeOK, NEW d \in queue
  PROVE  AfterFirst(d) \in [List -> SUBSET Media] /\ AfterBoth(d) \in [List -> SUBSET Media]
<1>1. d.media \in Media
  BY DEF TypeOK, Delivery
<1>2. AfterFirst(d) \in [List -> SUBSET Media]
  BY <1>1 DEF TypeOK, AfterFirst, List
<1> QED
  BY <1>1, <1>2 DEF AfterBoth, List
(***************************************************************************)
(* Steps.                                                                  *)
(***************************************************************************)

Marks == LinksHaveRows /\ AskedMarked /\ AddingMarked /\ NoOrphans
ItemType == item \in [Media -> Row \cup {NoRow}]

LEMMA SourceType == "manual" \in Source /\ List \subseteq Source
  BY DEF Source

\* A change of one row that keeps its source.
LEMMA RowChange ==
  ASSUME Inv, NEW m \in Media, Has(m), NEW row \in Row, row.source = item[m].source,
         item' = [item EXCEPT ![m] = row], UNCHANGED <<linked, adding, asked>>
  PROVE  ItemType' /\ Marks'
<1>1. ItemType'
  BY DEF Inv, TypeOK, ItemType
<1>2. \A n \in Media : /\ item'[n].source = item[n].source
                        /\ Has(n) => item'[n] # NoRow
  BY RowIsNotNoRow DEF Inv, TypeOK, Has
<1>3. \A s \in Source : linked[s] \subseteq Media
  BY DEF Inv, TypeOK
<1>4. LinksHaveRows'
  BY <1>2, <1>3 DEF Inv, LinksHaveRows, Has
<1>5. AskedMarked'
  BY <1>2 DEF Inv, TypeOK, AskedMarked, Has
<1>6. AddingMarked'
  BY <1>2 DEF Inv, AddingMarked, Has
<1>7. NoOrphans'
  BY <1>2 DEF Inv, NoOrphans
<1> QED
  BY <1>1, <1>4, <1>5, <1>6, <1>7 DEF Marks

\* A new row, or a restored one, of a source other than "provider".
LEMMA RowAdded ==
  ASSUME Inv, NEW m \in Media, NEW row \in Row, row.source # "provider",
         Has(m) => row.source = item[m].source \/ row.source = "manual",
         item' = [item EXCEPT ![m] = row], UNCHANGED linked,
         \A n \in Media : adding'[n] = adding[n] \/ (n = m /\ row.source = "manual"),
         asked' \subseteq asked \/ (row.source = "manual" /\ asked' = asked \cup {m})
  PROVE  ItemType' /\ Marks'
<1>1. ItemType'
  BY DEF Inv, TypeOK, ItemType
<1>2. \A n \in Media : /\ n # m => item'[n] = item[n]
                       /\ Has(n) => item'[n] # NoRow
                       /\ item'[n].source = "provider" => item[n].source = "provider"
                       /\ Has(n) /\ item[n].source = "manual" => item'[n].source = "manual"
  BY RowIsNotNoRow DEF Inv, TypeOK, Has
<1>3. item'[m] = row /\ row # NoRow
  BY RowIsNotNoRow DEF Inv, TypeOK
<1>4. \A s \in Source : linked[s] \subseteq Media
  BY DEF Inv, TypeOK
<1>5. LinksHaveRows'
  <2> SUFFICES ASSUME NEW s \in Source, NEW n \in linked[s] PROVE item'[n] # NoRow
    BY DEF LinksHaveRows, Has
  <2>1. n \in Media /\ item[n] # NoRow
    BY <1>4 DEF Inv, LinksHaveRows, Has
  <2>2. CASE n = m
    BY <2>2, <1>3
  <2>3. CASE n # m
    BY <2>1, <2>3, <1>2
  <2> QED
    BY <2>2, <2>3
<1>6. AskedMarked'
  BY <1>2, <1>3 DEF Inv, TypeOK, AskedMarked, Has
<1>7. AddingMarked'
  BY <1>2, <1>3 DEF Inv, AddingMarked, Has
<1>8. NoOrphans'
  BY <1>2 DEF Inv, NoOrphans
<1> QED
  BY <1>1, <1>5, <1>6, <1>7, <1>8 DEF Marks

\* Rows deleted with their links: those that nothing marks, and what the user removes.
LEMMA RowsDeleted ==
  ASSUME Inv, NEW S \in SUBSET Media, NEW links \in [Source -> SUBSET Media],
         item' = [m \in Media |-> IF m \in S THEN NoRow ELSE item[m]],
         linked' = links, links["manual"] \ S = linked["manual"] \ S,
         \A s \in Source : links[s] \subseteq linked[s] \ S,
         \A m \in Media \ S : item[m].source = "provider" => \E s \in Source : m \in links[s],
         \A m \in Media \ S : adding'[m] = adding[m],
         \A m \in S : adding'[m] = "no" /\ m \notin asked',
         asked' \subseteq asked
  PROVE  ItemType' /\ Marks'
<1>1. ItemType'
  BY DEF Inv, TypeOK, ItemType
<1>2. \A m \in Media : (m \notin S => item'[m] = item[m]) /\ (m \in S => item'[m] = NoRow)
  BY DEF Inv, TypeOK
<1>3. LinksHaveRows'
  <2> SUFFICES ASSUME NEW s \in Source, NEW m \in links[s] PROVE item'[m] # NoRow
    BY DEF LinksHaveRows, Has
  <2> QED
    BY <1>2 DEF Inv, LinksHaveRows, Has
<1>4. AskedMarked'
  <2> SUFFICES ASSUME NEW m \in asked' PROVE item'[m] # NoRow /\ (item'[m].source = "manual" \/ m \in links["manual"])
    BY DEF AskedMarked, Has
  <2>1. m \in asked /\ m \notin S /\ m \in Media
    BY DEF Inv, TypeOK
  <2> QED
    BY <2>1, <1>2 DEF Inv, AskedMarked, Has
<1>5. AddingMarked'
  BY <1>2 DEF Inv, AddingMarked, Has
<1>6. NoOrphans'
  <2> SUFFICES ASSUME NEW m \in Media, item'[m].source = "provider" PROVE \E s \in Source : m \in links[s]
    BY DEF NoOrphans
  <2> QED
    BY <1>2 DEF NoRow
<1> QED
  BY <1>1, <1>3, <1>4, <1>5, <1>6 DEF Marks

LEMMA InvInit == Init => Inv
<1> SUFFICES ASSUME Init PROVE Inv
  OBVIOUS
<1>1. TypeOK
  <2>1. remote \in [List -> SUBSET Media]
    <3>1. PICK M \in SUBSET Media : remote = [l \in List |-> IF l = "dropped" THEN {} ELSE M]
      BY DEF Init
    <3> QED
      BY <3>1
  <2>2. todo \in Seq(List) /\ FetchedIsNext
    BY DEF Init, FetchedIsNext
  <2>3. events \in 0 .. MaxEvents /\ watched \in [Media -> 0 .. MaxEpisodes]
    BY BoundAssumption DEF Init
  <2> QED
    BY <2>1, <2>2, <2>3 DEF Init, TypeOK
<1>2. Marks
  BY <1>1 DEF Init, TypeOK, Marks, LinksHaveRows, AskedMarked, AddingMarked, NoOrphans, NoRow, Source
<1> QED
  BY <1>1, <1>2 DEF Init, Inv, Marks, FetchedIsNext

\* The deliveries only touch the queue and the provider.
LEMMA DeliveryStep ==
  ASSUME Inv, NEW d \in queue, Deliver(d) \/ Retry(d) \/ GiveUp(d), clean' \in BOOLEAN
  PROVE  Inv'
<1> USE DEF local, run
<1>1. remote' \in [List -> SUBSET Media] /\ queue' \subseteq Delivery
  BY RemoteType DEF Inv, TypeOK, Deliver, Retry, GiveUp
<1>2. UNCHANGED <<item, linked, adding, hasUrl, watched, newItems, updates, todo, fetched, asked, events>>
  BY DEF Deliver, Retry, GiveUp
<1> QED
  BY <1>1, <1>2 DEF Inv, TypeOK, FetchedIsNext, LinksHaveRows, AskedMarked, AddingMarked, NoOrphans, Has

\* The import steps that only read.
LEMMA FetchStep ==
  ASSUME Inv, ImportStart \/ Fetch \/ FetchFails \/ ProcessFails
  PROVE  Inv'
<1> USE DEF local, run
<1>1. UNCHANGED <<item, linked, adding, hasUrl, watched, newItems, updates, queue, remote, asked, events>>
  BY DEF ImportStart, Fetch, FetchFails, ProcessFails
<1>2. clean' \in BOOLEAN
  BY DEF Inv, TypeOK, ImportStart, Fetch, FetchFails, ProcessFails
<1>3. todo' \in Seq(List)
  <2>1. Ordered \in Seq(List)
    <3>1. "dropped" \in List /\ "personal" \in List /\ "url" \in List
      BY DEF List
    <3>2. <<"dropped", "personal", "url">> \in Seq(List)
      BY <3>1
    <3>3. <<"dropped", "personal">> \in Seq(List)
      BY <3>1
    <3> QED
      BY <3>2, <3>3 DEF Ordered
  <2>2. todo # <<>> => Tail(todo) \in Seq(List)
    BY DEF Inv, TypeOK
  <2>3. todo \in Seq(List) /\ <<>> \in Seq(List)
    BY DEF Inv, TypeOK
  <2> QED
    BY <2>1, <2>2, <2>3 DEF ImportStart, Fetch, FetchFails, ProcessFails
<1>4. fetched' \in [from : List, listed : SUBSET Media, got : SUBSET Media, complete : BOOLEAN] \cup {NoFetch}
  <2>1. CASE Fetch
    <3>1. Head(todo) \in List
      BY <2>1 DEF Inv, TypeOK, Fetch
    <3>2. remote[Head(todo)] \in SUBSET Media
      BY <3>1 DEF Inv, TypeOK
    <3> QED
      BY <2>1, <3>1, <3>2 DEF Fetch
  <2> QED
    BY <2>1 DEF Inv, TypeOK, ImportStart, FetchFails, ProcessFails
<1>5. FetchedIsNext'
  BY DEF Inv, FetchedIsNext, ImportStart, Fetch, FetchFails, ProcessFails, Ordered
<1> QED
  BY <1>1, <1>2, <1>3, <1>4, <1>5 DEF Inv, TypeOK, LinksHaveRows, AskedMarked, AddingMarked, NoOrphans, Has

\* The processing of a fetched list: new rows are linked by the list, present rows keep
\* their source, and rows go only when nothing marks or links them.
LEMMA ProcessStep ==
  ASSUME Inv, Process
  PROVE  Inv'
<1> DEFINE f == fetched
           upserted == [m \in Media |->
              CASE m \in f.got /\ f.from = "dropped" -> [Upserted(m, "provider", FALSE) EXCEPT !.status = "dropped"]
                [] m \in f.got /\ f.from # "dropped" -> Upserted(m, "provider", FALSE)
                [] OTHER -> item[m]]
           links == [linked EXCEPT ![f.from] = (@ \cup f.got) \ Unlinked(f)]
           gone == {m \in Unlinked(f) : ~Kept(upserted[m], links, m)}
           Undropped(m) == f.from = "dropped" /\ m \in Unlinked(f) /\ upserted[m].status = "dropped"
<1>1. /\ item' = [m \in Media |->
            CASE m \in gone -> NoRow
              [] m \notin gone /\ Undropped(m) -> Evaluated(m, [upserted[m] EXCEPT !.status = "added"])
              [] OTHER -> upserted[m]]
      /\ linked' = links /\ queue' = Outlived(gone) /\ todo' = Tail(todo) /\ fetched' = NoFetch
      /\ UNCHANGED <<adding, hasUrl, watched, newItems, updates, remote, asked, clean, events>>
      /\ f # NoFetch
  BY DEF Process
<1>2. f.from \in List /\ f.from \in Source /\ f.from # "manual" /\ f.got \in SUBSET Media
  BY <1>1 DEF Inv, TypeOK, List, Source
<1>3. ASSUME NEW m \in Media
      PROVE  /\ m \in f.got => upserted[m] \in Row
             /\ m \notin f.got => upserted[m] = item[m]
             /\ Has(m) => upserted[m] \in Row /\ upserted[m].source = item[m].source
             /\ ~Has(m) /\ m \in f.got => upserted[m].source = "provider"
  <2> DEFINE row == Upserted(m, "provider", FALSE)
  <2>1. /\ row \in Row
        /\ ~Has(m) => row.source = "provider"
        /\ Has(m) => row.source = item[m].source
    BY UpsertedType DEF Inv
  <2>2. [row EXCEPT !.status = "dropped"] \in Row /\ [row EXCEPT !.status = "dropped"].source = row.source
    BY <2>1 DEF Row, Status
  <2>3. Has(m) => item[m] \in Row
    BY DEF Inv, TypeOK, Has
  <2> HIDE DEF row
  <2>4. CASE m \in f.got /\ f.from = "dropped"
    <3>1. upserted[m] = [row EXCEPT !.status = "dropped"]
      BY <2>4 DEF row
    <3> QED
      BY <3>1, <2>1, <2>2, <2>4
  <2>5. CASE m \in f.got /\ f.from # "dropped"
    <3>1. upserted[m] = row
      BY <2>5 DEF row
    <3> QED
      BY <3>1, <2>1, <2>5
  <2>6. CASE m \notin f.got
    <3>1. upserted[m] = item[m]
      BY <2>6
    <3> QED
      BY <3>1, <2>3, <2>6
  <2> QED
    BY <2>4, <2>5, <2>6
<1>4. /\ links \in [Source -> SUBSET Media]
      /\ \A s \in Source \ {f.from} : links[s] = linked[s]
      /\ links[f.from] = (linked[f.from] \cup f.got) \ Unlinked(f)
      /\ Unlinked(f) \subseteq linked[f.from] \ f.got /\ Unlinked(f) \subseteq Media
  BY <1>2 DEF Inv, TypeOK, Unlinked
<1>5. \A m \in gone : m \in Media /\ Has(m) /\ upserted[m].source # "manual" /\ \A s \in Source : m \notin links[s]
  BY <1>2, <1>4 DEF Inv, LinksHaveRows, Kept
<1>6. ASSUME NEW m \in Media
      PROVE  /\ m \in gone => item'[m] = NoRow
             /\ m \notin gone /\ (Has(m) \/ m \in f.got) =>
                    item'[m] \in Row /\ item'[m].source = upserted[m].source
             /\ m \notin gone /\ ~Has(m) /\ m \notin f.got => item'[m] = NoRow
  <2>1. CASE m \in gone
    BY <1>1, <2>1
  <2>2. CASE m \notin gone /\ Undropped(m)
    <3>1. Has(m)
      BY <2>2, <1>2, <1>4 DEF Inv, LinksHaveRows
    <3>2. [upserted[m] EXCEPT !.status = "added"] \in Row
          /\ [upserted[m] EXCEPT !.status = "added"].source = upserted[m].source
      BY <3>1, <1>3 DEF Row, Status
    <3>3. item'[m] = Evaluated(m, [upserted[m] EXCEPT !.status = "added"])
      BY <1>1, <2>2
    <3> DEFINE row == [upserted[m] EXCEPT !.status = "added"]
    <3>4. Evaluated(m, row) \in Row /\ Evaluated(m, row).source = row.source
      BY <3>2, EvaluatedType
    <3> HIDE DEF upserted, gone
    <3> QED
      BY <3>1, <3>2, <3>3, <3>4, <2>2 DEF Undropped
  <2>3. CASE m \notin gone /\ ~Undropped(m)
    <3>1. item'[m] = upserted[m]
      BY <1>1, <2>3
    <3> HIDE DEF upserted, gone
    <3> QED
      BY <3>1, <1>3, <2>3 DEF Has
  <2> QED
    BY <2>1, <2>2, <2>3
<1>7. item' \in [Media -> Row \cup {NoRow}]
  <2>1. \A m \in Media : item'[m] \in Row \cup {NoRow}
    BY <1>6
  <2>2. DOMAIN item' = Media /\ item' = [m \in Media |-> item'[m]]
    BY <1>1
  <2> QED
    BY <2>1, <2>2
<1> HIDE DEF upserted, links, gone, Undropped
<1>8. TypeOK'
  <2>1. queue' \subseteq Delivery
    BY <1>1, OutlivedType DEF Inv, TypeOK
  <2>2. todo' \in Seq(List)
    <3>1. todo \in Seq(List) /\ todo # <<>>
      BY <1>1 DEF Inv, TypeOK, FetchedIsNext
    <3> QED
      BY <3>1, <1>1
  <2> QED
    BY <1>1, <1>4, <1>7, <2>1, <2>2 DEF Inv, TypeOK
<1>9. LinksHaveRows'
  <2> SUFFICES ASSUME NEW s \in Source, NEW m \in links[s] PROVE item'[m] # NoRow
    BY <1>1 DEF LinksHaveRows, Has
  <2>1. m \in Media /\ m \notin gone
    BY <1>4, <1>5
  <2>2. Has(m) \/ m \in f.got
    BY <1>2, <1>4 DEF Inv, LinksHaveRows
  <2> QED
    BY <2>1, <2>2, <1>6, RowIsNotNoRow
<1>10. \A m \in Media : Has(m) /\ m \notin gone => item'[m] # NoRow /\ item'[m].source = item[m].source
  BY <1>3, <1>6, RowIsNotNoRow
<1>11. AskedMarked'
  <2> SUFFICES ASSUME NEW m \in asked PROVE item'[m] # NoRow /\ (item'[m].source = "manual" \/ m \in links["manual"])
    BY <1>1 DEF AskedMarked, Has
  <2>1. m \in Media /\ Has(m) /\ (item[m].source = "manual" \/ m \in linked["manual"])
    BY DEF Inv, TypeOK, AskedMarked
  <2>2. links["manual"] = linked["manual"]
    BY <1>2, <1>4, SourceType
  <2>3. m \notin gone
    BY <2>1, <2>2, <1>3, <1>5, SourceType
  <2> QED
    BY <2>1, <2>2, <2>3, <1>10
<1>12. AddingMarked'
  <2> SUFFICES ASSUME NEW m \in Media, adding[m] # "no" PROVE item'[m] # NoRow /\ item'[m].source = "manual"
    BY <1>1 DEF AddingMarked, Has
  <2>1. Has(m) /\ item[m].source = "manual"
    BY DEF Inv, AddingMarked
  <2>2. m \notin gone
    BY <2>1, <1>3, <1>5
  <2> QED
    BY <2>1, <2>2, <1>10
<1>13. NoOrphans'
  <2> SUFFICES ASSUME NEW m \in Media, item'[m].source = "provider" PROVE \E s \in Source : m \in links[s]
    BY <1>1 DEF NoOrphans
  <2>1. m \notin gone /\ (Has(m) \/ m \in f.got)
    BY <1>6 DEF NoRow
  <2>2. CASE m \in f.got
    BY <2>2, <1>2, <1>4
  <2>3. CASE m \notin f.got
    <3>1. Has(m) /\ item[m].source = "provider"
      BY <2>1, <2>3, <1>10
    <3>2. PICK s \in Source : m \in linked[s]
      BY <3>1 DEF Inv, NoOrphans
    <3>3. CASE m \in Unlinked(f)
      <4>1. Kept(upserted[m], links, m)
        BY <3>3, <2>1 DEF gone
      <4>2. upserted[m].source = "provider"
        BY <3>1, <1>3
      <4> QED
        BY <4>1, <4>2 DEF Kept
    <3>4. CASE m \notin Unlinked(f)
      BY <3>2, <3>4, <1>2, <1>4
    <3> QED
      BY <3>3, <3>4
  <2> QED
    BY <2>2, <2>3
<1> QED
  BY <1>1, <1>8, <1>9, <1>11, <1>12, <1>13 DEF Inv, FetchedIsNext

\* What a step must leave well-typed apart from the rows and their marks.
RestType ==
    /\ linked \in [Source -> SUBSET Media] /\ hasUrl \in BOOLEAN
    /\ adding \in [Media -> {"no", "plain", "unhide"}]
    /\ watched \in [Media -> 0 .. MaxEpisodes]
    /\ newItems \subseteq Media /\ updates \subseteq Media
    /\ queue \subseteq Delivery
    /\ remote \in [List -> SUBSET Media]
    /\ todo \in Seq(List)
    /\ fetched \in [from : List, listed : SUBSET Media, got : SUBSET Media, complete : BOOLEAN] \cup {NoFetch}
    /\ asked \subseteq Media /\ clean \in BOOLEAN /\ events \in 0 .. MaxEvents
    /\ FetchedIsNext

LEMMA Parts == Inv <=> RestType /\ ItemType /\ Marks
  BY DEF Inv, TypeOK, RestType, FetchedIsNext, ItemType, Marks

LEMMA ActType == ASSUME Inv, Act PROVE events' \in 0 .. MaxEvents
  BY BoundAssumption DEF Inv, TypeOK, Act

LEMMA RequestStep ==
  ASSUME Inv, NEW m \in Media, Request(m), clean' \in BOOLEAN
  PROVE  Inv'
<1> USE DEF local, run
<1>0. Has(m) => item[m] \in Row
  BY DEF Inv, TypeOK, Has
<1>1. CASE Add(m)
  <2> DEFINE row == Upserted(m, "manual", TRUE)
  <2>2. row \in Row /\ (~Has(m) \/ Dropped(m) => row.source = "manual")
                   /\ (Has(m) => row.source = item[m].source \/ row.source = "manual")
    BY UpsertedType DEF Inv
  <2>3. RestType'
    <3>1. /\ linked' \in [Source -> SUBSET Media]
          /\ adding' \in [Media -> {"no", "plain", "unhide"}]
          /\ queue' \subseteq Delivery
      <4>1. CASE Has(m) /\ ~Dropped(m)
        <5>1. Queued("push", m, FALSE) \subseteq Delivery
          BY QueuedType DEF Inv, TypeOK
        <5>2. /\ linked' = [linked EXCEPT !["manual"] = @ \cup {m}]
              /\ queue' = Queued("push", m, FALSE) /\ adding' = adding
          BY <1>1, <4>1 DEF Add
        <5>3. linked["manual"] \cup {m} \in SUBSET Media
          BY SourceType DEF Inv, TypeOK
        <5> QED
          BY <5>1, <5>2, <5>3 DEF Inv, TypeOK
      <4>2. CASE ~(Has(m) /\ ~Dropped(m))
        BY <1>1, <4>2 DEF Add, Inv, TypeOK
      <4> QED
        BY <4>1, <4>2
    <3>2. events' \in 0 .. MaxEvents
      BY <1>1, ActType DEF Add
    <3>3. UNCHANGED <<hasUrl, watched, newItems, updates, remote, todo, fetched>> /\ asked' = asked \cup {m}
      BY <1>1 DEF Add
    <3> QED
      BY <3>1, <3>2, <3>3 DEF Inv, TypeOK, RestType, FetchedIsNext
  <2>4. item' = [item EXCEPT ![m] = row] /\ asked' = asked \cup {m}
    BY <1>1 DEF Add
  <2>5. CASE Has(m) /\ ~Dropped(m)
    <3>1. row = item[m]
      BY <2>5, MediaAssumption DEF Upserted
    <3>2. item' = item
      BY <3>1, <2>4 DEF Inv, TypeOK
    <3>3. linked' = [linked EXCEPT !["manual"] = @ \cup {m}] /\ adding' = adding
      BY <1>1, <2>5 DEF Add
    <3>4. \A s \in Source : linked[s] \subseteq linked'[s] /\ linked'[s] \subseteq linked[s] \cup {m}
      BY <3>3 DEF Inv, TypeOK
    <3>5. m \in linked'["manual"]
      BY <3>3, SourceType DEF Inv, TypeOK
    <3>6. ItemType'
      BY <3>2 DEF Inv, TypeOK, ItemType
    <3>7. LinksHaveRows'
      BY <3>2, <3>4, <2>5 DEF Inv, LinksHaveRows, Has
    <3>8. AskedMarked'
      BY <3>2, <3>4, <3>5, <2>4, <2>5, SourceType DEF Inv, AskedMarked, Has
    <3>9. AddingMarked' /\ NoOrphans'
      BY <3>2, <3>3, <3>4 DEF Inv, AddingMarked, NoOrphans, Has
    <3> QED
      BY <2>3, <3>6, <3>7, <3>8, <3>9, Parts DEF Inv, TypeOK, RestType, FetchedIsNext, ItemType
  <2>6. CASE ~(Has(m) /\ ~Dropped(m))
    <3>1. linked' = linked /\ \A n \in Media : adding'[n] = adding[n] \/ n = m
      BY <1>1, <2>6 DEF Add, Inv, TypeOK
    <3>2. row.source = "manual"
      BY <2>2, <2>6
    <3> HIDE DEF row
    <3>3. ItemType' /\ Marks'
      BY <3>1, <3>2, <2>2, <2>4, RowAdded
    <3> QED
      BY <2>3, <3>3 DEF Inv, TypeOK, RestType, FetchedIsNext, ItemType, Marks
  <2> QED
    BY <2>5, <2>6
<1>2. CASE AddFinish(m)
  <2>1. Has(m) /\ item[m].source = "manual"
    BY <1>2 DEF AddFinish, Inv, AddingMarked
  <2>2. TypeOK'
    BY <1>2, QueuedType, SourceType DEF AddFinish, Inv, TypeOK
  <2>3. \A s \in Source : linked[s] \subseteq linked'[s] /\ linked'[s] \subseteq linked[s] \cup {m}
    BY <1>2 DEF AddFinish, Inv, TypeOK
  <2>4. UNCHANGED <<item, asked>> /\ \A n \in Media : adding'[n] # "no" => adding[n] # "no"
    BY <1>2 DEF AddFinish, Inv, TypeOK
  <2>5. LinksHaveRows' /\ AskedMarked' /\ AddingMarked' /\ NoOrphans'
    BY <2>1, <2>3, <2>4, SourceType DEF Inv, LinksHaveRows, AskedMarked, AddingMarked, NoOrphans, Has
  <2> QED
    BY <1>2, <2>2, <2>5 DEF AddFinish, Inv, FetchedIsNext
<1>3. CASE AddCrash(m)
  <2>1. TypeOK'
    BY <1>3 DEF AddCrash, Inv, TypeOK
  <2>2. UNCHANGED <<item, linked, asked>> /\ \A n \in Media : adding'[n] # "no" => adding[n] # "no"
    BY <1>3 DEF AddCrash, Inv, TypeOK
  <2>3. LinksHaveRows' /\ AskedMarked' /\ AddingMarked' /\ NoOrphans'
    BY <2>2 DEF Inv, LinksHaveRows, AskedMarked, AddingMarked, NoOrphans, Has
  <2> QED
    BY <1>3, <2>1, <2>3 DEF AddCrash, Inv, FetchedIsNext
<1>4. CASE Remove(m)
  <2>1. [kind |-> "remove", media |-> m, flag |-> Dropped(m), old |-> TRUE] \in Delivery
    BY DEF Delivery, Dropped
  <2>2. RestType'
    <3>1. queue' \subseteq Delivery
      BY <1>4, <2>1, OutlivedType DEF Remove, Inv, TypeOK
    <3> QED
      BY <1>4, <3>1, ActType DEF Remove, Delete, Inv, TypeOK, RestType, FetchedIsNext
  <2>3. /\ item' = [n \in Media |-> IF n \in {m} THEN NoRow ELSE item[n]]
        /\ linked' = [s \in Source |-> linked[s] \ {m}]
        /\ \A n \in Media \ {m} : adding'[n] = adding[n]
        /\ adding'[m] = "no" /\ asked' = asked \ {m}
    BY <1>4 DEF Remove, Delete
  <2>4. \A n \in Media \ {m} : item[n].source = "provider" => \E s \in Source : n \in linked'[s]
    BY <2>3 DEF Inv, NoOrphans
  <2>5. linked' \in [Source -> SUBSET Media] /\ linked'["manual"] \ {m} = linked["manual"] \ {m}
        /\ \A s \in Source : linked'[s] \subseteq linked[s] \ {m}
    BY <2>3, SourceType DEF Inv, TypeOK
  <2>6. ItemType' /\ Marks'
    BY <2>3, <2>4, <2>5, RowsDeleted, Zenon
  <2> QED
    BY <2>2, <2>6 DEF Inv, TypeOK, RestType, FetchedIsNext, ItemType, Marks
\* The cases that change one row and keep its source.
<1>5. ASSUME NEW row \in Row, row.source = item[m].source, Has(m),
             item' = [item EXCEPT ![m] = row], UNCHANGED <<linked, adding, asked>>, RestType'
      PROVE  Inv'
  BY <1>5, RowChange DEF Inv, TypeOK, RestType, FetchedIsNext, ItemType, Marks
<1>6. ASSUME UNCHANGED <<item, linked, adding, asked>>, RestType' PROVE Inv'
  <2>1. ItemType' /\ Marks'
    BY <1>6 DEF Inv, TypeOK, ItemType, Marks, LinksHaveRows, AskedMarked, AddingMarked, NoOrphans, Has
  <2> QED
    BY <2>1, <1>6 DEF Inv, TypeOK, RestType, FetchedIsNext, ItemType, Marks
<1>7. Has(m) => \A status \in Status : /\ [item[m] EXCEPT !.status = status] \in Row
                                       /\ [item[m] EXCEPT !.status = status].source = item[m].source
  BY <1>0 DEF Row
<1>8. CASE Drop(m)
  <2>1. RestType'
    BY <1>8, ActType, QueuedType DEF Drop, Inv, TypeOK, RestType, FetchedIsNext
  <2>2. Has(m) /\ item' = [item EXCEPT ![m] = [item[m] EXCEPT !.status = "dropped"]]
    BY <1>8 DEF Drop, Inv, TypeOK
  <2>3. UNCHANGED <<linked, adding, asked>>
    BY <1>8 DEF Drop
  <2> QED
    BY <2>1, <2>2, <2>3, <1>5, <1>7 DEF Status
<1>9. CASE Restore(m)
  <2> DEFINE row == Evaluated(m, [item[m] EXCEPT !.status = "added"])
  <2>1. RestType'
    BY <1>9, ActType, QueuedType DEF Restore, Inv, TypeOK, RestType, FetchedIsNext
  <2>2. Has(m) /\ item' = [item EXCEPT ![m] = row] /\ UNCHANGED <<linked, adding, asked>>
    BY <1>9 DEF Restore
  <2>3. row \in Row /\ row.source = item[m].source
    BY <2>2, <1>7, EvaluatedType DEF Status
  <2> HIDE DEF row
  <2> QED
    BY <2>1, <2>2, <2>3, <1>5
<1>10. CASE ListItem(m)
  <2> DEFINE status == CASE m \in Show -> ShowStatus(Released(m), watched[m])
                         [] m \in Movie /\ item[m].status = "watched" -> "watched"
                         [] OTHER -> IF Released(m) = 0 THEN "not_released" ELSE "added"
  <2>1. RestType'
    BY <1>10 DEF ListItem, Inv, TypeOK, RestType, FetchedIsNext
  <2>2. Has(m) /\ item' = [item EXCEPT ![m] = Changed(item[m], status)] /\ UNCHANGED <<linked, adding, asked>>
    BY <1>10 DEF ListItem
  <2>3. status \in Status
    <3>1. ShowStatus(Released(m), watched[m]) \in Status
      BY ShowStatusType
    <3> QED
      BY <3>1, MediaAssumption DEF Status
  <2> HIDE DEF status
  <2>4. Changed(item[m], status) \in Row /\ Changed(item[m], status).source = item[m].source
    BY <2>2, <2>3, <1>0, ChangedType
  <2> QED
    BY <2>1, <2>2, <2>4, <1>5
<1>11. CASE Watch(m) \/ Unwatch(m)
  <2>1. watched' \in [Media -> 0 .. MaxEpisodes]
    <3>1. Released(m) \in 0 .. MaxEpisodes
      BY BoundAssumption DEF Released
    <3>2. watched[m] \in 0 .. MaxEpisodes /\ watched \in [Media -> 0 .. MaxEpisodes]
      BY DEF Inv, TypeOK
    <3>3. \/ watched[m] < Released(m) /\ watched' = [watched EXCEPT ![m] = @ + 1]
          \/ watched[m] > 0 /\ watched' = [watched EXCEPT ![m] = @ - 1]
      BY <1>11 DEF Watch, Unwatch
    <3>4. watched[m] < Released(m) => watched[m] + 1 \in 0 .. MaxEpisodes
      BY <3>1, <3>2, BoundAssumption
    <3>5. watched[m] > 0 => watched[m] - 1 \in 0 .. MaxEpisodes
      BY <3>2, BoundAssumption
    <3> QED
      BY <3>2, <3>3, <3>4, <3>5
  <2>2. RestType'
    BY <1>11, <2>1, ActType DEF Watch, Unwatch, Inv, TypeOK, RestType, FetchedIsNext
  <2> QED
    BY <1>11, <2>2, <1>6 DEF Watch, Unwatch
<1>12. CASE NewItem(m)
  <2>1. RestType'
    BY <1>12, QueuedType DEF NewItem, Inv, TypeOK, RestType, FetchedIsNext
  <2>2. UNCHANGED <<linked, adding, asked>>
    BY <1>12 DEF NewItem
  <2> DEFINE row == Upserted(m, "auto_from_history", TRUE)
  <2>3. \/ ~Has(m) /\ item' = [item EXCEPT ![m] = row]
        \/ Has(m) /\ item' = [item EXCEPT ![m] = Evaluated(m, [item[m] EXCEPT !.status = "added"])]
        \/ Has(m) /\ item' = [item EXCEPT ![m] = Evaluated(m, item[m])]
        \/ Has(m) /\ item' = [item EXCEPT ![m] = Changed(item[m], "watched")]
        \/ item' = item
    BY <1>12 DEF NewItem
  <2>4. CASE ~Has(m) /\ item' = [item EXCEPT ![m] = row]
    <3>1. row \in Row /\ row.source = "auto_from_history"
      BY <2>4, UpsertedType DEF Inv
    <3> HIDE DEF row
    <3>2. ItemType' /\ Marks'
      BY <3>1, <2>2, <2>4, RowAdded
    <3> QED
      BY <3>2, <2>1 DEF Inv, TypeOK, RestType, FetchedIsNext, ItemType, Marks
  <2>5. CASE Has(m) /\ item' = [item EXCEPT ![m] = Evaluated(m, [item[m] EXCEPT !.status = "added"])]
    BY <2>1, <2>2, <2>5, <1>5, <1>7, EvaluatedType DEF Status
  <2>6. CASE Has(m) /\ item' = [item EXCEPT ![m] = Evaluated(m, item[m])]
    BY <2>1, <2>2, <2>6, <1>0, <1>5, EvaluatedType
  <2>7. CASE Has(m) /\ item' = [item EXCEPT ![m] = Changed(item[m], "watched")]
    BY <2>1, <2>2, <2>7, <1>0, <1>5, ChangedType DEF Status
  <2>8. CASE item' = item
    BY <2>1, <2>2, <2>8, <1>6
  <2> QED
    BY <2>3, <2>4, <2>5, <2>6, <2>7, <2>8
<1>13. CASE Update(m)
  <2>1. RestType'
    BY <1>13 DEF Update, Inv, TypeOK, RestType, FetchedIsNext
  <2>2. UNCHANGED <<linked, adding, asked>>
    BY <1>13 DEF Update
  <2>3. CASE ~Has(m)
    BY <1>13, <2>1, <2>2, <2>3, <1>6 DEF Update
  <2>4. CASE Has(m)
    <3> DEFINE row == IF m \in Show THEN Evaluated(m, item[m]) ELSE Changed(item[m], MovieStatus(m))
    <3>1. item' = [item EXCEPT ![m] = row]
      BY <1>13, <2>4 DEF Update
    <3>2. row \in Row /\ row.source = item[m].source
      BY <2>4, <1>0, EvaluatedType, ChangedType, MovieStatusType
    <3> HIDE DEF row
    <3> QED
      BY <3>1, <3>2, <2>1, <2>2, <2>4, <1>5
  <2> QED
    BY <2>3, <2>4
<1>14. CASE \E l \in List : RemoteEdit(l, m)
  <2>1. RestType'
    BY <1>14, ActType DEF RemoteEdit, Inv, TypeOK, RestType, FetchedIsNext
  <2> QED
    BY <1>14, <2>1, <1>6 DEF RemoteEdit
<1> QED
  BY <1>1, <1>2, <1>3, <1>4, <1>8, <1>9, <1>10, <1>11, <1>12, <1>13, <1>14 DEF Request

LEMMA RemoveSourceStep ==
  ASSUME Inv, RemoveSource, clean' \in BOOLEAN
  PROVE  Inv'
<1> USE DEF local, run
<1> DEFINE links == [linked EXCEPT !["url"] = {}]
           gone == {m \in linked["url"] : ~Kept(item[m], links, m)}
<1>1. /\ item' = [m \in Media |-> IF m \in gone THEN NoRow ELSE item[m]]
      /\ linked' = links /\ queue' = Outlived(gone)
      /\ UNCHANGED <<adding, watched, newItems, updates, remote, todo, fetched, asked>>
  BY DEF RemoveSource
<1>2. /\ links \in [Source -> SUBSET Media] /\ links["manual"] = linked["manual"]
      /\ \A s \in Source : links[s] = (IF s = "url" THEN {} ELSE linked[s])
      /\ linked["url"] \subseteq Media
  BY DEF Inv, TypeOK, Source, List
<1>3. gone \subseteq Media /\ \A m \in gone : item[m].source # "manual" /\ \A s \in Source : m \notin links[s]
  BY <1>2 DEF Kept
<1>4. RestType'
  <2>1. queue' \subseteq Delivery
    BY <1>1, OutlivedType DEF Inv, TypeOK
  <2> QED
    BY <1>1, <1>2, <2>1, ActType DEF RemoveSource, Inv, TypeOK, RestType, FetchedIsNext
<1>5. \A m \in Media \ gone : item[m].source = "provider" => \E s \in Source : m \in links[s]
  <2> SUFFICES ASSUME NEW m \in Media \ gone, item[m].source = "provider" PROVE \E s \in Source : m \in links[s]
    OBVIOUS
  <2>1. PICK s \in Source : m \in linked[s]
    BY DEF Inv, NoOrphans
  <2>2. CASE s = "url"
    BY <2>1, <2>2 DEF Kept
  <2>3. CASE s # "url"
    BY <2>1, <2>3, <1>2
  <2> QED
    BY <2>2, <2>3
<1>6. \A m \in gone : adding'[m] = "no" /\ m \notin asked'
  BY <1>1, <1>2, <1>3, SourceType DEF Inv, AskedMarked, AddingMarked
<1>7. \A s \in Source : links[s] \subseteq linked[s] \ gone
  BY <1>2, <1>3
<1> HIDE DEF links, gone
<1>8. ItemType' /\ Marks'
  BY <1>1, <1>2, <1>3, <1>5, <1>6, <1>7, RowsDeleted, SMTT(30)
<1> QED
  BY <1>4, <1>8 DEF Inv, TypeOK, RestType, FetchedIsNext, ItemType, Marks

LEMMA InvStep == Inv /\ [Next]_vars => Inv'
<1> SUFFICES ASSUME Inv, [Next]_vars PROVE Inv'
  OBVIOUS
<1>1. CASE Import
  BY <1>1, FetchStep, ProcessStep DEF Import
<1>2. CASE Other /\ clean' = FALSE
  BY <1>2, DeliveryStep, RequestStep, RemoveSourceStep DEF Other
<1>3. CASE UNCHANGED vars
  BY <1>3 DEF vars, Inv, TypeOK, FetchedIsNext, LinksHaveRows, AskedMarked, AddingMarked, NoOrphans, Has
<1> QED
  BY <1>1, <1>2, <1>3 DEF Next

LEMMA Invariance == Spec => []Inv
  BY InvInit, InvStep, PTL DEF Spec

\* Every row, link, delivery and import keeps its type (TypeOK).
THEOREM WatchlistTypeCorrect == Spec => []TypeOK
<1>1. Inv => TypeOK
  BY DEF Inv
<1> QED
  BY <1>1, Invariance, PTL

\* What the user added by hand stays until the user removes it (add_watchlist_item against
\* reconcile_watchlist_source, reconcile_dropped_source and remove_watchlist_source).
THEOREM HandAddedStays == Spec => []AskedStays
<1>1. Inv => AskedStays
  BY DEF Inv, AskedMarked, AskedStays
<1> QED
  BY <1>1, Invariance, PTL

\* No row that only provider lists brought outlives its last link.
THEOREM NoRowIsOrphaned == Spec => []NoOrphans
<1>1. Inv => NoOrphans
  BY DEF Inv
<1> QED
  BY <1>1, Invariance, PTL

(***************************************************************************)
(* Clean imports: the dropped list first.                                  *)
(*                                                                         *)
(* An import is clean as long as every fetch was complete and nothing else *)
(* happened.  The lists it has processed are then linked as the provider   *)
(* has them; as the dropped list goes first, its shows have their links    *)
(* and are dropped before another list is reconciled, so no other list     *)
(* deletes them.                                                           *)
(***************************************************************************)

\* A complete fetch returned what the list held.
FetchedExact == fetched.complete => fetched.got = fetched.listed

MirrorsDropped == linked["dropped"] = remote["dropped"] /\ \A m \in remote["dropped"] : Has(m) /\ Dropped(m)

CleanImport ==
    clean =>
        /\ fetched # NoFetch =>
              fetched.from = Head(todo) /\ fetched.complete /\ fetched.got = remote[fetched.from]
        /\ todo \in {Ordered, <<"personal", "url">>, <<"url">>, <<"personal">>, <<>>}
        /\ hasUrl => todo # <<"personal">>
        /\ ~hasUrl => todo # <<"url">> /\ todo # <<"personal", "url">>
        /\ todo # Ordered => MirrorsDropped
        /\ todo \in {<<"url">>, <<>>} => linked["personal"] = remote["personal"]
        /\ todo = <<>> /\ hasUrl => linked["url"] = remote["url"]

CleanInv == Inv /\ FetchedExact /\ CleanImport

\* The lists an import has still to process, one after the other.
LEMMA Suffixes ==
  /\ hasUrl => Ordered = <<"dropped", "personal", "url">>
  /\ ~hasUrl => Ordered = <<"dropped", "personal">>
  /\ Head(Ordered) = "dropped" /\ Tail(Ordered) = IF hasUrl THEN <<"personal", "url">> ELSE <<"personal">>
  /\ Head(<<"personal", "url">>) = "personal" /\ Tail(<<"personal", "url">>) = <<"url">>
  /\ Head(<<"personal">>) = "personal" /\ Tail(<<"personal">>) = <<>>
  /\ Head(<<"url">>) = "url" /\ Tail(<<"url">>) = <<>>
  /\ Ordered \notin {<<"personal", "url">>, <<"url">>, <<"personal">>, <<>>}
  /\ <<"personal", "url">> \notin {<<"url">>, <<"personal">>, <<>>}
  /\ <<"url">> \notin {<<"personal">>, <<>>} /\ <<"personal">> # <<>>
<1>1. /\ Head(<<"dropped", "personal", "url">>) = "dropped"
      /\ Tail(<<"dropped", "personal", "url">>) = <<"personal", "url">>
      /\ Head(<<"dropped", "personal">>) = "dropped" /\ Tail(<<"dropped", "personal">>) = <<"personal">>
  OBVIOUS
<1>2. /\ Head(<<"personal", "url">>) = "personal" /\ Tail(<<"personal", "url">>) = <<"url">>
      /\ Head(<<"personal">>) = "personal" /\ Tail(<<"personal">>) = <<>>
      /\ Head(<<"url">>) = "url" /\ Tail(<<"url">>) = <<>>
  OBVIOUS
<1>3. /\ <<"personal", "url">> # <<"url">> /\ <<"personal", "url">> # <<"personal">>
      /\ <<"url">> # <<"personal">>
      /\ <<"dropped", "personal">> # <<"personal", "url">>
      /\ <<"dropped", "personal">> # <<"personal">> /\ <<"dropped", "personal">> # <<"url">>
      /\ <<"dropped", "personal", "url">> # <<"personal", "url">>
      /\ <<"dropped", "personal", "url">> # <<"personal">> /\ <<"dropped", "personal", "url">> # <<"url">>
  OBVIOUS
<1>4. \A s \in {<<"personal", "url">>, <<"personal">>, <<"url">>, <<"dropped", "personal">>,
                <<"dropped", "personal", "url">>} : s # <<>>
  OBVIOUS
<1> QED
  BY <1>1, <1>2, <1>3, <1>4 DEF Ordered

\* What the processing of a fetched list does to links and rows: a row only goes when its
\* list was the last to link it, and a drop is only lifted when the dropped list lost it.
LEMMA ProcessRows ==
  ASSUME Inv, Process
  PROVE  /\ fetched # NoFetch /\ todo' = Tail(todo) /\ fetched' = NoFetch
         /\ UNCHANGED <<hasUrl, remote, clean, adding>>
         /\ linked' = [linked EXCEPT ![fetched.from] = (@ \cup fetched.got) \ Unlinked(fetched)]
         /\ \A m \in Media : Has(m) /\ item'[m] = NoRow =>
               m \in Unlinked(fetched) /\ \A s \in Source \ {fetched.from} : m \notin linked[s]
         /\ \A m \in Media : Has(m) /\ Dropped(m) =>
               \/ item'[m] = NoRow \/ item'[m].status = "dropped"
               \/ fetched.from = "dropped" /\ m \in Unlinked(fetched)
         /\ fetched.from = "dropped" => \A m \in fetched.got : item'[m] # NoRow /\ item'[m].status = "dropped"
<1> DEFINE f == fetched
           upserted == [m \in Media |->
              CASE m \in f.got /\ f.from = "dropped" -> [Upserted(m, "provider", FALSE) EXCEPT !.status = "dropped"]
                [] m \in f.got /\ f.from # "dropped" -> Upserted(m, "provider", FALSE)
                [] OTHER -> item[m]]
           links == [linked EXCEPT ![f.from] = (@ \cup f.got) \ Unlinked(f)]
           gone == {m \in Unlinked(f) : ~Kept(upserted[m], links, m)}
           Undropped(m) == f.from = "dropped" /\ m \in Unlinked(f) /\ upserted[m].status = "dropped"
<1>1. /\ item' = [m \in Media |->
            CASE m \in gone -> NoRow
              [] m \notin gone /\ Undropped(m) -> Evaluated(m, [upserted[m] EXCEPT !.status = "added"])
              [] OTHER -> upserted[m]]
      /\ linked' = links /\ todo' = Tail(todo) /\ fetched' = NoFetch
      /\ UNCHANGED <<hasUrl, remote, clean, adding>>
      /\ f # NoFetch
  BY DEF Process
<1>2. f.from \in List /\ f.from \in Source /\ f.got \in SUBSET Media
  BY <1>1 DEF Inv, TypeOK, List, Source
<1>3. /\ \A s \in Source \ {f.from} : links[s] = linked[s]
      /\ Unlinked(f) \subseteq Media /\ Unlinked(f) \cap f.got = {}
  BY <1>2 DEF Inv, TypeOK, Unlinked
<1>4. ASSUME NEW m \in Media, m \in gone
      PROVE  m \in Unlinked(f) /\ \A s \in Source \ {f.from} : m \notin linked[s]
  BY <1>3, <1>4 DEF Kept
<1>5. ASSUME NEW m \in Media
      PROVE  /\ Has(m) => upserted[m] \in Row
             /\ Has(m) /\ Dropped(m) => upserted[m].status = "dropped"
             /\ m \in f.got /\ f.from = "dropped" => upserted[m] \in Row /\ upserted[m].status = "dropped"
  <2> DEFINE row == Upserted(m, "provider", FALSE)
  <2>1. row \in Row
    BY UpsertedType DEF Inv
  <2>2. Has(m) /\ Dropped(m) => row = item[m]
    BY DEF Upserted
  <2>3. [row EXCEPT !.status = "dropped"] \in Row /\ [row EXCEPT !.status = "dropped"].status = "dropped"
    BY <2>1 DEF Row, Status
  <2>4. Has(m) => item[m] \in Row
    BY DEF Inv, TypeOK, Has
  <2>5. upserted[m] = IF m \notin f.got THEN item[m]
                      ELSE IF f.from = "dropped" THEN [row EXCEPT !.status = "dropped"] ELSE row
    OBVIOUS
  <2> HIDE DEF row, upserted
  <2> QED
    BY <2>1, <2>2, <2>3, <2>4, <2>5 DEF Dropped
<1>6. ASSUME NEW m \in Media
      PROVE  /\ m \in gone => item'[m] = NoRow
             /\ m \notin gone /\ ~Undropped(m) => item'[m] = upserted[m]
             /\ m \notin gone /\ Undropped(m) =>
                   item'[m] = Evaluated(m, [upserted[m] EXCEPT !.status = "added"])
  BY <1>1
<1>7. ASSUME NEW m \in Media, Has(m), item'[m] = NoRow PROVE m \in gone
  <2> DEFINE row == [upserted[m] EXCEPT !.status = "added"]
  <2>1. row \in Row
    BY <1>5, <1>7 DEF Row, Status
  <2>2. Evaluated(m, row) \in Row
    BY <2>1, EvaluatedType
  <2> HIDE DEF gone, upserted, Undropped
  <2> QED
    BY <1>5, <1>6, <1>7, <2>2, RowIsNotNoRow
<1> HIDE DEF links
<1>8. ASSUME f.from = "dropped", NEW m \in f.got PROVE item'[m] # NoRow /\ item'[m].status = "dropped"
  <2>1. m \in Media /\ m \notin gone /\ ~Undropped(m)
    BY <1>2, <1>3, <1>8
  <2> HIDE DEF gone, upserted, Undropped
  <2> QED
    BY <2>1, <1>5, <1>6, <1>8, RowIsNotNoRow
<1>9. ASSUME NEW m \in Media, Has(m), Dropped(m), item'[m] # NoRow, item'[m].status # "dropped"
      PROVE  f.from = "dropped" /\ m \in Unlinked(f)
  <2>1. Undropped(m)
    <3> HIDE DEF gone, upserted, Undropped
    <3> QED
      BY <1>5, <1>6, <1>9
  <2> QED
    BY <2>1
<1> HIDE DEF gone, upserted, Undropped
<1> QED
  BY <1>1, <1>4, <1>7, <1>8, <1>9 DEF links

LEMMA CleanInit == Init => FetchedExact /\ CleanImport
  BY DEF Init, FetchedExact, CleanImport, NoFetch

LEMMA FetchedExactStep == Inv /\ FetchedExact /\ [Next]_vars => FetchedExact'
<1> SUFFICES ASSUME Inv, FetchedExact, [Next]_vars PROVE FetchedExact'
  OBVIOUS
<1>1. CASE UNCHANGED fetched
  BY <1>1 DEF FetchedExact
<1>2. CASE Fetch
  <2>1. PICK got \in SUBSET remote[Head(todo)], complete \in BOOLEAN :
           /\ complete => got = remote[Head(todo)]
           /\ fetched' = [from |-> Head(todo), listed |-> remote[Head(todo)], got |-> got, complete |-> complete]
    BY <1>2 DEF Fetch
  <2> QED
    BY <2>1 DEF FetchedExact
<1>3. CASE fetched' = NoFetch
  BY <1>3 DEF FetchedExact, NoFetch
<1>4. UNCHANGED fetched \/ Fetch \/ fetched' = NoFetch
  BY DEF Next, Import, ImportStart, FetchFails, Process, ProcessFails, Other, Request, Deliver, Retry, GiveUp,
         Add, AddFinish, AddCrash, Remove, Drop, Restore, ListItem, Watch, Unwatch, NewItem, Update,
         RemoteEdit, RemoveSource, run, vars
<1> QED
  BY <1>1, <1>2, <1>3, <1>4

\* A list that an undisturbed import processes is linked exactly as the provider has it; those
\* processed before stay so, with the rows of the dropped shows.
LEMMA CleanProcess ==
  ASSUME Inv, CleanImport, Process, clean
  PROVE  CleanImport'
<1> DEFINE f == fetched
<1>1. /\ f # NoFetch /\ todo' = Tail(todo) /\ fetched' = NoFetch
      /\ UNCHANGED <<hasUrl, remote, clean, adding>>
      /\ linked' = [linked EXCEPT ![f.from] = (@ \cup f.got) \ Unlinked(f)]
  BY ProcessRows
<1>2. f.from = Head(todo) /\ f.complete /\ f.got = remote[f.from] /\ f.from \in List
  BY <1>1 DEF CleanImport, Inv, TypeOK
<1>3. Unlinked(f) = linked[f.from] \ f.got
  BY <1>2 DEF Unlinked
<1>4. linked'[f.from] = remote[f.from] /\ \A l \in List \ {f.from} : linked'[l] = linked[l]
  BY <1>1, <1>2, <1>3, SourceType DEF Inv, TypeOK
<1>5. MirrorsDropped'
  <2>1. CASE todo = Ordered
    <3>1. f.from = "dropped"
      BY <2>1, <1>2, Suffixes
    <3>2. \A m \in remote["dropped"] : item'[m] # NoRow /\ item'[m].status = "dropped"
      BY <3>1, <1>2, ProcessRows
    <3> QED
      BY <3>1, <3>2, <1>1, <1>4 DEF MirrorsDropped, Has, Dropped
  <2>2. CASE todo # Ordered
    <3>1. MirrorsDropped /\ f.from # "dropped"
      BY <2>2, <1>1, <1>2, Suffixes DEF CleanImport, Inv, FetchedIsNext
    <3>2. ASSUME NEW m \in remote["dropped"] PROVE item'[m] # NoRow /\ item'[m].status = "dropped"
      <4>1. m \in Media /\ Has(m) /\ Dropped(m) /\ m \in linked["dropped"] /\ "dropped" \in Source
        BY <3>1 DEF MirrorsDropped, Inv, TypeOK, List, Source
      <4> QED
        BY <4>1, <3>1, ProcessRows
    <3> QED
      BY <3>1, <3>2, <1>1, <1>4 DEF MirrorsDropped, Has, Dropped, List
  <2> QED
    BY <2>1, <2>2
<1>6. todo # <<>>
  BY <1>1 DEF Inv, FetchedIsNext
<1>7. CASE todo = Ordered
  BY <1>1, <1>5, <1>7, Suffixes DEF CleanImport
<1>8. CASE todo = <<"personal", "url">>
  BY <1>1, <1>2, <1>4, <1>5, <1>8, Suffixes DEF CleanImport
<1>9. CASE todo = <<"personal">>
  BY <1>1, <1>2, <1>4, <1>5, <1>9, Suffixes DEF CleanImport
<1>10. CASE todo = <<"url">>
  BY <1>1, <1>2, <1>4, <1>5, <1>10, Suffixes DEF CleanImport, List
<1> QED
  BY <1>6, <1>7, <1>8, <1>9, <1>10 DEF CleanImport

LEMMA CleanStep == CleanInv /\ [Next]_vars => CleanInv'
<1> SUFFICES ASSUME CleanInv, [Next]_vars PROVE CleanInv'
  OBVIOUS
<1>1. Inv' /\ FetchedExact'
  BY InvStep, FetchedExactStep DEF CleanInv
<1>2. CleanImport'
  <2>1. CASE ImportStart
    <3>1. /\ todo = <<>> /\ todo' = Ordered /\ fetched = NoFetch
          /\ UNCHANGED <<item, linked, hasUrl, remote, fetched>>
      BY <2>1 DEF ImportStart, CleanInv, Inv, FetchedIsNext, local
    <3>2. Ordered' = Ordered
      BY <3>1 DEF Ordered
    <3> QED
      BY <3>1, <3>2, Suffixes DEF CleanImport
  <2>2. CASE Fetch
    <3>1. PICK got \in SUBSET remote[Head(todo)], complete \in BOOLEAN :
             /\ complete => got = remote[Head(todo)]
             /\ fetched' = [from |-> Head(todo), listed |-> remote[Head(todo)], got |-> got, complete |-> complete]
             /\ clean' = (clean /\ complete)
      BY <2>2 DEF Fetch
    <3>2. UNCHANGED <<item, linked, hasUrl, remote, todo>>
      BY <2>2 DEF Fetch, local
    <3>3. clean' => clean /\ fetched'.from = Head(todo') /\ fetched'.complete /\ fetched'.got = remote'[fetched'.from]
      BY <3>1, <3>2
    <3>4. MirrorsDropped' = MirrorsDropped /\ Ordered' = Ordered
      BY <3>2 DEF MirrorsDropped, Has, Dropped, Ordered
    <3> QED
      BY <3>2, <3>3, <3>4 DEF CleanInv, CleanImport
  <2>3. CASE Process
    BY <2>3, CleanProcess DEF CleanInv, CleanImport, Process
  <2>4. CASE FetchFails \/ ProcessFails \/ (Other /\ clean' = FALSE)
    BY <2>4 DEF FetchFails, ProcessFails, CleanImport
  <2>5. CASE UNCHANGED vars
    BY <2>5 DEF vars, CleanInv, CleanImport, MirrorsDropped, Has, Dropped, Ordered
  <2> QED
    BY <2>1, <2>2, <2>3, <2>4, <2>5 DEF Next, Import
<1> QED
  BY <1>1, <1>2 DEF CleanInv

LEMMA CleanInvariance == Spec => []CleanInv
<1>1. Init => CleanInv
  BY InvInit, CleanInit DEF CleanInv
<1> QED
  BY <1>1, CleanStep, PTL DEF Spec

\* After an undisturbed import the sources list what the provider lists, and what it has
\* dropped is dropped here (order_dropped_source_first, reconcile_watchlist_source and
\* reconcile_dropped_source).
THEOREM CleanImportMirrors == Spec => []MirrorsProvider
<1>1. CleanInv => MirrorsProvider
  <2> SUFFICES ASSUME CleanInv, todo = <<>>, clean
               PROVE  /\ \A l \in List \ (IF hasUrl THEN {} ELSE {"url"}) : linked[l] = remote[l]
                      /\ \A m \in remote["dropped"] : Has(m) /\ Dropped(m)
    BY DEF MirrorsProvider
  <2>1. MirrorsDropped /\ linked["personal"] = remote["personal"] /\ (hasUrl => linked["url"] = remote["url"])
    BY Suffixes DEF CleanInv, CleanImport
  <2> QED
    BY <2>1 DEF MirrorsDropped, List
<1> QED
  BY <1>1, CleanInvariance, PTL

\* An undisturbed import deletes no row of a show the provider has dropped.
THEOREM CleanImportKeepsDropped == Spec => DroppedKeepsRow
<1>1. CleanInv /\ [Next]_vars
        => [\A m \in Show : Has(m) /\ item'[m] = NoRow /\ clean' => m \notin remote["dropped"]]_vars
  <2> SUFFICES ASSUME CleanInv, Next, NEW m \in Show, Has(m), item'[m] = NoRow, clean'
               PROVE  m \notin remote["dropped"]
    OBVIOUS
  <2>1. Process
    BY DEF Next, Import, ImportStart, Fetch, FetchFails, ProcessFails, local, Has
  <2>2. clean /\ fetched # NoFetch /\ m \in Media /\ m \in Unlinked(fetched)
        /\ \A s \in Source \ {fetched.from} : m \notin linked[s]
    BY <2>1, ProcessRows DEF CleanInv, Media
  <2>3. m \notin remote[fetched.from] /\ fetched.from = Head(todo)
    BY <2>2 DEF CleanInv, CleanImport, Unlinked
  <2>4. CASE fetched.from = "dropped"
    BY <2>3, <2>4
  <2>5. CASE fetched.from # "dropped"
    <3>1. linked["dropped"] = remote["dropped"]
      BY <2>2, <2>3, <2>5, Suffixes DEF CleanInv, CleanImport, MirrorsDropped
    <3> QED
      BY <2>2, <2>5, <3>1, SourceType DEF List
  <2> QED
    BY <2>4, <2>5
<1> QED
  BY <1>1, CleanInvariance, PTL DEF Spec, DroppedKeepsRow

\* A drop is only lifted together with a push that unhides the show, or because the
\* provider's dropped list lost it (restore_watchlist_item, add_watchlist_item,
\* process_new_item_job against process_watchlist_candidates).
THEOREM DropStays == Spec => DropIsSticky
<1>1. CleanInv /\ [Next]_vars
        => [\A m \in Show :
              /\ Has(m) /\ Dropped(m) /\ item'[m] # NoRow /\ item'[m].status # "dropped"
              => \/ adding'[m] = "unhide"
                 \/ \E d \in queue' : d.kind = "push" /\ d.media = m /\ d.flag
                 \/ m \in linked["dropped"] /\ m \notin fetched.listed /\ fetched.from = "dropped"]_vars
  <2> DEFINE Excused(m) == \/ adding'[m] = "unhide"
                           \/ \E d \in queue' : d.kind = "push" /\ d.media = m /\ d.flag
                           \/ m \in linked["dropped"] /\ m \notin fetched.listed /\ fetched.from = "dropped"
  <2> SUFFICES ASSUME CleanInv, Next, NEW m \in Show,
                      Has(m), Dropped(m), item'[m] # NoRow, item'[m].status # "dropped"
               PROVE  Excused(m)
    OBVIOUS
  <2> USE DEF local
  <2>1. m \in Media /\ item[m] \in Row /\ Dropped(m) /\ Has(m)
    BY DEF CleanInv, Inv, TypeOK, Has, Media
  <2>2. \A status : Changed(item[m], status) = item[m]
    BY <2>1 DEF Changed, Dropped
  <2>3. item'[m] # item[m]
    BY <2>1 DEF Dropped
  <2>4. \E d \in Queued("push", m, TRUE) : d.kind = "push" /\ d.media = m /\ d.flag
    <3> DEFINE d == [kind |-> "push", media |-> m, flag |-> TRUE, old |-> FALSE]
    <3>1. d \in Queued("push", m, TRUE) /\ d.kind = "push" /\ d.media = m /\ d.flag
      BY DEF Queued
    <3> QED
      BY <3>1
  <2>5. CASE Process
    <3>1. fetched.from = "dropped" /\ m \in Unlinked(fetched)
      BY <2>1, <2>5, ProcessRows DEF CleanInv
    <3> QED
      BY <3>1 DEF Unlinked, CleanInv, FetchedExact
  <2>6. CASE RemoveSource
    <3>1. item'[m] = NoRow \/ item'[m] = item[m]
      BY <2>1, <2>6 DEF RemoveSource
    <3> QED
      BY <2>3, <3>1
  <2>7. ASSUME NEW n \in Media, Request(n) PROVE Excused(m)
    <3>1. n = m
      BY <2>1, <2>3, <2>7 DEF Request, Add, AddFinish, AddCrash, Remove, Delete, Drop, Restore, ListItem, Watch, Unwatch,
             NewItem, Update, RemoteEdit, CleanInv, Inv, TypeOK
    <3>2. CASE Add(m)
      BY <2>1, <3>2 DEF Add, CleanInv, Inv, TypeOK
    <3>3. CASE Restore(m)
      BY <2>4, <3>3 DEF Restore
    <3>4. CASE NewItem(m)
      <4>1. item \in [Media -> Row \cup {NoRow}]
        BY DEF CleanInv, Inv, TypeOK
      <4>2. \/ item' = [item EXCEPT ![m] = Evaluated(m, item[m])]
            \/ item' = [item EXCEPT ![m] = Changed(item[m], "watched")]
            \/ item' = item
            \/ queue' = Queued("push", m, TRUE)
        BY <2>1, <3>4 DEF NewItem
      <4>3. CASE queue' = Queued("push", m, TRUE)
        BY <2>4, <4>3
      <4>4. CASE queue' # Queued("push", m, TRUE)
        BY <2>1, <2>2, <2>3, <4>1, <4>2, <4>4 DEF Evaluated
      <4> QED
        BY <4>3, <4>4
    <3>5. CASE ListItem(m)
      BY <2>1, <2>2, <2>3, <3>5 DEF ListItem, CleanInv, Inv, TypeOK
    <3>6. CASE Update(m)
      BY <2>1, <2>2, <2>3, <3>6 DEF Update, Evaluated, CleanInv, Inv, TypeOK
    <3>7. CASE Remove(m) \/ Drop(m)
      BY <2>1, <3>7 DEF Remove, Delete, Drop
    <3>8. CASE AddFinish(m) \/ AddCrash(m) \/ Watch(m) \/ Unwatch(m) \/ \E l \in List : RemoteEdit(l, m)
      BY <2>3, <3>8 DEF AddFinish, AddCrash, Watch, Unwatch, RemoteEdit
    <3> QED
      BY <2>7, <3>1, <3>2, <3>3, <3>4, <3>5, <3>6, <3>7, <3>8 DEF Request
  <2>8. CASE ImportStart \/ Fetch \/ FetchFails \/ ProcessFails \/ \E d \in queue : Deliver(d) \/ Retry(d) \/ GiveUp(d)
    BY <2>3, <2>8 DEF ImportStart, Fetch, FetchFails, ProcessFails, Deliver, Retry, GiveUp
  <2> QED
    BY <2>5, <2>6, <2>7, <2>8 DEF Next, Import, Other
<1> QED
  BY <1>1, CleanInvariance, PTL DEF Spec, DropIsSticky

============================================================================
