---------------------------- MODULE ImportsProofs ----------------------------
(***************************************************************************)
(* Theorems about ImportRuns: for any number of loops and requests, any    *)
(* queues and any number of faults, a run that completed imported its      *)
(* whole queue, and unless a stale document was written or a lease was     *)
(* outlived, loops import one at a time and the outbox serves the user     *)
(* only after a merge of what was imported.                                *)
(* And about HistoryImport: for any number of runs, plays and days, and    *)
(* every importer, a play is imported once, Simkl's cursor passes over no  *)
(* play, and what was cleared or deleted does not come back, except for    *)
(* the reasons the properties name.                                        *)
(***************************************************************************)
EXTENDS ImportRuns, HistoryImport, FiniteSetTheorems, WellFoundedInduction, TLAPS

-----------------------------------------------------------------------------
(* The inductive invariant.                                                *)

\* A run in which the loops have kept their order: what it says was imported was, and its
\* stamps have been drawn.
RunSound(k, r, done, now) ==
    /\ r.index <= Len(r.queue)
    /\ r.status \in {"pending", "in_progress"} => r.index < Len(r.queue)
    /\ r.lease # 0 => r.status = "in_progress"
    /\ r.status = "completed" => r.index = Len(r.queue)
    /\ \A i \in 1 .. r.index : <<k, r.id, r.queue[i]>> \in done
    /\ r.id <= now /\ r.lease <= now

Sound(c, done, now) ==
    /\ \A k \in Kinds : RunSound(k, c[k], done, now)
    /\ c.need <= now /\ c.merged <= now

\* Such is the document in the database, and such are the copies that will be written over it.
DocumentsInv ==
    /\ Sound(cfg, imported, clock)
    /\ \A w \in Workers : job[w] # Idle => Sound(job[w].copy, imported, clock)
    /\ \A r \in Clients : request[r] # Idle => Sound(request[r].copy, imported, clock)
    /\ mergeJob # Idle => Sound(mergeJob.copy, imported, clock)

\* What each copy was taken for: a run in progress, a run to request, a merge to make.
HoldersInv ==
    /\ \A w \in Workers : job[w] # Idle =>
          LET c == job[w].copy
              k == job[w].kind
          IN  /\ c[k].status = "in_progress" /\ c[k].lease = job[w].stamp
              /\ 0 < job[w].stamp /\ job[w].stamp <= clock
              /\ c.need # 0 /\ c.merged < job[w].stamp
    /\ \A r \in Clients : (request[r] # Idle /\ request[r].kind \in Kinds) => ~AnyActive(request[r].copy)
    /\ mergeJob # Idle =>
          /\ MergePending(mergeJob.copy) /\ ~AnyActive(mergeJob.copy)
          /\ mergeJob.stamp <= clock /\ mergeJob.ended <= ended
          /\ \A k \in Kinds : mergeJob.copy[k].id < mergeJob.stamp
    /\ \A l \in lapsed : l <= clock

Undisturbed == ~raced /\ ~overdue

\* What requests and the merge job make of a document.
WithSettings(c, order, every) == [c EXCEPT !.order = order, !.every = every]
Merged(c, at, error) == [c EXCEPT !.merged = at, !.error = error]

\* The document of a loop at work is the one in the database, but for the user's settings.
AtWork(w) ==
    /\ job[w].stamp \notin lapsed
    /\ \E q \in Queues, b \in BOOLEAN : cfg = WithSettings(job[w].copy, q, b)

\* In the absence of races: one run and one loop at a time; what has ended since the latest
\* merge began will be merged; and the document a merge began with does not come back once an
\* import ended after it.
LeaseInv ==
    Undisturbed =>
        /\ ~(Active(cfg, "quick") /\ Active(cfg, "all"))
        /\ \A w \in Workers : job[w] # Idle => AtWork(w)
        /\ \A v, w \in Workers : (job[v] # Idle /\ job[w] # Idle) => v = w
        /\ Blocked(cfg) \/ covered = ended
        /\ mergeJob # Idle =>
              \/ mergeJob.ended = ended /\ ~AnyActive(cfg)
              \/ \E k \in Kinds : cfg[k].id > mergeJob.stamp

Types ==
    /\ clock \in Stamp /\ cfg \in Document /\ lapsed \subseteq Stamp
    /\ job \in [Workers -> Claimed \cup {Idle}] /\ request \in [Clients -> Requested \cup {Idle}]
    /\ mergeJob \in Merging \cup {Idle}
    /\ ended \in Nat /\ covered \in Nat /\ covered <= ended
    /\ requested \in 0 .. MaxRequests /\ faults \in 0 .. MaxFaults /\ raced \in BOOLEAN /\ overdue \in BOOLEAN

ImportInv == Types /\ DocumentsInv /\ HoldersInv /\ LeaseInv

-----------------------------------------------------------------------------
(* What the operators on documents do.                                     *)

\* A run that is begun anew: only its own keys change, and its lease key does not.
LEMMA BuiltIs ==
  ASSUME NEW c \in Document, NEW k \in Kinds, NEW at \in Stamp
  PROVE  LET d == Built(c, k, at)
         IN  /\ d \in Document
             /\ d[k] = [status |-> "pending", queue |-> c.order, index |-> 0, id |-> at, asked |-> TRUE,
                        lease |-> c[k].lease]
             /\ \A j \in Kinds \ {k} : d[j] = c[j]
             /\ d.order = c.order /\ d.every = c.every
             /\ d.need = c.need /\ d.merged = c.merged /\ d.error = c.error
  BY DEF Document, Kinds, Run, Statuses, Built

LEMMA MergeRequiredIs ==
  ASSUME NEW c \in Document, NEW at \in Stamp
  PROVE  LET d == MergeRequired(c, at)
         IN  /\ d \in Document
             /\ \A j \in Kinds : d[j] = c[j]
             /\ d.order = c.order /\ d.every = c.every
             /\ d.need = at /\ d.merged = c.merged /\ d.error = c.error
  BY DEF Document, Kinds, MergeRequired

\* A run that is claimed: a merge is required as well, if none was ever.
LEMMA StartedIs ==
  ASSUME NEW c \in Document, NEW k \in Kinds, NEW at \in Stamp
  PROVE  LET d == Started(c, k, at)
         IN  /\ d \in Document
             /\ d[k] = [status |-> "in_progress", queue |-> c[k].queue, index |-> c[k].index,
                        id |-> c[k].id, asked |-> c[k].asked, lease |-> at]
             /\ \A j \in Kinds \ {k} : d[j] = c[j]
             /\ d.order = c.order /\ d.every = c.every
             /\ d.need = (IF c.need = 0 THEN at ELSE c.need) /\ d.merged = c.merged /\ d.error = c.error
  BY DEF Document, Kinds, Run, Statuses, Started, MergeRequired

Advanced(c, k) == [c EXCEPT ![k].index = @ + 1]

LEMMA NextIs ==
  ASSUME NEW c \in Document, NEW k \in Kinds
  PROVE  LET d == Advanced(c, k)
         IN  /\ d \in Document
             /\ d[k].status = c[k].status /\ d[k].queue = c[k].queue /\ d[k].index = c[k].index + 1
             /\ d[k].id = c[k].id /\ d[k].lease = c[k].lease
             /\ \A j \in Kinds \ {k} : d[j] = c[j]
             /\ d.order = c.order /\ d.every = c.every
             /\ d.need = c.need /\ d.merged = c.merged /\ d.error = c.error
  BY DEF Document, Kinds, Run, Statuses, Advanced

LEMMA ReleasedIs ==
  ASSUME NEW c \in Document, NEW k \in Kinds
  PROVE  LET d == Released(c, k)
         IN  /\ d \in Document
             /\ d[k] = [c[k] EXCEPT !.lease = 0]
             /\ \A j \in Kinds \ {k} : d[j] = c[j]
             /\ d.order = c.order /\ d.every = c.every
             /\ d.need = c.need /\ d.merged = c.merged /\ d.error = c.error
  BY ImportBounds DEF Document, Kinds, Run, Statuses, Stamp, Released

LEMMA RunIs ==
  ASSUME NEW r \in Run
  PROVE  [r EXCEPT !.lease = 0] =
             [status |-> r.status, queue |-> r.queue, index |-> r.index, id |-> r.id,
              asked |-> r.asked, lease |-> 0]
  BY DEF Run

\* A step of a run that is completed, and of one that fails.
LEMMA CompletedIs ==
  ASSUME NEW c \in Document, NEW k \in Kinds
  PROVE  LET d == Completed(c, k)
         IN  /\ d \in Document
             /\ d[k].status = "completed" /\ d[k].queue = c[k].queue /\ d[k].index = c[k].index
             /\ d[k].id = c[k].id /\ d[k].lease = 0
             /\ \A j \in Kinds \ {k} : d[j] = c[j]
             /\ d.order = c.order /\ d.every = c.every
             /\ d.need = c.need /\ d.merged = c.merged /\ d.error = c.error
<1> DEFINE n == Released(c, k)
<1>1. /\ n \in Document /\ n[k] = [c[k] EXCEPT !.lease = 0]
      /\ \A j \in Kinds \ {k} : n[j] = c[j]
      /\ n.order = c.order /\ n.every = c.every
      /\ n.need = c.need /\ n.merged = c.merged /\ n.error = c.error
  BY ReleasedIs
<1>2. c[k] \in Run
  BY DEF Document, Kinds
<1>3. n[k].queue = c[k].queue /\ n[k].index = c[k].index /\ n[k].id = c[k].id /\ n[k].lease = 0
  BY <1>1, <1>2, RunIs
<1> HIDE DEF n
<1>4. (n[k].asked /\ k = "all") \in BOOLEAN
  OBVIOUS
<1> DEFINE b == n[k].asked /\ k = "all"
           d == [n EXCEPT ![k].status = "completed", ![k].asked = b]
<1>5. b \in BOOLEAN
  OBVIOUS
<1>6. Completed(c, k) = d
  BY DEF Completed, n
<1> HIDE DEF b
<1>7. /\ d \in Document
      /\ d[k].status = "completed" /\ d[k].queue = n[k].queue /\ d[k].index = n[k].index
      /\ d[k].id = n[k].id /\ d[k].lease = n[k].lease
      /\ \A j \in Kinds \ {k} : d[j] = n[j]
      /\ d.order = n.order /\ d.every = n.every
      /\ d.need = n.need /\ d.merged = n.merged /\ d.error = n.error
  BY <1>1, <1>5 DEF Document, Kinds, Run, Statuses
<1> QED
  BY <1>1, <1>3, <1>6, <1>7

LEMMA FailedIs ==
  ASSUME NEW c \in Document, NEW k \in Kinds
  PROVE  LET d == MarkFailed(c, k)
         IN  /\ d \in Document
             /\ d[k].status = "failed" /\ d[k].queue = c[k].queue /\ d[k].index = c[k].index
             /\ d[k].id = c[k].id /\ d[k].lease = 0
             /\ \A j \in Kinds \ {k} : d[j] = c[j]
             /\ d.order = c.order /\ d.every = c.every
             /\ d.need = c.need /\ d.merged = c.merged /\ d.error = c.error
<1> DEFINE n == Released(c, k)
<1>1. /\ n \in Document /\ n[k] = [c[k] EXCEPT !.lease = 0]
      /\ \A j \in Kinds \ {k} : n[j] = c[j]
      /\ n.order = c.order /\ n.every = c.every
      /\ n.need = c.need /\ n.merged = c.merged /\ n.error = c.error
  BY ReleasedIs
<1>2. c[k] \in Run
  BY DEF Document, Kinds
<1>3. n[k].queue = c[k].queue /\ n[k].index = c[k].index /\ n[k].id = c[k].id /\ n[k].lease = 0
  BY <1>1, <1>2, RunIs
<1> DEFINE d == [n EXCEPT ![k].status = "failed"]
<1>4. MarkFailed(c, k) = d
  BY DEF MarkFailed
<1> HIDE DEF n
<1>5. /\ d \in Document
      /\ d[k].status = "failed" /\ d[k].queue = n[k].queue /\ d[k].index = n[k].index
      /\ d[k].id = n[k].id /\ d[k].lease = n[k].lease
      /\ \A j \in Kinds \ {k} : d[j] = n[j]
      /\ d.order = n.order /\ d.every = n.every
      /\ d.need = n.need /\ d.merged = n.merged /\ d.error = n.error
  BY <1>1 DEF Document, Kinds, Run, Statuses
<1> QED
  BY <1>1, <1>3, <1>4, <1>5

\* What requests change, and what the merge job does.
LEMMA SettingsAre ==
  ASSUME NEW c \in Document, NEW q \in Queues, NEW b \in BOOLEAN
  PROVE  LET d == WithSettings(c, q, b)
         IN  /\ d \in Document
             /\ \A j \in Kinds : d[j] = c[j]
             /\ d.order = q /\ d.every = b
             /\ d.need = c.need /\ d.merged = c.merged /\ d.error = c.error
  BY DEF Document, Kinds, WithSettings

LEMMA MergedIs ==
  ASSUME NEW c \in Document, NEW at \in Stamp, NEW e \in BOOLEAN
  PROVE  LET d == Merged(c, at, e)
         IN  /\ d \in Document
             /\ \A j \in Kinds : d[j] = c[j]
             /\ d.order = c.order /\ d.every = c.every
             /\ d.need = c.need /\ d.merged = at /\ d.error = e
  BY DEF Document, Kinds, Merged

-----------------------------------------------------------------------------
(* What keeps a document sound.                                            *)

LEMMA DocumentHas ==
  ASSUME NEW c \in Document
  PROVE  /\ \A k \in Kinds : c[k] \in Run /\ c[k].index \in Nat /\ c[k].id \in Nat /\ c[k].lease \in Nat
                             /\ Len(c[k].queue) \in Nat
         /\ c.need \in Nat /\ c.merged \in Nat /\ c.order \in Queues /\ c.every \in BOOLEAN
  <1>1. /\ \A k \in Kinds : c[k] \in Run
        /\ c.need \in Nat /\ c.merged \in Nat /\ c.order \in Queues /\ c.every \in BOOLEAN
    BY ImportBounds DEF Document, Kinds, Stamp
  <1>2. ASSUME NEW r \in Run
        PROVE  r.index \in Nat /\ r.id \in Nat /\ r.lease \in Nat /\ Len(r.queue) \in Nat
    BY ImportBounds, QueuesAssumption DEF Run, Stamp
  <1> QED
    BY <1>1, <1>2

\* Time goes on and more is imported.
LEMMA RunGrows ==
  ASSUME NEW k, NEW r \in Run, NEW done, NEW done2, NEW now \in Nat, NEW now2 \in Nat,
         RunSound(k, r, done, now), done \subseteq done2, now <= now2
  PROVE  RunSound(k, r, done2, now2)
  BY ImportBounds DEF RunSound, Run, Stamp

LEMMA SoundGrows ==
  ASSUME NEW c \in Document, NEW done, NEW done2, NEW now \in Nat, NEW now2 \in Nat,
         Sound(c, done, now), done \subseteq done2, now <= now2
  PROVE  Sound(c, done2, now2)
  BY DocumentHas, RunGrows DEF Sound

\* One run of a document changes.
LEMMA SoundEdit ==
  ASSUME NEW c \in Document, NEW d \in Document, NEW k \in Kinds,
         NEW done, NEW done2, NEW now \in Nat, NEW now2 \in Nat,
         Sound(c, done, now), done \subseteq done2, now <= now2,
         \A j \in Kinds \ {k} : d[j] = c[j],
         RunSound(k, d[k], done2, now2), d.need <= now2, d.merged <= now2
  PROVE  Sound(d, done2, now2)
  <1>1. ASSUME NEW j \in Kinds \ {k}
        PROVE  RunSound(j, d[j], done2, now2)
    <2>1. c[j] \in Run /\ RunSound(j, c[j], done, now) /\ d[j] = c[j]
      BY DocumentHas DEF Sound
    <2>2. RunSound(j, c[j], done2, now2)
      BY <2>1, RunGrows
    <2> QED
      BY <2>1, <2>2
  <1> QED
    BY <1>1 DEF Sound

\* No run of it does.
LEMMA SoundSame ==
  ASSUME NEW c \in Document, NEW d \in Document, NEW done, NEW now \in Nat, NEW now2 \in Nat,
         Sound(c, done, now), now <= now2,
         \A j \in Kinds : d[j] = c[j], d.need <= now2, d.merged <= now2
  PROVE  Sound(d, done, now2)
  <1>1. Sound(c, done, now2)
    BY SoundGrows
  <1> QED
    BY <1>1 DEF Sound

\* A run that begins anew, by request or by schedule.
LEMMA BuiltIsSound ==
  ASSUME NEW c \in Document, NEW k \in Kinds, NEW at \in Stamp, NEW done, NEW now \in Nat,
         Sound(c, done, now), now < at, ~Active(c, k)
  PROVE  LET d == MergeRequired(Built(c, k, at), at)
         IN  /\ d \in Document /\ Sound(d, done, at)
             /\ d[k].status = "pending" /\ d[k].id = at /\ \A j \in Kinds \ {k} : d[j] = c[j]
             /\ d.order = c.order /\ d.every = c.every /\ d.need = at /\ d.merged = c.merged
<1> DEFINE b == Built(c, k, at)
           d == MergeRequired(b, at)
<1>1. /\ b \in Document
      /\ b[k] = [status |-> "pending", queue |-> c.order, index |-> 0, id |-> at, asked |-> TRUE,
                 lease |-> c[k].lease]
      /\ \A j \in Kinds \ {k} : b[j] = c[j]
      /\ b.order = c.order /\ b.every = c.every /\ b.merged = c.merged
  BY BuiltIs
<1> HIDE DEF b
<1>2. /\ d \in Document /\ \A j \in Kinds : d[j] = b[j]
      /\ d.order = b.order /\ d.every = b.every /\ d.need = at /\ d.merged = b.merged
  BY <1>1, MergeRequiredIs
<1> HIDE DEF d
<1>3. at \in Nat
  BY ImportBounds DEF Stamp
<1>4. c[k].lease = 0
  BY DEF Sound, RunSound, Active
<1>5. c.order \in Seq(STRING) /\ c.order # <<>> /\ Len(c.order) > 0
  BY DocumentHas, QueuesAssumption
<1>6. RunSound(k, d[k], done, at)
  BY <1>1, <1>2, <1>3, <1>4, <1>5 DEF RunSound
<1>7. d.merged <= at
  BY <1>1, <1>2, <1>3, DocumentHas DEF Sound
<1>8. Sound(d, done, at)
  BY <1>1, <1>2, <1>3, <1>6, <1>7, SoundEdit
<1> QED
  BY <1>1, <1>2, <1>8 DEF b, d

\* A run that is claimed.
LEMMA StartedIsSound ==
  ASSUME NEW c \in Document, NEW k \in Kinds, NEW at \in Stamp, NEW done, NEW now \in Nat,
         Sound(c, done, now), now <= at, Active(c, k)
  PROVE  LET d == Started(c, k, at)
         IN  /\ d \in Document /\ Sound(d, done, at)
             /\ d[k].status = "in_progress" /\ d[k].id = c[k].id /\ d[k].lease = at
             /\ \A j \in Kinds \ {k} : d[j] = c[j]
             /\ d.order = c.order /\ d.every = c.every /\ d.merged = c.merged
             /\ (at # 0 => d.need # 0)
<1> DEFINE d == Started(c, k, at)
<1>1. /\ d \in Document
      /\ d[k] = [status |-> "in_progress", queue |-> c[k].queue, index |-> c[k].index,
                 id |-> c[k].id, asked |-> c[k].asked, lease |-> at]
      /\ \A j \in Kinds \ {k} : d[j] = c[j]
      /\ d.order = c.order /\ d.every = c.every
      /\ d.need = (IF c.need = 0 THEN at ELSE c.need) /\ d.merged = c.merged
  BY StartedIs
<1> HIDE DEF d
<1>2. at \in Nat /\ c.need \in Nat /\ c.merged \in Nat /\ c.need <= now /\ c.merged <= now
  BY ImportBounds, DocumentHas DEF Stamp, Sound
<1>3. c[k] \in Run /\ RunSound(k, c[k], done, now) /\ c[k].index < Len(c[k].queue)
  BY DocumentHas DEF Sound, RunSound, Active
<1>4. RunSound(k, c[k], done, at)
  BY <1>2, <1>3, RunGrows
<1>5. RunSound(k, d[k], done, at)
  BY <1>1, <1>2, <1>3, <1>4 DEF RunSound
<1>6. Sound(d, done, at)
  BY <1>1, <1>2, <1>5, SoundEdit
<1> QED
  BY <1>1, <1>2, <1>6 DEF d

\* The provider of a step was imported: the run goes on, or it is over.
Processed(c, k, at) ==
    LET next == Advanced(c, k)
    IN  IF next[k].index = Len(c[k].queue) THEN Completed(MergeRequired(next, at), k) ELSE Released(next, k)

LEMMA ProcessedIsSound ==
  ASSUME NEW c \in Document, NEW k \in Kinds, NEW at \in Stamp, NEW done, NEW now \in Nat,
         Sound(c, done, now), at <= now, c[k].status = "in_progress"
  PROVE  LET d == Processed(c, k, at)
         IN  /\ d \in Document
             /\ Sound(d, done \cup {<<k, c[k].id, c[k].queue[c[k].index + 1]>>}, now)
             /\ d[k].id = c[k].id /\ \A j \in Kinds \ {k} : d[j] = c[j]
             /\ d.merged = c.merged /\ (Active(d, k) \/ d.need = at)
<1> DEFINE n == Advanced(c, k)
           m == MergeRequired(n, at)
           d == Processed(c, k, at)
           more == done \cup {<<k, c[k].id, c[k].queue[c[k].index + 1]>>}
<1>1. /\ n \in Document
      /\ n[k].status = c[k].status /\ n[k].queue = c[k].queue /\ n[k].index = c[k].index + 1
      /\ n[k].id = c[k].id /\ n[k].lease = c[k].lease
      /\ \A j \in Kinds \ {k} : n[j] = c[j]
      /\ n.need = c.need /\ n.merged = c.merged
  BY NextIs
<1>2. d = IF n[k].index = Len(c[k].queue) THEN Completed(m, k) ELSE Released(n, k)
  BY DEF Processed
<1> HIDE DEF n, d
<1>3. /\ m \in Document /\ \A j \in Kinds : m[j] = n[j]
      /\ m.need = at /\ m.merged = n.merged
  BY <1>1, MergeRequiredIs
<1> HIDE DEF m
<1>4. c[k] \in Run /\ RunSound(k, c[k], done, now) /\ c[k].index < Len(c[k].queue) /\ now \in Nat
      /\ c[k].index \in Nat /\ Len(c[k].queue) \in Nat
  BY DocumentHas DEF Sound, RunSound
<1>5. n[k].status = "in_progress" /\ n[k].queue = c[k].queue /\ n[k].index = c[k].index + 1 /\ n[k].id = c[k].id
      /\ n[k].lease = c[k].lease
  BY <1>1
<1>6. at \in Nat /\ c.need \in Nat /\ c.merged \in Nat /\ c.need <= now /\ c.merged <= now
  BY ImportBounds, DocumentHas DEF Stamp, Sound
<1>7. \A i \in 1 .. c[k].index + 1 : <<k, c[k].id, c[k].queue[i]>> \in more
  BY <1>4 DEF RunSound
<1>8. done \subseteq more
  OBVIOUS
<1> HIDE DEF more
<1>9. CASE n[k].index = Len(c[k].queue)
  <2>1. /\ d \in Document
        /\ d[k].status = "completed" /\ d[k].queue = n[k].queue /\ d[k].index = n[k].index
        /\ d[k].id = n[k].id /\ d[k].lease = 0
        /\ \A j \in Kinds \ {k} : d[j] = n[j]
        /\ d.need = at /\ d.merged = n.merged
    BY <1>2, <1>3, <1>9, CompletedIs
  <2>2. RunSound(k, d[k], more, now)
    BY <2>1, <1>4, <1>5, <1>7, <1>9 DEF RunSound
  <2>3. Sound(d, more, now)
    BY <2>1, <2>2, <1>1, <1>6, <1>8, SoundEdit
  <2> QED
    BY <2>1, <2>3, <1>1, <1>5 DEF d, n, more
<1>10. CASE n[k].index # Len(c[k].queue)
  <2>1. /\ d \in Document
        /\ d[k] = [n[k] EXCEPT !.lease = 0]
        /\ \A j \in Kinds \ {k} : d[j] = n[j]
        /\ d.need = n.need /\ d.merged = n.merged
    BY <1>1, <1>2, <1>10, ReleasedIs
  <2>2. d[k].status = n[k].status /\ d[k].queue = n[k].queue /\ d[k].index = n[k].index /\ d[k].id = n[k].id
        /\ d[k].lease = 0
    BY <2>1, <1>1, RunIs, DocumentHas
  <2>3. RunSound(k, d[k], more, now)
    <3>1. d[k].status = "in_progress" /\ d[k].queue = c[k].queue /\ d[k].index = c[k].index + 1
          /\ d[k].id = c[k].id /\ d[k].lease = 0
      BY <2>2, <1>5
    <3>2. c[k].index + 1 < Len(c[k].queue)
      BY <1>4, <1>5, <1>10
    <3> QED
      BY <3>1, <3>2, <1>4, <1>7 DEF RunSound
  <2>4. Sound(d, more, now)
    <3>1. (\A j \in Kinds \ {k} : d[j] = c[j]) /\ d.need <= now /\ d.merged <= now /\ d \in Document
      BY <2>1, <1>1, <1>6
    <3> QED
      BY <2>3, <3>1, <1>8, SoundEdit
  <2> QED
    BY <2>1, <2>2, <2>4, <1>1, <1>5 DEF d, n, more, Active
<1> QED
  BY <1>9, <1>10 DEF more

\* The provider of a step failed.
LEMMA FailedIsSound ==
  ASSUME NEW c \in Document, NEW k \in Kinds, NEW at \in Stamp, NEW done, NEW now \in Nat,
         Sound(c, done, now), at <= now
  PROVE  LET d == MergeRequired(MarkFailed(c, k), at)
         IN  /\ d \in Document /\ Sound(d, done, now)
             /\ d[k].id = c[k].id /\ \A j \in Kinds \ {k} : d[j] = c[j]
             /\ d.merged = c.merged /\ d.need = at
<1> DEFINE f == MarkFailed(c, k)
           d == MergeRequired(f, at)
<1>1. /\ f \in Document
      /\ f[k].status = "failed" /\ f[k].queue = c[k].queue /\ f[k].index = c[k].index
      /\ f[k].id = c[k].id /\ f[k].lease = 0
      /\ \A j \in Kinds \ {k} : f[j] = c[j]
      /\ f.merged = c.merged
  BY FailedIs
<1> HIDE DEF f
<1>2. /\ d \in Document /\ \A j \in Kinds : d[j] = f[j]
      /\ d.need = at /\ d.merged = f.merged
  BY <1>1, MergeRequiredIs
<1> HIDE DEF d
<1>3. at \in Nat /\ c.merged \in Nat /\ c.merged <= now /\ RunSound(k, c[k], done, now)
  BY ImportBounds, DocumentHas DEF Stamp, Sound
<1>4. RunSound(k, d[k], done, now)
  <2>1. d[k].status = "failed" /\ d[k].queue = c[k].queue /\ d[k].index = c[k].index
        /\ d[k].id = c[k].id /\ d[k].lease = 0
    BY <1>1, <1>2
  <2> QED
    BY <2>1, <1>3 DEF RunSound
<1>5. Sound(d, done, now)
  BY <1>1, <1>2, <1>3, <1>4, SoundEdit
<1> QED
  BY <1>1, <1>2, <1>5 DEF d, f

-----------------------------------------------------------------------------
(* What the invariant says of a loop, a request and a merge at work.       *)

LEMMA Holds ==
  ASSUME ImportInv
  PROVE  /\ clock \in Nat /\ cfg \in Document /\ ended \in Nat /\ covered \in Nat
         /\ \A l \in lapsed : l \in Nat /\ l <= clock
         /\ \A w \in Workers : job[w] # Idle =>
               /\ job[w].kind \in Kinds /\ job[w].copy \in Document
               /\ job[w].stamp \in Stamp /\ job[w].stamp \in Nat
         /\ \A r \in Clients : request[r] # Idle =>
               request[r].kind \in Kinds \cup Settings /\ request[r].copy \in Document
         /\ mergeJob # Idle =>
               /\ mergeJob.copy \in Document
               /\ mergeJob.stamp \in Stamp /\ mergeJob.stamp \in Nat /\ mergeJob.ended \in Nat
  BY ImportBounds DEF ImportInv, Types, HoldersInv, Claimed, Requested, Merging, Stamp

LEMMA AtWorkIs ==
  ASSUME ImportInv, Undisturbed, NEW w \in Workers, job[w] # Idle
  PROVE  LET c == job[w].copy
             k == job[w].kind
         IN  /\ \A j \in Kinds : cfg[j] = c[j]
             /\ cfg.need = c.need /\ cfg.merged = c.merged /\ cfg.error = c.error
             /\ cfg[k].status = "in_progress" /\ cfg[k].lease = job[w].stamp
             /\ Active(cfg, k) /\ \A j \in Kinds \ {k} : ~Active(cfg, j)
             /\ LeaseBlocked(cfg, k)
             /\ \A v \in Workers : job[v] # Idle => v = w
<1>1. /\ job[w].kind \in Kinds /\ job[w].copy \in Document
      /\ job[w].copy[job[w].kind].status = "in_progress" /\ job[w].copy[job[w].kind].lease = job[w].stamp
      /\ 0 < job[w].stamp
  BY Holds DEF ImportInv, HoldersInv
<1>2. AtWork(w) /\ ~(Active(cfg, "quick") /\ Active(cfg, "all"))
  BY DEF ImportInv, LeaseInv
<1>3. PICK q \in Queues, b \in BOOLEAN : cfg = WithSettings(job[w].copy, q, b)
  BY <1>2 DEF AtWork
<1>4. /\ \A j \in Kinds : cfg[j] = job[w].copy[j]
      /\ cfg.need = job[w].copy.need /\ cfg.merged = job[w].copy.merged /\ cfg.error = job[w].copy.error
  BY <1>1, <1>3, SettingsAre
<1>5. cfg[job[w].kind].status = "in_progress" /\ cfg[job[w].kind].lease = job[w].stamp
  BY <1>1, <1>4
<1>6. Active(cfg, job[w].kind) /\ \A j \in Kinds \ {job[w].kind} : ~Active(cfg, j)
  BY <1>1, <1>2, <1>5 DEF Active, Kinds
<1>7. LeaseBlocked(cfg, job[w].kind)
  BY <1>1, <1>2, <1>5, Holds DEF LeaseBlocked, AtWork
<1>8. \A v \in Workers : job[v] # Idle => v = w
  BY DEF ImportInv, LeaseInv
<1> QED
  BY <1>4, <1>5, <1>6, <1>7, <1>8

\* A run is free, or may be asked for, only if no loop is at work.
LEMMA NobodyAtWork ==
  ASSUME ImportInv, Undisturbed, (\E k \in Kinds : Free(k)) \/ ~AnyActive(cfg)
  PROVE  \A w \in Workers : job[w] = Idle
<1> SUFFICES ASSUME NEW w \in Workers, job[w] # Idle
             PROVE  FALSE
  OBVIOUS
<1>1. /\ job[w].kind \in Kinds /\ Active(cfg, job[w].kind) /\ LeaseBlocked(cfg, job[w].kind)
      /\ \A j \in Kinds \ {job[w].kind} : ~Active(cfg, j)
  BY AtWorkIs, Holds
<1>2. PICK k \in Kinds : Free(k)
  BY <1>1 DEF AnyActive
<1>3. k # job[w].kind
  BY <1>1, <1>2 DEF Free
<1>4. CASE k = "quick"
  BY <1>1, <1>2, <1>3, <1>4 DEF Free, Due, Kinds
<1>5. CASE k = "all"
  BY <1>1, <1>2, <1>3, <1>5 DEF Free, Due, Kinds
<1> QED
  BY <1>4, <1>5 DEF Kinds

\* Copies stay sound while time goes on.
LEMMA CopiesGrow ==
  ASSUME ImportInv, NEW done, NEW now \in Nat, imported \subseteq done, clock <= now
  PROVE  /\ Sound(cfg, done, now)
         /\ \A w \in Workers : job[w] # Idle => Sound(job[w].copy, done, now)
         /\ \A r \in Clients : request[r] # Idle => Sound(request[r].copy, done, now)
         /\ mergeJob # Idle => Sound(mergeJob.copy, done, now)
  BY Holds, SoundGrows DEF ImportInv, DocumentsInv

-----------------------------------------------------------------------------
(* Every step keeps the invariant.                                         *)

LEMMA ImportInit_ImportInv ==
  ImportInit => ImportInv
<1> SUFFICES ASSUME ImportInit
             PROVE  ImportInv
  OBVIOUS
<1>1. PICK q \in Queues : cfg = [quick |-> NoRun, all |-> NoRun, order |-> q, every |-> FALSE,
                                need |-> 0, merged |-> 0, error |-> FALSE]
  BY DEF ImportInit
<1>2. NoRun \in Run /\ 0 \in Stamp
  BY ImportBounds DEF NoRun, Run, Statuses, Stamp
<1>3. cfg \in Document /\ \A k \in Kinds : cfg[k] = NoRun
  BY <1>1, <1>2 DEF Document, Kinds
<1>4. Types
  <2>1. clock \in Stamp /\ lapsed \subseteq Stamp /\ mergeJob \in Merging \cup {Idle}
    BY <1>2 DEF ImportInit
  <2>2. job \in [Workers -> Claimed \cup {Idle}] /\ request \in [Clients -> Requested \cup {Idle}]
    <3>1. Idle \in Claimed \cup {Idle} /\ Idle \in Requested \cup {Idle}
      OBVIOUS
    <3> HIDE DEF Idle
    <3> QED
      BY <3>1 DEF ImportInit
  <2>3. /\ ended \in Nat /\ covered \in Nat /\ covered <= ended
        /\ requested \in 0 .. MaxRequests /\ faults \in 0 .. MaxFaults
    BY ImportBounds DEF ImportInit
  <2>4. raced \in BOOLEAN /\ overdue \in BOOLEAN
    BY Zenon DEF ImportInit
  <2> QED
    BY <2>1, <2>2, <2>3, <2>4, <1>3 DEF Types
<1>5. DocumentsInv
  <2>1. ASSUME NEW k \in Kinds
        PROVE  RunSound(k, cfg[k], imported, clock)
    <3>1. cfg[k].status = "none" /\ cfg[k].index = 0 /\ cfg[k].lease = 0 /\ cfg[k].id = 0
          /\ Len(cfg[k].queue) = 0
      BY <1>3 DEF NoRun
    <3> QED
      BY <3>1 DEF RunSound, ImportInit
  <2>2. Sound(cfg, imported, clock)
    <3>1. cfg.need = 0 /\ cfg.merged = 0
      BY <1>1
    <3>2. clock = 0
      BY DEF ImportInit
    <3> QED
      BY <2>1, <3>1, <3>2 DEF Sound
  <2> QED
    BY <2>2 DEF DocumentsInv, ImportInit
<1>6. HoldersInv
  BY DEF HoldersInv, ImportInit
<1>7. LeaseInv
  BY <1>3 DEF LeaseInv, ImportInit, Kinds, NoRun, Active
<1> QED
  BY <1>4, <1>5, <1>6, <1>7 DEF ImportInv

LEMMA ClaimStep ==
  ASSUME ImportInv, NEW w \in Workers, NEW k \in Kinds, Claim(w, k)
  PROVE  ImportInv'
<1> DEFINE c == IF Active(cfg, k) THEN cfg ELSE MergeRequired(Built(cfg, k, Now), Now)
           d == Started(c, k, Now)
<1>1. /\ job[w] = Idle /\ Free(k) /\ clock' = Now /\ Now \in Stamp /\ Now \in Nat /\ clock < Now /\ 0 < Now
      /\ cfg' = d /\ job' = [job EXCEPT ![w] = [kind |-> k, stamp |-> Now, copy |-> d]]
      /\ UNCHANGED <<lapsed, request, mergeJob, imported, ended, covered, requested, faults, raced, overdue>>
  BY Holds, ImportBounds DEF Claim, Draw, Now, Stamp, ImportInv, Types
<1>2. cfg \in Document /\ clock \in Nat /\ Sound(cfg, imported, clock)
  BY Holds DEF ImportInv, DocumentsInv
<1>3. /\ c \in Document /\ Sound(c, imported, Now) /\ Active(c, k)
      /\ \A j \in Kinds \ {k} : c[j] = cfg[j]
      /\ c.order = cfg.order /\ c.every = cfg.every /\ c.merged = cfg.merged
      /\ IF Active(cfg, k) THEN c[k].id = cfg[k].id ELSE c[k].id = Now
  <2>1. CASE Active(cfg, k)
    <3>1. Sound(cfg, imported, Now)
      BY <1>1, <1>2, SoundGrows
    <3> QED
      BY <2>1, <3>1, <1>2
  <2>2. CASE ~Active(cfg, k)
    BY <1>1, <1>2, <2>2, BuiltIsSound DEF Active
  <2> QED
    BY <2>1, <2>2
<1> HIDE DEF c
<1>4. /\ d \in Document /\ Sound(d, imported, Now)
      /\ d[k].status = "in_progress" /\ d[k].id = c[k].id /\ d[k].lease = Now
      /\ \A j \in Kinds \ {k} : d[j] = c[j]
      /\ d.order = c.order /\ d.every = c.every /\ d.merged = c.merged /\ d.need # 0
  BY <1>1, <1>3, StartedIsSound
<1>5. cfg.merged < Now /\ d.merged < Now
  BY <1>1, <1>2, <1>3, <1>4, DocumentHas DEF Sound
<1> HIDE DEF d
<1> DEFINE mine == [kind |-> k, stamp |-> Now, copy |-> d]
<1>6. mine \in Claimed /\ mine # Idle /\ mine.kind = k /\ mine.stamp = Now /\ mine.copy = d
  BY <1>1, <1>4 DEF Claimed, Idle, Kinds
<1> HIDE DEF mine
<1>7. /\ job \in [Workers -> Claimed \cup {Idle}] /\ job' = [job EXCEPT ![w] = mine]
      /\ job'[w] = mine /\ \A v \in Workers \ {w} : job'[v] = job[v]
  BY <1>1 DEF mine, ImportInv, Types
<1>8. Types'
  BY <1>1, <1>4, <1>6, <1>7 DEF Types, ImportInv
<1>9. DocumentsInv'
  <2>1. /\ \A v \in Workers : job[v] # Idle => Sound(job[v].copy, imported, Now)
        /\ \A r \in Clients : request[r] # Idle => Sound(request[r].copy, imported, Now)
        /\ mergeJob # Idle => Sound(mergeJob.copy, imported, Now)
    BY <1>1, <1>2, CopiesGrow
  <2> QED
    BY <1>1, <1>4, <1>6, <1>7, <2>1 DEF DocumentsInv
<1>10. HoldersInv'
  <2>1. /\ \A v \in Workers \ {w} : job[v] # Idle => job[v].stamp <= Now
        /\ mergeJob # Idle => mergeJob.stamp <= Now
        /\ \A l \in lapsed : l <= Now
    BY <1>1, Holds DEF ImportInv, HoldersInv
  <2>2. ASSUME NEW v \in Workers, job'[v] # Idle
        PROVE  /\ (job[v].copy[job[v].kind].status = "in_progress")'
               /\ (job[v].copy[job[v].kind].lease = job[v].stamp)'
               /\ (0 < job[v].stamp)' /\ (job[v].stamp <= clock)'
               /\ (job[v].copy.need # 0)' /\ (job[v].copy.merged < job[v].stamp)'
    <3>1. CASE v = w
      BY <3>1, <1>1, <1>4, <1>5, <1>6, <1>7
    <3>2. CASE v # w
      BY <3>2, <2>1, <2>2, <1>1, <1>7 DEF ImportInv, HoldersInv
    <3> QED
      BY <3>1, <3>2
  <2> QED
    BY <1>1, <2>1, <2>2 DEF ImportInv, HoldersInv
<1>11. LeaseInv'
  <2> SUFFICES ASSUME Undisturbed'
               PROVE  LeaseInv'
    BY DEF LeaseInv
  <2>1. Undisturbed
    BY <1>1 DEF Undisturbed
  <2>2. \A v \in Workers : job[v] = Idle
    BY <1>1, <2>1, NobodyAtWork
  <2>3. \A j \in Kinds \ {k} : ~Active(cfg, j)
    <3>1. CASE k = "quick"
      BY <3>1, <1>1 DEF Free, Due, Kinds
    <3>2. CASE k = "all"
      BY <3>2, <1>1, <2>1 DEF Free, Due, Kinds, ImportInv, LeaseInv
    <3> QED
      BY <3>1, <3>2 DEF Kinds
  <2>4. Active(cfg, k)' /\ \A j \in Kinds \ {k} : ~Active(cfg, j)'
    BY <1>1, <1>3, <1>4, <2>3 DEF Active
  <2>5. (~(Active(cfg, "quick") /\ Active(cfg, "all")))'
    BY <2>4 DEF Kinds
  <2>6. \A v \in Workers : job'[v] # Idle => v = w
    BY <1>7, <2>2
  <2>7. AtWork(w)'
    <3>1. d.order \in Queues /\ d.every \in BOOLEAN /\ d = WithSettings(d, d.order, d.every)
      BY <1>4, DocumentHas DEF WithSettings, Document
    <3>2. Now \notin lapsed
      BY <1>1, Holds
    <3> QED
      BY <3>1, <3>2, <1>1, <1>6, <1>7 DEF AtWork
  <2>8. Blocked(cfg)'
    BY <2>4 DEF Blocked, AnyActive
  <2>9. mergeJob # Idle => \E j \in Kinds : d[j].id > mergeJob.stamp
    <3> SUFFICES ASSUME mergeJob # Idle
                 PROVE  \E j \in Kinds : d[j].id > mergeJob.stamp
      OBVIOUS
    <3>1. mergeJob.stamp \in Nat /\ mergeJob.stamp < Now
      BY <1>1, Holds DEF ImportInv, HoldersInv
    <3>2. CASE ~Active(cfg, k)
      BY <3>1, <3>2, <1>1, <1>3, <1>4
    <3>3. CASE Active(cfg, k)
      <4>1. PICK j \in Kinds : cfg[j].id > mergeJob.stamp
        BY <2>1, <3>3 DEF ImportInv, LeaseInv, AnyActive
      <4>2. d[j].id = cfg[j].id
        BY <1>3, <1>4, <3>3
      <4> QED
        BY <4>1, <4>2
    <3> QED
      BY <3>2, <3>3
  <2> QED
    BY <1>1, <2>5, <2>6, <2>7, <2>8, <2>9 DEF LeaseInv
<1> QED
  BY <1>8, <1>9, <1>10, <1>11 DEF ImportInv

\* Either end of a step writes a document in which only the run it worked on has moved.
LEMMA StepEnds ==
  ASSUME ImportInv, NEW w \in Workers, job[w] # Idle, NEW d \in Document, NEW done,
         cfg' = d, job' = [job EXCEPT ![w] = Idle], imported' = done, imported \subseteq done, ended' = ended + 1,
         faults' \in 0 .. MaxFaults,
         UNCHANGED <<clock, lapsed, request, mergeJob, covered, requested, raced, overdue>>,
         Sound(d, done, clock),
         \A j \in Kinds \ {job[w].kind} : d[j] = job[w].copy[j],
         d[job[w].kind].id = job[w].copy[job[w].kind].id, d.merged = job[w].copy.merged,
         Active(d, job[w].kind) \/ d.need = job[w].stamp
  PROVE  ImportInv'
<1> DEFINE k == job[w].kind
           c == job[w].copy
<1>1. /\ k \in Kinds /\ c \in Document /\ clock \in Nat /\ ended \in Nat /\ covered \in Nat
      /\ c.merged < job[w].stamp /\ 0 < job[w].stamp
  BY Holds DEF ImportInv, HoldersInv
<1>2. job \in [Workers -> Claimed \cup {Idle}] /\ job'[w] = Idle /\ \A v \in Workers \ {w} : job'[v] = job[v]
  BY DEF ImportInv, Types
<1>3. Types'
  BY <1>1, <1>2 DEF Types, ImportInv
<1>4. DocumentsInv'
  <2>1. /\ \A v \in Workers : job[v] # Idle => Sound(job[v].copy, done, clock)
        /\ \A r \in Clients : request[r] # Idle => Sound(request[r].copy, done, clock)
        /\ mergeJob # Idle => Sound(mergeJob.copy, done, clock)
    BY <1>1, CopiesGrow
  <2> QED
    BY <1>2, <2>1 DEF DocumentsInv
<1>5. HoldersInv'
  <2>1. ASSUME NEW v \in Workers, job'[v] # Idle
        PROVE  v # w /\ job[v] # Idle /\ job'[v] = job[v]
    BY <2>1, <1>2
  <2>2. mergeJob # Idle => mergeJob.ended <= ended + 1
    BY <1>1, Holds DEF ImportInv, HoldersInv
  <2> QED
    BY <2>1, <2>2 DEF HoldersInv, ImportInv
<1>6. LeaseInv'
  <2> SUFFICES ASSUME Undisturbed'
               PROVE  LeaseInv'
    BY DEF LeaseInv
  <2>1. Undisturbed
    BY DEF Undisturbed
  <2>2. /\ \A j \in Kinds : cfg[j] = c[j]
        /\ Active(cfg, k) /\ \A j \in Kinds \ {k} : ~Active(cfg, j)
        /\ \A v \in Workers : job[v] # Idle => v = w
    BY <2>1, AtWorkIs
  <2>3. \A v \in Workers : job'[v] = Idle
    BY <1>2, <2>2
  <2>4. \A j \in Kinds \ {k} : ~Active(d, j)
    BY <2>2 DEF Active
  <2>5. ~(Active(d, "quick") /\ Active(d, "all"))
    BY <1>1, <2>4 DEF Kinds
  <2>6. Blocked(d)
    <3>1. CASE Active(d, k)
      BY <1>1, <3>1 DEF Blocked, AnyActive
    <3>2. CASE d.need = job[w].stamp
      BY <1>1, <3>2, Holds DEF Blocked, MergePending
    <3> QED
      BY <3>1, <3>2
  <2>7. mergeJob # Idle => \E j \in Kinds : d[j].id > mergeJob.stamp
    <3> SUFFICES ASSUME mergeJob # Idle
                 PROVE  \E j \in Kinds : d[j].id > mergeJob.stamp
      OBVIOUS
    <3>1. PICK j \in Kinds : cfg[j].id > mergeJob.stamp
      BY <2>1, <2>2, <1>1 DEF ImportInv, LeaseInv, AnyActive
    <3>2. d[j].id = cfg[j].id
      BY <2>2
    <3> QED
      BY <3>1, <3>2
  <2> QED
    BY <2>3, <2>5, <2>6, <2>7 DEF LeaseInv
<1> QED
  BY <1>3, <1>4, <1>5, <1>6 DEF ImportInv

LEMMA ProcessRunStep ==
  ASSUME ImportInv, NEW w \in Workers, ProcessRun(w)
  PROVE  ImportInv'
<1> DEFINE k == job[w].kind
           c == job[w].copy
           d == Processed(c, k, job[w].stamp)
           done == imported \cup {<<k, c[k].id, c[k].queue[c[k].index + 1]>>}
<1>1. /\ job[w] # Idle /\ cfg' = d /\ job' = [job EXCEPT ![w] = Idle] /\ ended' = ended + 1
      /\ UNCHANGED <<clock, lapsed, request, mergeJob, covered, requested, faults, raced, overdue>>
  BY DEF ProcessRun, Processed, Advanced
<1>2. /\ k \in Kinds /\ c \in Document /\ job[w].stamp \in Stamp /\ job[w].stamp <= clock /\ clock \in Nat
      /\ c[k].status = "in_progress" /\ Sound(c, imported, clock)
  BY <1>1, Holds DEF ImportInv, HoldersInv, DocumentsInv
<1>3. imported' = done
  <2>1. imported' = imported \cup {<<k, c[k].id, c[k].queue[Advanced(c, k)[k].index]>>}
    BY DEF ProcessRun, Advanced
  <2>2. Advanced(c, k)[k].index = c[k].index + 1
    BY <1>2, NextIs
  <2> QED
    BY <2>1, <2>2
<1>4. /\ d \in Document /\ Sound(d, done, clock)
      /\ d[k].id = c[k].id /\ \A j \in Kinds \ {k} : d[j] = c[j]
      /\ d.merged = c.merged /\ (Active(d, k) \/ d.need = job[w].stamp)
  BY <1>2, ProcessedIsSound
<1>5. faults' \in 0 .. MaxFaults
  BY <1>1 DEF ImportInv, Types
<1> HIDE DEF d, done
<1>6. imported \subseteq done
  BY DEF done
<1> QED
  BY <1>1, <1>3, <1>4, <1>5, <1>6, StepEnds

LEMMA FailRunStep ==
  ASSUME ImportInv, NEW w \in Workers, FailRun(w)
  PROVE  ImportInv'
<1> DEFINE k == job[w].kind
           c == job[w].copy
           d == MergeRequired(MarkFailed(c, k), job[w].stamp)
<1>1. /\ job[w] # Idle /\ cfg' = d /\ job' = [job EXCEPT ![w] = Idle] /\ ended' = ended + 1
      /\ UNCHANGED <<clock, lapsed, request, mergeJob, imported, covered, requested, raced, overdue>>
  BY DEF FailRun
<1>2. /\ k \in Kinds /\ c \in Document /\ job[w].stamp \in Stamp /\ job[w].stamp <= clock /\ clock \in Nat
      /\ Sound(c, imported, clock)
  BY <1>1, Holds DEF ImportInv, HoldersInv, DocumentsInv
<1>3. /\ d \in Document /\ Sound(d, imported, clock)
      /\ d[k].id = c[k].id /\ \A j \in Kinds \ {k} : d[j] = c[j]
      /\ d.merged = c.merged /\ d.need = job[w].stamp
  BY <1>2, FailedIsSound
<1>4. faults' \in 0 .. MaxFaults
  BY ImportBounds DEF ImportInv, Types, FailRun, Fault
<1> HIDE DEF d
<1> QED
  BY <1>1, <1>3, <1>4, StepEnds

LEMMA CrashStep ==
  ASSUME ImportInv, NEW w \in Workers, Crash(w)
  PROVE  ImportInv'
<1>1. /\ job[w] # Idle /\ job' = [job EXCEPT ![w] = Idle] /\ ended' = ended + 1
      /\ UNCHANGED <<clock, cfg, lapsed, request, mergeJob, imported, covered, requested, raced, overdue>>
  BY DEF Crash
<1>2. clock \in Nat /\ ended \in Nat /\ covered \in Nat /\ job[w].kind \in Kinds
  BY <1>1, Holds
<1>3. job \in [Workers -> Claimed \cup {Idle}] /\ job'[w] = Idle /\ \A v \in Workers \ {w} : job'[v] = job[v]
  BY <1>1 DEF ImportInv, Types
<1>4. faults' \in 0 .. MaxFaults
  BY ImportBounds DEF ImportInv, Types, Crash, Fault
<1>5. Types'
  BY <1>1, <1>2, <1>3, <1>4 DEF Types, ImportInv
<1>6. DocumentsInv'
  BY <1>1, <1>3 DEF DocumentsInv, ImportInv
<1>7. HoldersInv'
  <2>1. ASSUME NEW v \in Workers, job'[v] # Idle
        PROVE  v # w /\ job[v] # Idle /\ job'[v] = job[v]
    BY <2>1, <1>3
  <2>2. mergeJob # Idle => mergeJob.ended <= ended + 1
    BY <1>2, Holds DEF ImportInv, HoldersInv
  <2> QED
    BY <1>1, <2>1, <2>2 DEF HoldersInv, ImportInv
<1>8. LeaseInv'
  <2> SUFFICES ASSUME Undisturbed'
               PROVE  LeaseInv'
    BY DEF LeaseInv
  <2>1. Undisturbed
    BY <1>1 DEF Undisturbed
  <2>2. Active(cfg, job[w].kind) /\ \A v \in Workers : job[v] # Idle => v = w
    BY <1>1, <2>1, AtWorkIs
  <2>3. \A v \in Workers : job'[v] = Idle
    BY <1>3, <2>2
  <2>4. ~(Active(cfg, "quick") /\ Active(cfg, "all")) /\ Blocked(cfg)
    BY <1>2, <2>1, <2>2 DEF ImportInv, LeaseInv, Blocked, AnyActive
  <2>5. mergeJob # Idle => \E j \in Kinds : cfg[j].id > mergeJob.stamp
    BY <1>2, <2>1, <2>2 DEF ImportInv, LeaseInv, AnyActive
  <2> QED
    BY <1>1, <2>3, <2>4, <2>5 DEF LeaseInv
<1> QED
  BY <1>5, <1>6, <1>7, <1>8 DEF ImportInv

LEMMA LapseStep ==
  ASSUME ImportInv, NEW k \in Kinds, Lapse(k)
  PROVE  ImportInv'
<1>1. /\ lapsed' = lapsed \cup {cfg[k].lease}
      /\ UNCHANGED <<clock, cfg, job, request, mergeJob, imported, ended, covered, requested, raced>>
      /\ faults' \in 0 .. MaxFaults /\ overdue' \in BOOLEAN
  <2>1. CASE \E w \in Workers : job[w] # Idle /\ job[w].stamp = cfg[k].lease
    <3>1. overdue' \in BOOLEAN
      BY <2>1, Zenon DEF Lapse
    <3>2. faults < MaxFaults /\ faults' = faults + 1 /\ faults \in 0 .. MaxFaults
      BY <2>1 DEF Lapse, Fault, ImportInv, Types
    <3> QED
      BY <3>1, <3>2, ImportBounds DEF Lapse
  <2>2. CASE ~ \E w \in Workers : job[w] # Idle /\ job[w].stamp = cfg[k].lease
    BY <2>2 DEF Lapse, ImportInv, Types
  <2> QED
    BY <2>1, <2>2
<1>2. cfg[k].lease \in Stamp /\ cfg[k].lease <= clock
  BY DEF ImportInv, Types, DocumentsInv, Sound, RunSound, Document, Run, Kinds
<1>3. Types'
  BY <1>1, <1>2 DEF Types, ImportInv
<1>4. DocumentsInv'
  BY <1>1 DEF DocumentsInv, ImportInv
<1>5. HoldersInv'
  BY <1>1, <1>2 DEF HoldersInv, ImportInv
<1>6. LeaseInv'
  <2> SUFFICES ASSUME Undisturbed'
               PROVE  LeaseInv'
    BY DEF LeaseInv
  <2>1. Undisturbed /\ \A w \in Workers : job[w] # Idle => job[w].stamp # cfg[k].lease
    <3>1. CASE \E w \in Workers : job[w] # Idle /\ job[w].stamp = cfg[k].lease
      <4>1. overdue'
        BY <3>1 DEF Lapse
      <4> QED
        BY <4>1 DEF Undisturbed
    <3>2. CASE ~ \E w \in Workers : job[w] # Idle /\ job[w].stamp = cfg[k].lease
      <4>1. UNCHANGED overdue
        BY <3>2 DEF Lapse
      <4> QED
        BY <3>2, <4>1, <1>1 DEF Undisturbed
    <3> QED
      BY <3>1, <3>2
  <2>2. \A w \in Workers : job[w] # Idle => AtWork(w)'
    BY <1>1, <2>1 DEF AtWork, LeaseInv, ImportInv
  <2> QED
    BY <1>1, <2>1, <2>2 DEF LeaseInv, ImportInv
<1> QED
  BY <1>3, <1>4, <1>5, <1>6 DEF ImportInv

LEMMA ReadDocumentStep ==
  ASSUME ImportInv, NEW r \in Clients, NEW kind \in Kinds \cup Settings, ReadDocument(r, kind)
  PROVE  ImportInv'
<1> DEFINE mine == [kind |-> kind, copy |-> cfg]
<1>1. /\ request' = [request EXCEPT ![r] = mine] /\ requested' \in 0 .. MaxRequests
      /\ kind \in Kinds => ~AnyActive(cfg)
      /\ UNCHANGED <<clock, cfg, job, lapsed, mergeJob, imported, ended, covered, faults, raced, overdue>>
  BY ImportBounds DEF ReadDocument, ImportInv, Types
<1>2. mine \in Requested /\ mine # Idle /\ mine.kind = kind /\ mine.copy = cfg
  BY SettingsAssumption DEF Requested, Idle, Kinds, ImportInv, Types
<1> HIDE DEF mine
<1>3. request'[r] = mine /\ \A s \in Clients \ {r} : request'[s] = request[s]
  BY <1>1 DEF ImportInv, Types
<1>4. Types'
  BY <1>1, <1>2 DEF Types, ImportInv
<1>5. DocumentsInv'
  BY <1>1, <1>2, <1>3 DEF DocumentsInv, ImportInv
<1>6. HoldersInv'
  BY <1>1, <1>2, <1>3 DEF HoldersInv, ImportInv
<1>7. LeaseInv'
  BY <1>1 DEF LeaseInv, ImportInv, Undisturbed, AtWork
<1> QED
  BY <1>4, <1>5, <1>6, <1>7 DEF ImportInv

LEMMA CommitStep ==
  ASSUME ImportInv, NEW r \in Clients, Commit(r)
  PROVE  ImportInv'
<1> DEFINE c == request[r].copy
           kind == request[r].kind
<1>1. /\ request[r] # Idle /\ request' = [request EXCEPT ![r] = Idle]
      /\ raced' = (raced \/ c # cfg)
      /\ UNCHANGED <<job, lapsed, mergeJob, imported, ended, covered, requested, faults, overdue>>
  BY DEF Commit
<1>2. /\ c \in Document /\ kind \in Kinds \cup Settings /\ clock \in Nat /\ clock \in Stamp
      /\ Sound(c, imported, clock) /\ (kind \in Kinds => ~AnyActive(c))
  BY <1>1, Holds DEF ImportInv, HoldersInv, DocumentsInv, Types
<1>3. raced' \in BOOLEAN
  BY <1>1, Zenon
<1>4. Undisturbed' => Undisturbed /\ c = cfg
  <2>1. ~raced' => ~raced /\ c = cfg
    BY <1>1, Zenon
  <2> QED
    BY <1>1, <2>1 DEF Undisturbed
<1>5. request'[r] = Idle /\ \A s \in Clients \ {r} : request'[s] = request[s]
  BY <1>1 DEF ImportInv, Types
<1>6. CASE kind \in Kinds
  <2> DEFINE d == MergeRequired(Built(c, kind, Now), Now)
  <2>1. cfg' = d /\ clock' = Now /\ Now \in Stamp /\ Now \in Nat /\ clock < Now
    <3>1. Draw /\ cfg' = d
      BY <1>6 DEF Commit, Kinds
    <3> QED
      BY <3>1, <1>2, ImportBounds DEF Draw, Now, Stamp
  <2>2. ~Active(c, kind)
    BY <1>2, <1>6 DEF AnyActive
  <2>3. /\ d \in Document /\ Sound(d, imported, Now)
        /\ d[kind].status = "pending" /\ d[kind].id = Now /\ \A j \in Kinds \ {kind} : d[j] = c[j]
    BY <1>2, <1>6, <2>1, <2>2, BuiltIsSound
  <2> HIDE DEF d
  <2>4. Types'
    BY <1>1, <1>3, <2>1, <2>3 DEF Types, ImportInv
  <2>5. DocumentsInv'
    <3>1. /\ \A v \in Workers : job[v] # Idle => Sound(job[v].copy, imported, Now)
          /\ \A s \in Clients : request[s] # Idle => Sound(request[s].copy, imported, Now)
          /\ mergeJob # Idle => Sound(mergeJob.copy, imported, Now)
      BY <1>2, <2>1, CopiesGrow
    <3> QED
      BY <1>1, <1>5, <2>1, <2>3, <3>1 DEF DocumentsInv
  <2>6. HoldersInv'
    <3>1. /\ \A v \in Workers : job[v] # Idle => job[v].stamp <= Now
          /\ mergeJob # Idle => mergeJob.stamp <= Now
          /\ \A l \in lapsed : l <= Now
      BY <1>2, <2>1, Holds DEF ImportInv, HoldersInv
    <3> QED
      BY <1>1, <1>5, <2>1, <3>1 DEF HoldersInv, ImportInv
  <2>7. LeaseInv'
    <3> SUFFICES ASSUME Undisturbed'
                 PROVE  LeaseInv'
      BY DEF LeaseInv
    <3>1. Undisturbed /\ c = cfg /\ ~AnyActive(cfg)
      BY <1>2, <1>4, <1>6
    <3>2. \A v \in Workers : job[v] = Idle
      BY <3>1, NobodyAtWork
    <3>3. Active(d, kind) /\ \A j \in Kinds \ {kind} : ~Active(d, j)
      BY <1>6, <2>3, <3>1 DEF Active, AnyActive
    <3>4. ~(Active(d, "quick") /\ Active(d, "all")) /\ Blocked(d)
      BY <1>6, <3>3 DEF Kinds, Blocked, AnyActive
    <3>5. mergeJob # Idle => d[kind].id > mergeJob.stamp
      BY <1>2, <2>1, <2>3, Holds DEF ImportInv, HoldersInv
    <3> QED
      BY <1>1, <1>6, <2>1, <3>2, <3>4, <3>5 DEF LeaseInv
  <2> QED
    BY <2>4, <2>5, <2>6, <2>7 DEF ImportInv
<1>7. CASE kind \notin Kinds
  <2>1. clock' = clock /\ \E q \in Queues, b \in BOOLEAN : cfg' = WithSettings(c, q, b)
    <3>1. CASE kind = "order"
      <4>1. clock' = clock /\ \E q \in Queues : cfg' = [c EXCEPT !.order = q]
        BY <3>1 DEF Commit, Kinds
      <4>2. \A q \in Queues : [c EXCEPT !.order = q] = WithSettings(c, q, c.every)
        BY <1>2 DEF WithSettings, Document
      <4> QED
        BY <4>1, <4>2, <1>2, DocumentHas
    <3>2. CASE kind = "every"
      <4>1. clock' = clock /\ cfg' = [c EXCEPT !.every = ~c.every]
        BY <3>2 DEF Commit, Kinds
      <4>2. [c EXCEPT !.every = ~c.every] = WithSettings(c, c.order, ~c.every)
        BY <1>2 DEF WithSettings, Document
      <4>3. (~c.every) \in BOOLEAN
        OBVIOUS
      <4> QED
        BY <4>1, <4>2, <4>3, <1>2, DocumentHas
    <3> QED
      BY <1>2, <1>7, <3>1, <3>2, SettingsAssumption
  <2>2. PICK q \in Queues, b \in BOOLEAN : cfg' = WithSettings(c, q, b)
    BY <2>1
  <2> DEFINE d == WithSettings(c, q, b)
  <2>3. /\ d \in Document /\ \A j \in Kinds : d[j] = c[j]
        /\ d.need = c.need /\ d.merged = c.merged /\ d.error = c.error
    BY <1>2, SettingsAre
  <2>4. cfg' = d
    BY <2>2
  <2> HIDE DEF d
  <2>5. Sound(d, imported, clock)
    <3>1. d.need <= clock /\ d.merged <= clock
      BY <1>2, <2>3 DEF Sound
    <3> QED
      BY <1>2, <2>3, <3>1, SoundSame
  <2>6. Types'
    BY <1>1, <1>2, <1>3, <2>1, <2>3, <2>4 DEF Types, ImportInv
  <2>7. DocumentsInv'
    BY <1>1, <1>5, <2>1, <2>4, <2>5 DEF DocumentsInv, ImportInv
  <2>8. HoldersInv'
    BY <1>1, <1>5, <2>1 DEF HoldersInv, ImportInv
  <2>9. LeaseInv'
    <3> SUFFICES ASSUME Undisturbed'
                 PROVE  LeaseInv'
      BY DEF LeaseInv
    <3>1. Undisturbed /\ c = cfg
      BY <1>4
    <3>2. \A j \in Kinds : Active(d, j) <=> Active(cfg, j)
      BY <2>3, <3>1 DEF Active
    <3>3. (Blocked(d) <=> Blocked(cfg)) /\ (AnyActive(d) <=> AnyActive(cfg))
      BY <2>3, <3>1, <3>2 DEF Blocked, AnyActive, MergePending
    <3>4. ~(Active(d, "quick") /\ Active(d, "all"))
      BY <3>1, <3>2 DEF ImportInv, LeaseInv, Kinds
    <3>5. ASSUME NEW v \in Workers, job[v] # Idle
          PROVE  AtWork(v)'
      <4>1. job[v].stamp \notin lapsed
        BY <3>1, <3>5 DEF ImportInv, LeaseInv, AtWork
      <4>2. PICK q2 \in Queues, b2 \in BOOLEAN : cfg = WithSettings(job[v].copy, q2, b2)
        BY <3>1, <3>5 DEF ImportInv, LeaseInv, AtWork
      <4>3. job[v].copy \in Document
        BY <3>5, Holds
      <4>4. ASSUME NEW e \in Document
            PROVE  WithSettings(WithSettings(e, q2, b2), q, b) = WithSettings(e, q, b)
        BY DEF WithSettings, Document
      <4>5. cfg' = WithSettings(job[v].copy, q, b)
        BY <2>2, <3>1, <4>2, <4>3, <4>4
      <4> QED
        BY <1>1, <4>1, <4>5 DEF AtWork
    <3> QED
      BY <1>1, <2>3, <2>4, <3>1, <3>3, <3>4, <3>5 DEF LeaseInv, ImportInv
  <2> QED
    BY <2>6, <2>7, <2>8, <2>9 DEF ImportInv
<1> QED
  BY <1>6, <1>7

LEMMA MergeStartStep ==
  ASSUME ImportInv, MergeStart
  PROVE  ImportInv'
<1> DEFINE mine == [kind |-> "merge", copy |-> cfg, stamp |-> Now, ended |-> ended]
<1>1. /\ mergeJob = Idle /\ MergePending(cfg) /\ ~AnyActive(cfg)
      /\ mergeJob' = mine /\ clock' = Now
      /\ UNCHANGED <<cfg, job, lapsed, request, imported, ended, covered, requested, faults, raced, overdue>>
  BY DEF MergeStart, Draw
<1>2. Now \in Stamp /\ Now \in Nat /\ clock < Now /\ clock \in Nat /\ cfg \in Document /\ ended \in Nat
  BY Holds, ImportBounds DEF MergeStart, Draw, Now, Stamp, ImportInv, Types
<1>3. /\ mine \in Merging /\ mine # Idle /\ mine.copy = cfg /\ mine.stamp = Now /\ mine.ended = ended
  BY <1>2 DEF Merging, Idle
<1> HIDE DEF mine
<1>4. Types'
  BY <1>1, <1>2, <1>3 DEF Types, ImportInv
<1>5. DocumentsInv'
  <2>1. /\ Sound(cfg, imported, Now)
        /\ \A v \in Workers : job[v] # Idle => Sound(job[v].copy, imported, Now)
        /\ \A s \in Clients : request[s] # Idle => Sound(request[s].copy, imported, Now)
    BY <1>2, CopiesGrow
  <2> QED
    BY <1>1, <1>3, <2>1 DEF DocumentsInv
<1>6. HoldersInv'
  <2>1. /\ \A v \in Workers : job[v] # Idle => job[v].stamp <= Now
        /\ \A l \in lapsed : l <= Now
    BY <1>2, Holds DEF ImportInv, HoldersInv
  <2>2. \A k \in Kinds : cfg[k].id < Now
    BY <1>2, DocumentHas DEF ImportInv, DocumentsInv, Sound, RunSound
  <2> QED
    BY <1>1, <1>2, <1>3, <2>1, <2>2 DEF HoldersInv, ImportInv
<1>7. LeaseInv'
  BY <1>1, <1>3 DEF LeaseInv, ImportInv, Undisturbed, AtWork
<1> QED
  BY <1>4, <1>5, <1>6, <1>7 DEF ImportInv

\* A merge that ends, well or not, writes over the document it began with.
LEMMA MergeWrites ==
  ASSUME ImportInv, mergeJob # Idle, mergeJob' = Idle, NEW e \in BOOLEAN,
         cfg' = Merged(mergeJob.copy, mergeJob.stamp, e),
         covered' \in Nat, covered' <= ended, faults' \in 0 .. MaxFaults, raced' \in BOOLEAN,
         ~raced' => ~raced /\ mergeJob.copy = cfg,
         e \/ covered' = mergeJob.ended,
         UNCHANGED <<clock, job, lapsed, request, imported, ended, requested, overdue>>
  PROVE  ImportInv'
<1> DEFINE c == mergeJob.copy
           d == Merged(c, mergeJob.stamp, e)
<1>1. /\ c \in Document /\ mergeJob.stamp \in Stamp /\ mergeJob.stamp \in Nat /\ mergeJob.stamp <= clock
      /\ clock \in Nat /\ ended \in Nat /\ Sound(c, imported, clock) /\ MergePending(c) /\ ~AnyActive(c)
      /\ \A k \in Kinds : c[k].id < mergeJob.stamp
  BY Holds DEF ImportInv, HoldersInv, DocumentsInv
<1>2. /\ d \in Document /\ \A j \in Kinds : d[j] = c[j]
      /\ d.need = c.need /\ d.merged = mergeJob.stamp /\ d.error = e
  BY <1>1, MergedIs
<1>3. cfg' = d
  OBVIOUS
<1> HIDE DEF d
<1>4. Sound(d, imported, clock)
  <2>1. d.need <= clock /\ d.merged <= clock
    BY <1>1, <1>2 DEF Sound
  <2> QED
    BY <1>1, <1>2, <2>1, SoundSame
<1>5. Types'
  BY <1>2, <1>3 DEF Types, ImportInv
<1>6. DocumentsInv'
  BY <1>3, <1>4 DEF DocumentsInv, ImportInv
<1>7. HoldersInv'
  BY DEF HoldersInv, ImportInv
<1>8. LeaseInv'
  <2> SUFFICES ASSUME Undisturbed'
               PROVE  LeaseInv'
    BY DEF LeaseInv
  <2>1. Undisturbed /\ c = cfg /\ ~AnyActive(cfg)
    BY <1>1 DEF Undisturbed
  <2>2. \A v \in Workers : job[v] = Idle
    BY <2>1, NobodyAtWork
  <2>3. ~(Active(d, "quick") /\ Active(d, "all"))
    BY <1>2, <2>1 DEF Active, AnyActive, Kinds
  <2>4. Blocked(d) \/ covered' = ended
    <3>1. CASE e
      BY <3>1, <1>1, <1>2 DEF Blocked, MergePending
    <3>2. CASE covered' = mergeJob.ended
      <4>1. ~ \E k \in Kinds : cfg[k].id > mergeJob.stamp
        BY <1>1, <2>1, DocumentHas
      <4>2. mergeJob.ended = ended
        BY <4>1, <2>1 DEF ImportInv, LeaseInv
      <4> QED
        BY <3>2, <4>2
    <3> QED
      BY <3>1, <3>2
  <2> QED
    BY <1>3, <2>2, <2>3, <2>4 DEF LeaseInv
<1> QED
  BY <1>5, <1>6, <1>7, <1>8 DEF ImportInv

LEMMA MergeEndStep ==
  ASSUME ImportInv, MergeEnd
  PROVE  ImportInv'
<1>1. /\ mergeJob # Idle /\ mergeJob' = Idle
      /\ cfg' = Merged(mergeJob.copy, mergeJob.stamp, FALSE)
      /\ covered' = mergeJob.ended
      /\ UNCHANGED <<clock, job, lapsed, request, imported, ended, requested, faults, overdue>>
  BY DEF MergeEnd, Merged
<1>2. raced' \in BOOLEAN /\ (~raced' => ~raced /\ mergeJob.copy = cfg)
  BY Zenon DEF MergeEnd
<1>3. covered' \in Nat /\ covered' <= ended /\ faults' \in 0 .. MaxFaults
  BY <1>1, Holds DEF ImportInv, HoldersInv, Types
<1>4. FALSE \in BOOLEAN
  OBVIOUS
<1> QED
  BY <1>1, <1>2, <1>3, <1>4, MergeWrites

LEMMA MergeFailStep ==
  ASSUME ImportInv, MergeFail
  PROVE  ImportInv'
<1>1. /\ mergeJob # Idle /\ mergeJob' = Idle
      /\ UNCHANGED <<clock, job, lapsed, request, imported, ended, covered, requested, overdue>>
  BY DEF MergeFail
<1>2. faults' \in 0 .. MaxFaults
  BY ImportBounds DEF MergeFail, Fault, ImportInv, Types
<1>3. CASE /\ cfg' = [mergeJob.copy EXCEPT !.merged = mergeJob.stamp, !.error = TRUE]
           /\ raced' = (raced \/ mergeJob.copy # cfg)
  <2>1. cfg' = Merged(mergeJob.copy, mergeJob.stamp, TRUE)
    BY <1>3 DEF Merged
  <2>2. raced' \in BOOLEAN /\ (~raced' => ~raced /\ mergeJob.copy = cfg)
    BY <1>3, Zenon
  <2>3. covered' \in Nat /\ covered' <= ended
    BY <1>1 DEF ImportInv, Types
  <2>4. TRUE \in BOOLEAN
    OBVIOUS
  <2> QED
    BY <1>1, <1>2, <2>1, <2>2, <2>3, <2>4, MergeWrites
<1>4. CASE UNCHANGED <<cfg, raced>>
  <2>1. Types'
    BY <1>1, <1>2, <1>4 DEF Types, ImportInv
  <2>2. DocumentsInv' /\ HoldersInv'
    BY <1>1, <1>4 DEF DocumentsInv, HoldersInv, ImportInv
  <2>3. LeaseInv'
    BY <1>1, <1>4 DEF LeaseInv, ImportInv, Undisturbed, AtWork
  <2> QED
    BY <2>1, <2>2, <2>3 DEF ImportInv
<1> QED
  BY <1>3, <1>4 DEF MergeFail

LEMMA ImportStutter ==
  ASSUME ImportInv, UNCHANGED importVars
  PROVE  ImportInv'
<1>1. Types' /\ DocumentsInv' /\ HoldersInv'
  BY DEF Types, DocumentsInv, HoldersInv, ImportInv, importVars
<1>2. LeaseInv'
  BY DEF LeaseInv, ImportInv, Undisturbed, AtWork, importVars
<1> QED
  BY <1>1, <1>2 DEF ImportInv

LEMMA ImportInvariance ==
  ImportSpec => []ImportInv
<1>1. ImportInv /\ [ImportNext]_importVars => ImportInv'
  BY ClaimStep, ProcessRunStep, FailRunStep, CrashStep, LapseStep, ReadDocumentStep, CommitStep,
     MergeStartStep, MergeEndStep, MergeFailStep, ImportStutter DEF ImportNext
<1> QED
  BY <1>1, ImportInit_ImportInv, PTL DEF ImportSpec

-----------------------------------------------------------------------------
(* What follows.                                                           *)

LEMMA InvTypes ==
  ImportInv => ImportTypeOK
  BY DEF ImportInv, Types, ImportTypeOK, DocumentsInv, Sound, RunSound

LEMMA InvWhole ==
  ImportInv => CompletedIsWhole
  BY DEF ImportInv, DocumentsInv, Sound, RunSound, CompletedIsWhole

LEMMA InvOneImporter ==
  ImportInv => OneImporter
  BY DEF ImportInv, LeaseInv, Undisturbed, OneImporter

LEMMA InvMerged ==
  ImportInv => MergedBeforePush
<1> SUFFICES ASSUME ImportInv, ~Blocked(cfg), ~raced, ~overdue
             PROVE  covered = ended /\ \A w \in Workers : job[w] = Idle
  BY DEF MergedBeforePush
<1>1. Undisturbed /\ ~AnyActive(cfg)
  BY DEF Undisturbed, Blocked
<1> QED
  BY <1>1, NobodyAtWork DEF ImportInv, LeaseInv

\* Type correctness, with the two facts about the database's document that every loop starts
\* from: a run's index is within its queue, and only a run in progress is leased.
THEOREM ImportTypeCorrect ==
  ImportSpec => []ImportTypeOK
  BY ImportInvariance, InvTypes, PTL

\* Whatever loops, requests and the merge job write over one another, a run the document calls
\* completed imported every provider of its queue; and as long as no stale document was
\* written and no lease outlived, one loop imports at a time and the outbox serves the user
\* only after a merge that began when all imports had ended.
THEOREM ImportsAreWhole ==
  ImportSpec => []RunsAreWhole
<1>1. ImportInv => RunsAreWhole
  BY InvWhole, InvOneImporter, InvMerged DEF RunsAreWhole
<1> QED
  BY <1>1, ImportInvariance, PTL

-----------------------------------------------------------------------------
(* HistoryImport: the inductive invariant.                                 *)

\* The key under which an import records a play, but for a play without a day.
Key(n) == EntryOf(n, plays[n].at).key

\* Plays that the properties make no promise about.
Excused == Echoed \cup cause["forgotten"] \cup cause["undated"]

\* What is known of a play that was made.
PlayInv(n) ==
    /\ n \notin Played => plays[n] = NoPlay
    /\ n \in Played =>
          /\ plays[n].changed <= day
          /\ plays[n].at = 0 => provider \in {"simkl", "publicmetadb"}

\* An item of the history was imported under the key of its play, unless it was pushed.
Recorded(w) ==
    LET n == items[w].origin
    IN  \/ n \in Excused \/ Key(n) \in events
        \/ n \in cause["pushed"] /\ provider \in {"publicmetadb", "stremio"} /\ items[w].day = plays[n].changed

ItemInv(w) ==
    items[w] # NoItem =>
        /\ items[w].origin \in Played /\ items[w].ext = items[w].origin
        /\ items[w].title = plays[items[w].origin].title
        /\ Recorded(w)

\* The entries that a run has fetched and not yet committed.
AtHand(s) == runs[s].left \cup runs[s].entries
EntryInv(s, e) ==
    /\ e.play \in Played /\ e.title = plays[e.play].title
    /\ \/ e.key = Key(e.play) /\ (provider = "simkl" => plays[e.play].at # 0)
       \/ e.play \in cause["undated"]
    /\ \A f \in AtHand(s) : f.play = e.play => f = e
    /\ (e \in runs[s].left /\ provider = "stremio") => plays[e.play].changed >= runs[s].now - Lookback

\* An entry that a run has checked: nobody has imported its play without its key, nor
\* cleared its title unnoticed.
CheckedInv(e) ==
    /\ \A w \in Local : items[w].origin = e.play => e.play \in Excused \/ e.key \in events
    /\ e.day <= cleared[e.title] => e.play \in cause["raced"] \/ provider = "anilist"

RunInv(s) ==
    /\ runs[s].entries # {} => runs[s].step = "write"
    /\ runs[s].left # {} => runs[s].step \in {"read", "write"}
    /\ runs[s].step = "finish" => runs[s].parts = {}
    /\ \A e \in AtHand(s) : EntryInv(s, e)
    /\ \A e \in runs[s].entries : CheckedInv(e)

DeletedInv(n) ==
    n \in deleted =>
        /\ n \in Played
        /\ n \in cause["pushed"] \cup cause["forgotten"] \cup cause["undated"] \/ Key(n) \in events

ClearedInv(t) == cleared[t] < day

\* A play that Simkl need not report again.
Reasons == Whys \cup {"undated", "backdated", "failed", "refused", "forgotten"}
Handled(n) ==
    \/ plays[n].at # 0 /\ Key(n) \in events
    \/ n \in UNION {cause[c] : c \in Reasons}

\* What had changed when a run of Simkl's asked, it passes over, will fetch or has at hand.
ToCome(s, n) ==
    \/ n \in runs[s].passed
    \/ PartOf(n) \in runs[s].parts /\ plays[n].changed >= runs[s].since
    \/ \E e \in AtHand(s) : e.play = n
AsOfInv(s) ==
    /\ runs[s].asOf <= day
    /\ \A c \in Category : runs[s].acts[c] <= runs[s].asOf
    /\ \A n \in There : plays[n].changed < runs[s].asOf => Handled(n) \/ ToCome(s, n)

CursorInv ==
    provider = "simkl" =>
        /\ cursor <= day /\ \A c \in Category : seen[c] <= day
        /\ \A n \in There : Reached(n) => Handled(n)
        /\ \A s \in Sessions : AsOfInv(s)

HistoryInv ==
    /\ \A n \in PlayId : PlayInv(n) /\ DeletedInv(n)
    /\ \A w \in WatchId : ItemInv(w)
    /\ \A s \in Sessions : RunInv(s)
    /\ \A t \in Titles : ClearedInv(t)
    /\ ClearIsKept /\ ImportedOnce
    /\ CursorInv

-----------------------------------------------------------------------------
(* Days and entries.                                                       *)

\* A set of days has a latest one.
LEMMA LatestExists ==
    ASSUME NEW m \in Nat, NEW T, T \subseteq 0 .. m, T # {}
    PROVE  \E x \in T : \A y \in T : y <= x
  <1> DEFINE R == StrictSubsetOrdering(0 .. m)
             later == {x .. m : x \in T}
  <1>1. IsWellFoundedOn(R, SUBSET (0 .. m))
    <2>1. IsFiniteSet(0 .. m)
      BY FS_Interval
    <2>2. FiniteSubsetsOf(0 .. m) = SUBSET (0 .. m)
      BY <2>1, FS_FiniteSubsetsOfFinite
    <2>3. IsWellFoundedOn(R, FiniteSubsetsOf(0 .. m))
      BY FS_StrictSubsetOrderingWellFounded
    <2> QED
      BY <2>2, <2>3
  <1>2. later \subseteq SUBSET (0 .. m) /\ later # {}
    <2>1. ASSUME NEW x \in T PROVE x .. m \in SUBSET (0 .. m)
      OBVIOUS
    <2>2. PICK x \in T : TRUE
      OBVIOUS
    <2>3. x .. m \in later
      OBVIOUS
    <2> QED
      BY <2>1, <2>3
  <1>3. PICK l \in later : \A k \in later : <<k, l>> \notin R
    BY <1>1, <1>2, WFMin
  <1>4. PICK x \in T : l = x .. m
    OBVIOUS
  <1>5. ASSUME NEW y \in T PROVE y <= x
    <2>1. <<y .. m, x .. m>> \notin R
      BY <1>3, <1>4
    <2>2. ~(y .. m \subseteq x .. m /\ y .. m # x .. m)
      BY <2>1, <1>2 DEF StrictSubsetOrdering
    <2>3. CASE y > x
      <3>1. x \in x .. m /\ x \notin y .. m
        BY <2>3
      <3> QED
        BY <2>2, <3>1, <2>3
    <2> QED
      BY <2>3
  <1> QED
    BY <1>5

\* A play is one that was made, or none.
PlayRecord == [title : Titles, at : Days, changed : Days, there : BOOLEAN]

LEMMA PlayType ==
    ASSUME HistoryTypeOK, NEW n \in PlayId
    PROVE  /\ plays[n] = NoPlay \/ plays[n] \in PlayRecord
           /\ plays[n].at \in Days /\ plays[n].changed \in Days
           /\ n \in There => plays[n] \in PlayRecord
  <1>1. plays[n] = NoPlay \/ plays[n] \in PlayRecord
    BY DEF HistoryTypeOK, PlayRecord
  <1>2. 0 \in Days
    BY ImportBoundAssumption DEF Days
  <1>3. CASE plays[n] = NoPlay
    <2>1. NoPlay.at = 0 /\ NoPlay.changed = 0 /\ NoPlay.there = FALSE
      BY DEF NoPlay
    <2>2. plays[n].at = 0 /\ plays[n].changed = 0 /\ plays[n].there = FALSE
      BY <1>3, <2>1
    <2> QED
      BY <2>2, <1>2, <1>3 DEF There
  <1>4. CASE plays[n] \in PlayRecord
    BY <1>4 DEF PlayRecord
  <1> QED
    BY <1>1, <1>3, <1>4

\* The latest change is of some play, and a day.
LEMMA LatestIs ==
    ASSUME HistoryTypeOK, NEW ns, ns \subseteq There
    PROVE  /\ LatestChange(ns) \in Days
           /\ ns = {} => LatestChange(ns) = 0
           /\ ns # {} => \E n \in ns : LatestChange(ns) = plays[n].changed
           /\ \A n \in ns : plays[n].changed <= LatestChange(ns)
  <1> DEFINE T == {plays[n].changed : n \in ns}
  <1>1. T \subseteq 0 .. MaxDay /\ MaxDay \in Nat
    <2>1. ASSUME NEW n \in ns PROVE plays[n].changed \in 0 .. MaxDay
      <3>1. n \in PlayId
        BY DEF There
      <3> QED
        BY <3>1, PlayType DEF Days
    <2> QED
      BY <2>1, ImportBoundAssumption
  <1>2. CASE ns = {}
    BY <1>2, <1>1 DEF LatestChange, Days
  <1>3. CASE ns # {}
    <2>1. T # {}
      BY <1>3
    <2>2. PICK c \in T : \A y \in T : y <= c
      BY <2>1, <1>1, LatestExists
    <2>3. \A n \in ns : plays[n].changed <= c
      BY <2>2
    <2>4. LatestChange(ns) \in T /\ \A n \in ns : plays[n].changed <= LatestChange(ns)
      BY <2>2, <2>3, <1>3 DEF LatestChange
    <2> QED
      BY <2>4, <1>1, <1>3 DEF Days
  <1> QED
    BY <1>2, <1>3

\* Of a category, too, and then no later than of all.
LEMMA ActivityIsDay ==
    ASSUME HistoryTypeOK
    PROVE  /\ Activity \in Days /\ Activities \in [Category -> Days]
           /\ There # {} => \E n \in There : Activity = plays[n].changed
           /\ There = {} => Activity = 0
           /\ \A c \in Category : Activities[c] <= Activity
  <1> DEFINE Of(c) == {n \in There : PartOf(n) = c}
  <1>1. \A c \in Category : Of(c) \subseteq There /\ Activities[c] = LatestChange(Of(c))
    BY DEF Activities
  <1>2. Activity \in Days /\ \A n \in There : plays[n].changed <= Activity
    BY LatestIs DEF Activity
  <1> HIDE DEF Of
  <1>3. ASSUME NEW c \in Category PROVE Activities[c] \in Days /\ Activities[c] <= Activity
    <2>1. CASE Of(c) = {}
      <3>1. Activities[c] = 0
        BY <1>1, <2>1, LatestIs
      <3> QED
        BY <1>2, <3>1, ImportBoundAssumption DEF Days
    <2>2. CASE Of(c) # {}
      <3>1. PICK n \in Of(c) : LatestChange(Of(c)) = plays[n].changed
        BY <1>1, <2>2, LatestIs
      <3>2. LatestChange(Of(c)) \in Days
        BY <1>1, LatestIs
      <3> QED
        BY <1>1, <1>2, <3>1, <3>2
    <2> QED
      BY <2>1, <2>2
  <1>4. Activities \in [Category -> Days]
    BY <1>3 DEF Activities
  <1> QED
    BY <1>2, <1>3, <1>4, LatestIs DEF Activity

\* A play at the provider is in a part.
LEMMA PartIs ==
    ASSUME HistoryTypeOK, NEW n \in There
    PROVE  PartOf(n) \in Category
  <1>1. plays[n].title \in Titles
    BY PlayType DEF There, PlayRecord
  <1> QED
    BY <1>1, CategoriesAssumption DEF PartOf, Category

\* What an importer makes of a play.
KeyAt(n, now) ==
    IF provider \in {"trakt", "letterboxd", "publicmetadb"} THEN <<"id", n>>
    ELSE IF provider = "anilist" THEN <<plays[n].title, 0>> ELSE <<plays[n].title, Dated(n, now)>>

LEMMA EntryIs ==
    ASSUME HistoryTypeOK, NEW n, NEW now
    PROVE  EntryOf(n, now) = [play |-> n, key |-> KeyAt(n, now), title |-> plays[n].title, day |-> Dated(n, now)]
  <1>1. provider \in {"trakt", "simkl", "letterboxd", "anilist", "publicmetadb", "stremio"}
    BY SourcesAssumption DEF HistoryTypeOK
  <1>2. CASE provider \in {"trakt", "letterboxd", "publicmetadb"}
    BY <1>2 DEF EntryOf, KeyAt, TraktEntry, LetterboxdEntry, PublicMetaDbEntry, ById
  <1>3. CASE provider = "anilist"
    BY <1>3 DEF EntryOf, KeyAt, AniListEntry, ById
  <1>4. CASE provider = "simkl"
    BY <1>4 DEF EntryOf, KeyAt, SimklEntry, ByDay, ById
  <1>5. CASE provider = "stremio"
    BY <1>5 DEF EntryOf, KeyAt, StremioEntry, ByDay, ById
  <1> QED
    BY <1>1, <1>2, <1>3, <1>4, <1>5

LEMMA KeyIs ==
    ASSUME HistoryTypeOK, NEW n
    PROVE  Key(n) = IF provider \in {"trakt", "letterboxd", "publicmetadb"} THEN <<"id", n>>
                    ELSE IF provider = "anilist" THEN <<plays[n].title, 0>> ELSE <<plays[n].title, plays[n].at>>
  <1>1. Key(n) = KeyAt(n, plays[n].at)
    BY EntryIs DEF Key
  <1>2. Dated(n, plays[n].at) = plays[n].at
    BY DEF Dated
  <1> QED
    BY <1>1, <1>2 DEF KeyAt


LEMMA FetchedThere ==
    ASSUME HistoryTypeOK, NEW r, NEW full
    PROVE  Wanted(r, full) \subseteq There /\ Fetched(r, full) \subseteq There
  <1>1. provider \in {"trakt", "simkl", "letterboxd", "anilist", "publicmetadb", "stremio"}
    BY SourcesAssumption DEF HistoryTypeOK
  <1>2. TraktPlays(r, full) \subseteq There /\ LetterboxdPlays(r, full) \subseteq There
    BY DEF TraktPlays, LetterboxdPlays
  <1>3. PublicMetaDbPlays(r, full) \subseteq There /\ AniListPlays(r, full) \subseteq There
    BY DEF PublicMetaDbPlays, AniListPlays
  <1>4. SimklPlays(r, full) \subseteq There /\ StremioPlays(r, full) \subseteq There
    BY DEF SimklPlays, StremioPlays
  <1>5. Wanted(r, full) \subseteq There
    BY <1>1, <1>2, <1>3, <1>4 DEF Wanted
  <1> QED
    BY <1>5 DEF Fetched

\* Entries are of the plays fetched, one of each.
LEMMA TakenIs ==
    ASSUME HistoryTypeOK, NEW r, NEW full, NEW e \in Taken(r, full)
    PROVE  /\ e.play \in Fetched(r, full)
           /\ e = [play |-> e.play, key |-> KeyAt(e.play, r.now), title |-> plays[e.play].title,
                   day |-> Dated(e.play, r.now)]
  <1>1. PICK n \in Fetched(r, full) : e = EntryOf(n, r.now)
    BY DEF Taken
  <1>2. e = [play |-> n, key |-> KeyAt(n, r.now), title |-> plays[n].title, day |-> Dated(n, r.now)]
    BY <1>1, EntryIs
  <1>3. e.play = n
    BY <1>2
  <1> QED
    BY <1>1, <1>2, <1>3

LEMMA TakenTyped ==
    ASSUME HistoryTypeOK, NEW r, r.now \in Days, NEW full
    PROVE  Taken(r, full) \subseteq PlayEntry
  <1> SUFFICES ASSUME NEW e \in Taken(r, full) PROVE e \in PlayEntry
    OBVIOUS
  <1> DEFINE n == e.play
  <1>1. n \in There /\ n \in PlayId
    BY TakenIs, FetchedThere DEF There
  <1>2. e = [play |-> n, key |-> KeyAt(n, r.now), title |-> plays[n].title, day |-> Dated(n, r.now)]
    BY TakenIs
  <1> HIDE DEF n
  <1>3. plays[n].title \in Titles /\ plays[n].at \in Days
    BY <1>1, PlayType DEF PlayRecord
  <1>4. Dated(n, r.now) \in Days
    BY <1>3 DEF Dated
  <1>5. 0 \in Days
    BY ImportBoundAssumption DEF Days
  <1>6. KeyAt(n, r.now) \in Titles \X Days \cup {<<"id", m>> : m \in PlayId}
    BY <1>1, <1>3, <1>4, <1>5 DEF KeyAt
  <1> QED
    BY <1>1, <1>2, <1>3, <1>4, <1>6 DEF PlayEntry

LEMMA SinceIsDay ==
    ASSUME HistoryTypeOK, NEW full, NEW act \in Days
    PROVE  Since(full, day, act) \in Days
  <1>1. cursor \in Days /\ day \in Days /\ 0 \in Days
    BY ImportBoundAssumption DEF HistoryTypeOK, Days
  <1>2. Positive(day - Lookback) \in Days
    BY <1>1, ImportBoundAssumption DEF Positive, Days
  <1>3. Least(act, Positive(day - Lookback)) \in Days
    BY <1>1, <1>2 DEF Least
  <1> QED
    BY <1>1, <1>2, <1>3 DEF Since

-----------------------------------------------------------------------------
(* HistoryImport: types.                                                   *)

ItemRecord == [title : Titles, day : Days, origin : PlayId, ext : PlayId]
RunRecord == [step : Steps, now : Days, since : Days, asOf : Days, acts : [Category -> Days],
              parts : SUBSET Category, passed : SUBSET PlayId, why : Whys,
              left : SUBSET PlayEntry, entries : SUBSET PlayEntry]
TotalRecord == [plays : 0 .. MaxPlays, items : 0 .. MaxWatches, mishaps : 0 .. MaxMishaps, acts : 0 .. MaxActs]

\* An action writes the record of one run.
LEMMA RunWritten ==
    ASSUME runs \in [Sessions -> RunRecord], NEW s \in Sessions, NEW r \in RunRecord,
           runs' = [runs EXCEPT ![s] = r]
    PROVE  runs' \in [Sessions -> RunRecord]
  OBVIOUS

\* A cause is explained by plays.
LEMMA Explained ==
    ASSUME HistoryTypeOK, NEW c \in Causes, NEW ns \in SUBSET PlayId
    PROVE  /\ Explain(c, ns) \in [Causes -> SUBSET PlayId]
           /\ \A d \in Causes : Explain(c, ns)[d] = IF d = c THEN cause[d] \cup ns ELSE cause[d]
  BY DEF Explain, HistoryTypeOK

LEMMA ExplainedGrows ==
    ASSUME HistoryTypeOK, NEW c \in Causes, NEW ns \in SUBSET PlayId
    PROVE  /\ \A d \in Causes : cause[d] \subseteq Explain(c, ns)[d]
           /\ ns \subseteq Explain(c, ns)[c]
  <1>1. \A d \in Causes : Explain(c, ns)[d] = IF d = c THEN cause[d] \cup ns ELSE cause[d]
    BY Explained
  <1>2. ASSUME NEW d \in Causes PROVE cause[d] \subseteq Explain(c, ns)[d]
    <2>1. CASE d = c
      BY <1>1, <2>1
    <2>2. CASE d # c
      BY <1>1, <2>2
    <2> QED
      BY <2>1, <2>2
  <1>3. Explain(c, ns)[c] = cause[c] \cup ns
    BY <1>1
  <1> QED
    BY <1>2, <1>3

LEMMA NoImportTyped ==
    /\ NoImport \in RunRecord
    /\ NoImport.step = "none" /\ NoImport.left = {} /\ NoImport.entries = {} /\ NoImport.parts = {}
    /\ NoImport.passed = {} /\ NoImport.asOf = 0 /\ NoImport.since = 0 /\ \A c \in Category : NoImport.acts[c] = 0
  <1>1. 0 \in Days /\ "none" \in Steps /\ "window" \in Whys
    BY ImportBoundAssumption DEF Days, Steps, Whys
  <1>2. [c \in Category |-> 0] \in [Category -> Days]
    BY <1>1
  <1> QED
    BY <1>1, <1>2 DEF NoImport, RunRecord

\* A record of a run is what its fields are.
LEMMA RunParts ==
    ASSUME NEW r \in RunRecord
    PROVE  /\ r.step \in Steps /\ r.now \in Days /\ r.since \in Days /\ r.asOf \in Days
           /\ r.acts \in [Category -> Days] /\ r.parts \subseteq Category /\ r.passed \subseteq PlayId
           /\ r.why \in Whys /\ r.left \subseteq PlayEntry /\ r.entries \subseteq PlayEntry
  BY DEF RunRecord

\* How a run goes on: the same run with other parts to fetch and other entries at hand.
Follows(q, r, ps, l, es) ==
    /\ q \in RunRecord
    /\ q.now = r.now /\ q.since = r.since /\ q.asOf = r.asOf /\ q.acts = r.acts
    /\ q.passed = r.passed /\ q.why = r.why
    /\ q.parts = ps /\ q.left = l /\ q.entries = es
    /\ q.step \in {"write", "read", "fetch", "finish"}
    /\ es # {} => q.step = "write"
    /\ l # {} => q.step \in {"read", "write"}
    /\ q.step = "finish" => ps = {}

LEMMA OnwardsFollows ==
    ASSUME NEW r \in RunRecord
    PROVE  Follows(Onwards(r), r, r.parts, r.left, r.entries)
  <1> DEFINE st == IF r.entries # {} THEN "write" ELSE IF r.left # {} THEN "read"
                   ELSE IF r.parts # {} THEN "fetch" ELSE "finish"
  <1>1. Onwards(r) = [r EXCEPT !.step = st]
    BY DEF Onwards
  <1>2. /\ st \in {"write", "read", "fetch", "finish"}
        /\ r.entries # {} => st = "write"
        /\ r.left # {} => st \in {"read", "write"}
        /\ st = "finish" => r.parts = {}
    OBVIOUS
  <1>3. st \in Steps
    BY <1>2 DEF Steps
  <1> HIDE DEF st
  <1>4. [r EXCEPT !.step = st] \in RunRecord
    BY <1>3 DEF RunRecord
  <1>5. /\ [r EXCEPT !.step = st].step = st
        /\ [r EXCEPT !.step = st].now = r.now /\ [r EXCEPT !.step = st].since = r.since
        /\ [r EXCEPT !.step = st].asOf = r.asOf /\ [r EXCEPT !.step = st].acts = r.acts
        /\ [r EXCEPT !.step = st].passed = r.passed /\ [r EXCEPT !.step = st].why = r.why
        /\ [r EXCEPT !.step = st].parts = r.parts /\ [r EXCEPT !.step = st].left = r.left
        /\ [r EXCEPT !.step = st].entries = r.entries
    BY DEF RunRecord
  <1> QED
    BY <1>1, <1>2, <1>4, <1>5 DEF Follows

\* The same for what Fetch, Read and Write make of a run.
LEMMA FetchedFollows ==
    ASSUME NEW r \in RunRecord, NEW ps \in SUBSET Category, NEW l \in SUBSET PlayEntry
    PROVE  Follows(Onwards([r EXCEPT !.left = l, !.parts = ps]), r, ps, l, r.entries)
  <1> DEFINE q == [r EXCEPT !.left = l, !.parts = ps]
  <1>1. /\ q \in RunRecord
        /\ q.now = r.now /\ q.since = r.since /\ q.asOf = r.asOf /\ q.acts = r.acts
        /\ q.passed = r.passed /\ q.why = r.why
        /\ q.parts = ps /\ q.left = l /\ q.entries = r.entries
    BY DEF RunRecord
  <1> HIDE DEF q
  <1>2. Follows(Onwards(q), q, q.parts, q.left, q.entries)
    BY <1>1, OnwardsFollows
  <1>3. Follows(Onwards(q), r, ps, l, r.entries)
    BY <1>1, <1>2 DEF Follows
  <1> QED
    BY <1>3 DEF q

LEMMA ReadFollows ==
    ASSUME NEW r \in RunRecord, NEW l \in SUBSET PlayEntry, NEW es \in SUBSET PlayEntry
    PROVE  Follows(Onwards([r EXCEPT !.left = l, !.entries = es]), r, r.parts, l, es)
  <1> DEFINE q == [r EXCEPT !.left = l, !.entries = es]
  <1>1. /\ q \in RunRecord
        /\ q.now = r.now /\ q.since = r.since /\ q.asOf = r.asOf /\ q.acts = r.acts
        /\ q.passed = r.passed /\ q.why = r.why
        /\ q.parts = r.parts /\ q.left = l /\ q.entries = es
    BY DEF RunRecord
  <1> HIDE DEF q
  <1>2. Follows(Onwards(q), q, q.parts, q.left, q.entries)
    BY <1>1, OnwardsFollows
  <1>3. Follows(Onwards(q), r, r.parts, l, es)
    BY <1>1, <1>2 DEF Follows
  <1> QED
    BY <1>3 DEF q

LEMMA WriteFollows ==
    ASSUME NEW r \in RunRecord, NEW es \in SUBSET PlayEntry
    PROVE  Follows(Onwards([r EXCEPT !.entries = es]), r, r.parts, r.left, es)
  <1> DEFINE q == [r EXCEPT !.entries = es]
  <1>1. /\ q \in RunRecord
        /\ q.now = r.now /\ q.since = r.since /\ q.asOf = r.asOf /\ q.acts = r.acts
        /\ q.passed = r.passed /\ q.why = r.why
        /\ q.parts = r.parts /\ q.left = r.left /\ q.entries = es
    BY DEF RunRecord
  <1> HIDE DEF q
  <1>2. Follows(Onwards(q), q, q.parts, q.left, q.entries)
    BY <1>1, OnwardsFollows
  <1>3. Follows(Onwards(q), r, r.parts, r.left, es)
    BY <1>1, <1>2 DEF Follows
  <1> QED
    BY <1>3 DEF q


LEMMA HistoryTypeInit ==
    HistoryInit => HistoryTypeOK
  <1> SUFFICES ASSUME HistoryInit PROVE HistoryTypeOK
    OBVIOUS
  <1>1. 0 \in Days /\ 1 \in 1 .. MaxDay
    BY ImportBoundAssumption DEF Days
  <1>2. runs \in [Sessions -> RunRecord]
    BY NoImportTyped DEF HistoryInit
  <1>3. total \in TotalRecord
    BY ImportBoundAssumption DEF HistoryInit, TotalRecord
  <1>4. plays \in [PlayId -> PlayRecord \cup {NoPlay}] /\ items \in [WatchId -> ItemRecord \cup {NoItem}]
    BY DEF HistoryInit
  <1>5. cause \in [Causes -> SUBSET PlayId] /\ deleted \subseteq PlayId
    BY DEF HistoryInit
  <1> QED
    BY <1>1, <1>2, <1>3, <1>4, <1>5 DEF HistoryInit, HistoryTypeOK, PlayRecord, ItemRecord, RunRecord, TotalRecord

\* The types, part by part.
LEMMA TypeParts ==
    HistoryTypeOK <=>
        /\ provider \in Sources /\ day \in 1 .. MaxDay
        /\ plays \in [PlayId -> PlayRecord \cup {NoPlay}] /\ items \in [WatchId -> ItemRecord \cup {NoItem}]
        /\ cleared \in [Titles -> Days] /\ black \subseteq Titles /\ cursor \in Days /\ seen \in [Category -> Days]
        /\ runs \in [Sessions -> RunRecord]
        /\ cause \in [Causes -> SUBSET PlayId] /\ deleted \subseteq PlayId
        /\ total \in TotalRecord
  BY DEF HistoryTypeOK, PlayRecord, ItemRecord, RunRecord, TotalRecord

\* The same after a step.
LEMMA TypePartsAfter ==
    ASSUME provider' \in Sources, day' \in 1 .. MaxDay,
           plays' \in [PlayId -> PlayRecord \cup {NoPlay}], items' \in [WatchId -> ItemRecord \cup {NoItem}],
           cleared' \in [Titles -> Days], black' \subseteq Titles, cursor' \in Days, seen' \in [Category -> Days],
           runs' \in [Sessions -> RunRecord],
           cause' \in [Causes -> SUBSET PlayId], deleted' \subseteq PlayId,
           total' \in TotalRecord
    PROVE  HistoryTypeOK'
  BY DEF HistoryTypeOK, PlayRecord, ItemRecord, RunRecord, TotalRecord

\* Actions that count.
LEMMA TotalTyped ==
    ASSUME NEW r \in TotalRecord, NEW n \in 0 .. MaxPlays, NEW w \in 0 .. MaxWatches,
           NEW m \in 0 .. MaxMishaps, NEW a \in 0 .. MaxActs
    PROVE  /\ [r EXCEPT !.items = w, !.mishaps = m] \in TotalRecord
           /\ [r EXCEPT !.plays = n, !.items = w] \in TotalRecord
           /\ [r EXCEPT !.plays = n] \in TotalRecord
           /\ [r EXCEPT !.mishaps = m] \in TotalRecord
           /\ [r EXCEPT !.acts = a] \in TotalRecord
  BY DEF TotalRecord

LEMMA TotalParts ==
    ASSUME total \in TotalRecord
    PROVE  /\ total.plays \in 0 .. MaxPlays /\ total.items \in 0 .. MaxWatches
           /\ total.mishaps \in 0 .. MaxMishaps /\ total.acts \in 0 .. MaxActs
           /\ MaxPlays \in Nat /\ MaxWatches \in Nat /\ MaxMishaps \in Nat /\ MaxActs \in Nat
  BY ImportBoundAssumption DEF TotalRecord

LEMMA ActsTyped ==
    ASSUME total \in TotalRecord, Acts
    PROVE  total' \in TotalRecord
  <1>1. total.acts + 1 \in 0 .. MaxActs
    BY TotalParts DEF Acts
  <1>2. total' = [total EXCEPT !.acts = total.acts + 1]
    BY DEF Acts
  <1> QED
    BY <1>1, <1>2, TotalTyped, TotalParts

LEMMA MishapCounted ==
    ASSUME total \in TotalRecord,
           \/ UNCHANGED total
           \/ Mishap /\ total' = [total EXCEPT !.mishaps = @ + 1]
    PROVE  total' \in TotalRecord /\ total'.plays = total.plays
  <1>1. CASE Mishap /\ total' = [total EXCEPT !.mishaps = @ + 1]
    <2>1. total.mishaps + 1 \in 0 .. MaxMishaps
      BY <1>1, TotalParts DEF Mishap
    <2>2. total' = [total EXCEPT !.mishaps = total.mishaps + 1]
      BY <1>1
    <2> QED
      BY <2>1, <2>2, TotalTyped, TotalParts DEF TotalRecord
  <1> QED
    BY <1>1

LEMMA BeginTyped ==
    ASSUME HistoryTypeOK, NEW s \in Sessions, BeginImport(s)
    PROVE  HistoryTypeOK'
  <1>1. day \in Days /\ "fetch" \in Steps /\ AllParts \subseteq Category
    BY ImportBoundAssumption, CategoriesAssumption DEF HistoryTypeOK, Days, Steps, AllParts, Category
  <1>2. [NoImport EXCEPT !.step = "fetch", !.now = day, !.parts = AllParts] \in RunRecord
    BY <1>1, NoImportTyped DEF RunRecord
  <1>3. runs' = [runs EXCEPT ![s] = [NoImport EXCEPT !.step = "fetch", !.now = day, !.parts = AllParts]]
    BY Zenon DEF BeginImport
  <1>4. runs' \in [Sessions -> RunRecord]
    BY <1>2, <1>3, RunWritten, TypeParts
  <1> QED
    BY <1>4, TypeParts, TypePartsAfter DEF BeginImport

\* What Simkl's run becomes, told of the activities or not.
Becomes(q, act, acts, full) ==
    /\ q \in RunRecord
    /\ q.parts = Selected(act, acts) /\ q.since = Since(full, day, act)
    /\ q.step = IF q.parts = {} THEN "finish" ELSE "fetch"
    /\ q.asOf = act /\ q.acts = acts /\ q.passed = PassedOver(act, q.parts, q.since)
    /\ q.left = {} /\ q.entries = {}

LEMMA AskedIs ==
    ASSUME HistoryTypeOK, NEW full, NEW act \in Days, NEW acts \in [Category -> Days]
    PROVE  Becomes(Asked(full, act, acts), act, acts, full)
  <1> DEFINE ps == Selected(act, acts)
             since == Since(full, day, act)
             st == IF ps = {} THEN "finish" ELSE "fetch"
             out == PassedOver(act, ps, since)
             q == [NoImport EXCEPT !.step = st, !.now = day, !.since = since, !.asOf = act, !.acts = acts,
                                   !.parts = ps, !.passed = out, !.why = Why]
  <1>1. Asked(full, act, acts) = q
    BY DEF Asked
  <1>2. ps \subseteq Category
    BY DEF Selected, Changed
  <1>3. since \in Days /\ day \in Days
    BY SinceIsDay, ImportBoundAssumption DEF HistoryTypeOK, Days
  <1>4. out \subseteq PlayId
    BY DEF PassedOver, There
  <1>5. Why \in Whys /\ st \in Steps
    BY DEF Why, Whys, Steps
  <1>6. ps = Selected(act, acts) /\ since = Since(full, day, act) /\ out = PassedOver(act, ps, since)
        /\ st = IF ps = {} THEN "finish" ELSE "fetch"
    OBVIOUS
  <1> HIDE DEF ps, since, st, out
  <1>7. q \in RunRecord
    BY <1>2, <1>3, <1>4, <1>5, NoImportTyped DEF RunRecord
  <1>8. /\ q.step = st /\ q.since = since /\ q.asOf = act /\ q.acts = acts /\ q.parts = ps
        /\ q.passed = out /\ q.left = {} /\ q.entries = {}
    BY DEF NoImport
  <1> QED
    BY <1>1, <1>6, <1>7, <1>8 DEF Becomes

LEMMA AskIs ==
    ASSUME HistoryTypeOK, NEW s \in Sessions, Ask(s) \/ AskInVain(s)
    PROVE  /\ runs[s].step = "none" /\ provider = "simkl"
           /\ \E act \in Days, acts \in [Category -> Days] :
                 /\ Becomes(runs'[s], act, acts, s \in Full)
                 /\ \/ act = Activity /\ acts = Activities
                    \/ act = 0 /\ acts = [c \in Category |-> 0]
           /\ runs' \in [Sessions -> RunRecord] /\ \A u \in Sessions \ {s} : runs'[u] = runs[u]
           /\ total' \in TotalRecord /\ total'.plays = total.plays
           /\ UNCHANGED <<provider, day, plays, items, events, cleared, black, cursor, seen, cause, deleted>>
  <1>1. runs \in [Sessions -> RunRecord] /\ total \in TotalRecord
    BY TypeParts
  <1>2. ASSUME NEW act \in Days, NEW acts \in [Category -> Days],
               runs' = [runs EXCEPT ![s] = Asked(s \in Full, act, acts)]
        PROVE  /\ Becomes(runs'[s], act, acts, s \in Full)
               /\ runs' \in [Sessions -> RunRecord] /\ \A u \in Sessions \ {s} : runs'[u] = runs[u]
    <2>1. Becomes(Asked(s \in Full, act, acts), act, acts, s \in Full)
      BY AskedIs
    <2>2. Asked(s \in Full, act, acts) \in RunRecord
      BY <2>1 DEF Becomes
    <2>3. runs'[s] = Asked(s \in Full, act, acts)
      BY <1>1, <1>2
    <2> QED
      BY <1>1, <1>2, <2>1, <2>2, <2>3, RunWritten
  <1>3. CASE Ask(s)
    <2>1. Activity \in Days /\ Activities \in [Category -> Days]
      BY ActivityIsDay
    <2>2. runs' = [runs EXCEPT ![s] = Asked(s \in Full, Activity, Activities)]
      BY <1>3 DEF Ask
    <2>3. /\ Becomes(runs'[s], Activity, Activities, s \in Full)
          /\ runs' \in [Sessions -> RunRecord] /\ \A u \in Sessions \ {s} : runs'[u] = runs[u]
      BY <1>2, <2>1, <2>2
    <2> QED
      BY <1>1, <1>3, <2>1, <2>3 DEF Ask
  <1>4. CASE AskInVain(s)
    <2> DEFINE none == [c \in Category |-> 0]
    <2>1. 0 \in Days /\ none \in [Category -> Days]
      BY ImportBoundAssumption DEF Days
    <2>2. runs' = [runs EXCEPT ![s] = Asked(s \in Full, 0, none)]
      BY <1>4 DEF AskInVain
    <2>3. none = [c \in Category |-> 0]
      OBVIOUS
    <2> HIDE DEF none
    <2>4. /\ Becomes(runs'[s], 0, none, s \in Full)
          /\ runs' \in [Sessions -> RunRecord] /\ \A u \in Sessions \ {s} : runs'[u] = runs[u]
      BY <1>2, <2>1, <2>2
    <2>5. total' \in TotalRecord /\ total'.plays = total.plays
      BY <1>1, <1>4, MishapCounted DEF AskInVain
    <2> QED
      BY <1>4, <2>1, <2>3, <2>4, <2>5 DEF AskInVain
  <1> QED
    BY <1>3, <1>4

LEMMA AskTyped ==
    ASSUME HistoryTypeOK, NEW s \in Sessions, Ask(s) \/ AskInVain(s)
    PROVE  HistoryTypeOK'
  BY AskIs, TypeParts, TypePartsAfter

\* What Fetch does.
LEMMA FetchIs ==
    ASSUME HistoryTypeOK, NEW s \in Sessions, Fetch(s)
    PROVE  /\ runs[s].step = "fetch"
           /\ \E got \in SUBSET Taken(runs[s], s \in Full) :
                 /\ provider = "simkl" => got = Taken(runs[s], s \in Full)
                 /\ Follows(runs'[s], runs[s], runs[s].parts \ {FirstPart(runs[s])}, got, runs[s].entries)
           /\ runs' \in [Sessions -> RunRecord] /\ \A u \in Sessions \ {s} : runs'[u] = runs[u]
           /\ total' \in TotalRecord /\ total'.plays = total.plays
           /\ UNCHANGED <<provider, day, plays, items, events, cleared, black, cursor, seen, deleted>>
  <1> DEFINE r == runs[s]
             ps == r.parts \ {FirstPart(r)}
  <1>1. runs \in [Sessions -> RunRecord] /\ r \in RunRecord /\ total \in TotalRecord
    BY TypeParts
  <1>2. r.now \in Days /\ ps \in SUBSET Category
    BY <1>1, RunParts
  <1>3. Taken(r, s \in Full) \subseteq PlayEntry
    BY <1>2, TakenTyped
  <1>4. PICK got \in SUBSET Taken(r, s \in Full) :
            /\ \/ got = Taken(r, s \in Full) /\ UNCHANGED total
               \/ /\ provider \in {"anilist", "stremio"} /\ Mishap
                  /\ total' = [total EXCEPT !.mishaps = @ + 1]
            /\ runs' = [runs EXCEPT ![s] = Onwards([r EXCEPT !.left = got, !.parts = @ \ {FirstPart(r)}])]
    BY Zenon DEF Fetch
  <1>5. got \in SUBSET PlayEntry
    BY <1>3
  <1>6. [r EXCEPT !.left = got, !.parts = @ \ {FirstPart(r)}] = [r EXCEPT !.left = got, !.parts = ps]
    BY <1>1 DEF RunRecord
  <1> HIDE DEF r, ps
  <1>7. Follows(Onwards([r EXCEPT !.left = got, !.parts = ps]), r, ps, got, r.entries)
    BY <1>1, <1>2, <1>5, FetchedFollows
  <1>8. runs'[s] = Onwards([r EXCEPT !.left = got, !.parts = ps]) /\ runs'[s] \in RunRecord
    BY <1>1, <1>4, <1>6, <1>7 DEF Follows
  <1>9. runs' \in [Sessions -> RunRecord] /\ \A u \in Sessions \ {s} : runs'[u] = runs[u]
    BY <1>1, <1>4, <1>6, <1>8, RunWritten
  <1>10. total' \in TotalRecord /\ total'.plays = total.plays
    BY <1>1, <1>4, MishapCounted
  <1>11. /\ provider = "simkl" => got = Taken(r, s \in Full)
         /\ Follows(runs'[s], r, ps, got, r.entries)
    BY <1>4, <1>7, <1>8
  <1> QED
    BY <1>9, <1>10, <1>11 DEF Fetch, r, ps

\* The causes that Fetch notes.
LEMMA FetchCauses ==
    ASSUME HistoryTypeOK, NEW s \in Sessions, Fetch(s)
    PROVE  /\ cause' \in [Causes -> SUBSET PlayId]
           /\ \A c \in Causes : cause[c] \subseteq cause'[c]
           /\ \A n \in Fetched(runs[s], s \in Full) : plays[n].at = 0 => n \in cause'["undated"]
           /\ \A n \in There : (/\ Dated(n, runs[s].now) < runs[s].since /\ plays[n].changed >= runs[s].since
                               /\ PartOf(n) = FirstPart(runs[s])) => n \in cause'["backdated"]
  <1> DEFINE un == {n \in Fetched(runs[s], s \in Full) : plays[n].at = 0}
             back == {n \in There : /\ Dated(n, runs[s].now) < runs[s].since /\ plays[n].changed >= runs[s].since
                                    /\ PartOf(n) = FirstPart(runs[s])}
  <1>1. un \subseteq PlayId /\ back \subseteq PlayId
    BY FetchedThere DEF There
  <1>2. cause \in [Causes -> SUBSET PlayId] /\ "undated" \in Causes /\ "backdated" \in Causes
    BY TypeParts DEF Causes
  <1>3. cause' = [cause EXCEPT !["backdated"] = @ \cup back, !["undated"] = @ \cup un]
    BY Zenon DEF Fetch
  <1>4. /\ \A n \in Fetched(runs[s], s \in Full) : plays[n].at = 0 => n \in un
        /\ \A n \in There : (/\ Dated(n, runs[s].now) < runs[s].since /\ plays[n].changed >= runs[s].since
                            /\ PartOf(n) = FirstPart(runs[s])) => n \in back
    OBVIOUS
  <1> HIDE DEF un, back
  <1>5. un \subseteq cause'["undated"] /\ back \subseteq cause'["backdated"]
    BY <1>2, <1>3
  <1>6. cause' \in [Causes -> SUBSET PlayId] /\ \A c \in Causes : cause[c] \subseteq cause'[c]
    BY <1>1, <1>2, <1>3
  <1> QED
    BY <1>4, <1>5, <1>6

LEMMA FetchTyped ==
    ASSUME HistoryTypeOK, NEW s \in Sessions, Fetch(s)
    PROVE  HistoryTypeOK'
  BY FetchIs, FetchCauses, TypeParts, TypePartsAfter

LEMMA ReadIs ==
    ASSUME HistoryTypeOK, NEW s \in Sessions, Read(s)
    PROVE  /\ runs[s].step = "read"
           /\ \E batch \in SUBSET runs[s].left :
                 /\ Follows(runs'[s], runs[s], runs[s].parts, runs[s].left \ batch, Candidates(runs[s], batch))
                 /\ cause' = IF provider # "simkl" THEN cause
                             ELSE Explain("refused", {e.play : e \in {x \in batch : ~Allowed(x)}})
           /\ runs' \in [Sessions -> RunRecord] /\ \A u \in Sessions \ {s} : runs'[u] = runs[u]
           /\ cause' \in [Causes -> SUBSET PlayId] /\ \A c \in Causes : cause[c] \subseteq cause'[c]
           /\ UNCHANGED <<provider, day, plays, items, events, cleared, black, cursor, seen, deleted, total>>
  <1> DEFINE r == runs[s]
  <1>1. runs \in [Sessions -> RunRecord] /\ r \in RunRecord /\ r.left \subseteq PlayEntry
    BY TypeParts, RunParts
  <1>2. PICK batch \in Batches(r.left) :
            /\ runs' = [runs EXCEPT ![s] = Onwards([r EXCEPT !.left = @ \ batch, !.entries = Candidates(r, batch)])]
            /\ cause' = IF provider # "simkl" THEN cause
                        ELSE Explain("refused", {e.play : e \in {x \in batch : ~Allowed(x)}})
    BY Zenon DEF Read
  <1>3. batch \subseteq r.left
    BY <1>2 DEF Batches
  <1> DEFINE l == r.left \ batch
             es == Candidates(r, batch)
             ns == {e.play : e \in {x \in batch : ~Allowed(x)}}
  <1>4. l \in SUBSET PlayEntry /\ es \in SUBSET PlayEntry
    BY <1>1, <1>3 DEF Candidates
  <1>5. ns \in SUBSET PlayId
    <2>1. ASSUME NEW e \in batch PROVE e.play \in PlayId
      BY <1>1, <1>3 DEF PlayEntry
    <2> QED
      BY <2>1
  <1>6. runs' = [runs EXCEPT ![s] = Onwards([r EXCEPT !.left = l, !.entries = es])]
    BY <1>1, <1>2 DEF RunRecord
  <1>7. cause' = IF provider # "simkl" THEN cause ELSE Explain("refused", ns)
    BY <1>2
  <1> HIDE DEF r, l, es, ns
  <1>8. Follows(Onwards([r EXCEPT !.left = l, !.entries = es]), r, r.parts, l, es)
    BY <1>1, <1>4, ReadFollows
  <1>9. runs'[s] = Onwards([r EXCEPT !.left = l, !.entries = es]) /\ runs'[s] \in RunRecord
    BY <1>1, <1>6, <1>8 DEF Follows
  <1>10. runs' \in [Sessions -> RunRecord] /\ \A u \in Sessions \ {s} : runs'[u] = runs[u]
    BY <1>1, <1>6, <1>9, RunWritten
  <1>11. cause' \in [Causes -> SUBSET PlayId] /\ \A c \in Causes : cause[c] \subseteq cause'[c]
    <2>1. "refused" \in Causes
      BY DEF Causes
    <2>2. /\ Explain("refused", ns) \in [Causes -> SUBSET PlayId]
          /\ \A c \in Causes : cause[c] \subseteq Explain("refused", ns)[c]
      BY <1>5, <2>1, Explained, ExplainedGrows
    <2>3. cause' = cause \/ cause' = Explain("refused", ns)
      BY <1>7
    <2> QED
      BY <2>2, <2>3, TypeParts
  <1>12. /\ Follows(runs'[s], r, r.parts, r.left \ batch, Candidates(r, batch))
         /\ batch \in SUBSET r.left
    BY <1>3, <1>8, <1>9 DEF l, es
  <1> QED
    BY <1>2, <1>10, <1>11, <1>12 DEF Read, r

LEMMA ReadTyped ==
    ASSUME HistoryTypeOK, NEW s \in Sessions, Read(s)
    PROVE  HistoryTypeOK'
  BY ReadIs, TypeParts, TypePartsAfter

\* What the commit makes of an entry.
ItemOf(e) == [title |-> e.title, day |-> e.day, origin |-> e.play, ext |-> e.play]

\* An item after a commit is as it was or stems from an entry.
LEMMA ImportedIs ==
    ASSUME NEW new, NEW w \in WatchId
    PROVE  \/ Imported(new)[w] = items[w]
           \/ \E e \in new : /\ w = total.items + Cardinality({f \in new : f.play <= e.play})
                             /\ Imported(new)[w] = ItemOf(e)
  <1> DEFINE At(e) == w = total.items + Cardinality({f \in new : f.play <= e.play})
             chosen == CHOOSE e \in new : At(e)
  <1>1. CASE \E e \in new : At(e)
    <2>1. chosen \in new /\ At(chosen)
      BY <1>1
    <2>2. Imported(new)[w] = ItemOf(chosen)
      BY <1>1 DEF Imported, ItemOf
    <2> QED
      BY <2>1, <2>2
  <1>2. CASE ~\E e \in new : At(e)
    BY <1>2 DEF Imported
  <1> QED
    BY <1>1, <1>2

LEMMA ImportedTyped ==
    ASSUME HistoryTypeOK, NEW new, new \subseteq PlayEntry
    PROVE  Imported(new) \in [WatchId -> ItemRecord \cup {NoItem}]
  <1>1. ASSUME NEW w \in WatchId PROVE Imported(new)[w] \in ItemRecord \cup {NoItem}
    <2>1. items[w] \in ItemRecord \cup {NoItem}
      BY TypeParts
    <2>2. ASSUME NEW e \in new
          PROVE  ItemOf(e) \in ItemRecord
      BY DEF ItemOf, ItemRecord, PlayEntry
    <2>3. CASE Imported(new)[w] = items[w]
      BY <2>1, <2>3
    <2>4. CASE \E e \in new : Imported(new)[w] = ItemOf(e)
      BY <2>2, <2>4
    <2>5. Imported(new)[w] = items[w] \/ \E e \in new : Imported(new)[w] = ItemOf(e)
      BY ImportedIs
    <2> QED
      BY <2>3, <2>4, <2>5
  <1>2. Imported(new) = [w \in WatchId |-> Imported(new)[w]]
    BY DEF Imported
  <1> QED
    BY <1>1, <1>2

\* A run has fetched finitely many entries.
FiniteEntries == \A s \in Sessions : IsFiniteSet(AtHand(s))

\* A commit of some of the entries that are still new.
Commits(some, new) ==
    /\ total.items + Cardinality(new) <= MaxWatches
    /\ items' = Imported(new)
    /\ events' = events \cup {e.key : e \in new}
    /\ cause' = Explain("failed", {e.play : e \in Fresh(some) \ new})
    /\ total' = [total EXCEPT !.items = total.items + Cardinality(new),
                              !.mishaps = IF new = Fresh(some) THEN total.mishaps ELSE total.mishaps + 1]
    /\ new # Fresh(some) => Mishap

LEMMA WriteIs ==
    ASSUME HistoryTypeOK, NEW s \in Sessions, Write(s)
    PROVE  /\ runs[s].step = "write"
           /\ \E some \in SUBSET runs[s].entries :
                 /\ provider = "simkl" => some = runs[s].entries
                 /\ Follows(runs'[s], runs[s], runs[s].parts, runs[s].left, runs[s].entries \ some)
                 /\ \E new \in SUBSET Fresh(some) : Commits(some, new)
           /\ runs' \in [Sessions -> RunRecord] /\ \A u \in Sessions \ {s} : runs'[u] = runs[u]
           /\ UNCHANGED <<provider, day, plays, cleared, black, cursor, seen, deleted>>
  <1> DEFINE r == runs[s]
  <1>1. runs \in [Sessions -> RunRecord] /\ r \in RunRecord /\ r.entries \subseteq PlayEntry
    BY TypeParts, RunParts
  <1> DEFINE Committed(some, bad) ==
            LET new == Fresh(some) \ bad
            IN  /\ bad = {} \/ Mishap
                /\ total.items + Cardinality(new) <= MaxWatches
                /\ items' = Imported(new)
                /\ events' = events \cup {e.key : e \in new}
                /\ cause' = Explain("failed", {e.play : e \in bad})
                /\ total' = [total EXCEPT !.items = @ + Cardinality(new),
                                          !.mishaps = IF bad = {} THEN @ ELSE @ + 1]
                /\ runs' = [runs EXCEPT ![s] = Onwards([r EXCEPT !.entries = @ \ some])]
  <1>0. \E some \in Together(r.entries) : \E bad \in SUBSET Fresh(some) : Committed(some, bad)
    BY Zenon DEF Write
  <1>20. PICK some \in Together(r.entries) : \E bad \in SUBSET Fresh(some) : Committed(some, bad)
    BY <1>0
  <1>2. PICK bad \in SUBSET Fresh(some) : Committed(some, bad)
    BY <1>20
  <1>3. some \subseteq r.entries /\ (provider = "simkl" => some = r.entries)
    BY <1>2 DEF Together
  <1> DEFINE new == Fresh(some) \ bad
             es == r.entries \ some
  <1>4. bad = Fresh(some) \ new /\ (bad = {} <=> new = Fresh(some)) /\ new \in SUBSET Fresh(some)
    BY <1>2
  <1>5. Commits(some, new)
    <2>1. total \in TotalRecord
      BY TypeParts
    <2> QED
      BY <1>2, <1>4, <2>1 DEF Commits, TotalRecord
  <1>6. es \in SUBSET PlayEntry
    BY <1>1
  <1>7. runs' = [runs EXCEPT ![s] = Onwards([r EXCEPT !.entries = es])]
    BY <1>1, <1>2 DEF RunRecord
  <1> HIDE DEF r, new, es
  <1>8. Follows(Onwards([r EXCEPT !.entries = es]), r, r.parts, r.left, es)
    BY <1>1, <1>6, WriteFollows
  <1>9. runs'[s] = Onwards([r EXCEPT !.entries = es]) /\ runs'[s] \in RunRecord
    BY <1>1, <1>7, <1>8 DEF Follows
  <1>10. runs' \in [Sessions -> RunRecord] /\ \A u \in Sessions \ {s} : runs'[u] = runs[u]
    BY <1>1, <1>7, <1>9, RunWritten
  <1>11. Follows(runs'[s], r, r.parts, r.left, r.entries \ some)
    BY <1>8, <1>9 DEF es
  <1> QED
    BY <1>3, <1>4, <1>5, <1>10, <1>11 DEF Write, r

LEMMA FreshTyped ==
    ASSUME HistoryTypeOK, NEW s \in Sessions, NEW some \in SUBSET runs[s].entries
    PROVE  Fresh(some) \subseteq some /\ some \subseteq PlayEntry /\ AtHand(s) \subseteq PlayEntry
  <1>1. runs[s].left \subseteq PlayEntry /\ runs[s].entries \subseteq PlayEntry
    BY TypeParts, RunParts
  <1> QED
    BY <1>1 DEF Fresh, AtHand

LEMMA WriteTyped ==
    ASSUME HistoryTypeOK, FiniteEntries, NEW s \in Sessions, Write(s)
    PROVE  HistoryTypeOK'
  <1>1. PICK some \in SUBSET runs[s].entries : \E new \in SUBSET Fresh(some) : Commits(some, new)
    BY WriteIs
  <1>2. PICK new \in SUBSET Fresh(some) : Commits(some, new)
    BY <1>1
  <1>3. new \subseteq PlayEntry /\ new \subseteq AtHand(s)
    BY FreshTyped DEF AtHand
  <1>4. IsFiniteSet(new)
    BY <1>3, FS_Subset DEF FiniteEntries
  <1>5. items' \in [WatchId -> ItemRecord \cup {NoItem}]
    BY <1>2, <1>3, ImportedTyped DEF Commits
  <1>6. cause' \in [Causes -> SUBSET PlayId]
    <2>1. {e.play : e \in Fresh(some) \ new} \in SUBSET PlayId
      BY FreshTyped DEF PlayEntry
    <2> QED
      BY <1>2, <2>1, Explained DEF Commits, Causes
  <1>7. total' \in TotalRecord
    <2>1. total.items + Cardinality(new) \in 0 .. MaxWatches
      BY <1>2, <1>4, FS_CardinalityType, TotalParts, TypeParts DEF Commits
    <2>2. (IF new = Fresh(some) THEN total.mishaps ELSE total.mishaps + 1) \in 0 .. MaxMishaps
      BY <1>2, TotalParts, TypeParts DEF Commits, Mishap
    <2>3. total \in TotalRecord
      BY TypeParts
    <2> QED
      BY <1>2, <2>1, <2>2, <2>3, TotalTyped, TotalParts DEF Commits
  <1> QED
    BY <1>5, <1>6, <1>7, WriteIs, TypeParts, TypePartsAfter

LEMMA FinishTyped ==
    ASSUME HistoryTypeOK, NEW s \in Sessions, FinishImport(s)
    PROVE  /\ HistoryTypeOK'
           /\ \A c \in Causes : cause[c] \subseteq cause'[c]
           /\ runs[s].passed \subseteq cause'[runs[s].why] /\ runs[s].why \in Whys
  <1>1. /\ runs[s].asOf \in Days /\ runs[s].acts \in [Category -> Days]
        /\ runs[s].why \in Whys /\ runs[s].passed \in SUBSET PlayId
    BY TypeParts, RunParts
  <1>2. cursor' \in Days /\ seen' \in [Category -> Days]
    <2>1. cursor \in Days /\ seen \in [Category -> Days]
      BY TypeParts
    <2>2. CursorAfter(runs[s]) \in Days
      BY <1>1, <2>1 DEF CursorAfter
    <2>3. SeenAfter(runs[s]) \in [Category -> Days]
      BY <1>1, <2>1 DEF SeenAfter
    <2> QED
      BY <2>2, <2>3 DEF FinishImport
  <1>3. runs' \in [Sessions -> RunRecord]
    BY TypeParts, RunWritten, NoImportTyped DEF FinishImport
  <1>4. runs[s].why \in Causes
    BY <1>1 DEF Causes
  <1> DEFINE why == runs[s].why
             ns == runs[s].passed
  <1>40. cause' = Explain(why, ns) /\ why \in Causes /\ ns \in SUBSET PlayId
    BY <1>1, <1>4 DEF FinishImport
  <1> HIDE DEF why, ns
  <1>41. /\ cause' \in [Causes -> SUBSET PlayId] /\ \A c \in Causes : cause[c] \subseteq cause'[c]
         /\ ns \subseteq cause'[why]
    BY <1>40, Explained, ExplainedGrows
  <1>5. /\ cause' \in [Causes -> SUBSET PlayId] /\ \A c \in Causes : cause[c] \subseteq cause'[c]
        /\ runs[s].passed \subseteq cause'[runs[s].why]
    BY <1>41 DEF why, ns
  <1> QED
    BY <1>1, <1>2, <1>3, <1>5, TypeParts, TypePartsAfter DEF FinishImport

LEMMA AbortTyped ==
    ASSUME HistoryTypeOK, NEW s \in Sessions, Abort(s)
    PROVE  HistoryTypeOK'
  <1>1. total \in TotalRecord
    BY TypeParts
  <1>2. total.mishaps + 1 \in 0 .. MaxMishaps
    BY <1>1, TotalParts DEF Abort, Mishap
  <1>3. total' = [total EXCEPT !.mishaps = total.mishaps + 1]
    BY DEF Abort
  <1>4. total' \in TotalRecord
    BY <1>1, <1>2, <1>3, TotalTyped, TotalParts
  <1>5. runs' \in [Sessions -> RunRecord]
    BY TypeParts, RunWritten, NoImportTyped DEF Abort
  <1> QED
    BY <1>4, <1>5, TypeParts, TypePartsAfter DEF Abort

LEMMA DayTyped ==
    ASSUME HistoryTypeOK, DayPasses
    PROVE  HistoryTypeOK'
  <1>1. day' \in 1 .. MaxDay
    BY ImportBoundAssumption, TypeParts DEF DayPasses
  <1> QED
    BY <1>1, TypeParts, TypePartsAfter DEF DayPasses

\* What becomes of a play when there is a new one.
LEMMA NewPlayIs ==
    ASSUME HistoryTypeOK, NEW t, NEW at, NewPlay(t, at), NEW n \in PlayId
    PROVE  /\ n = total.plays + 1 => plays'[n] = [title |-> t, at |-> at, changed |-> day, there |-> TRUE]
           /\ n # total.plays + 1 => \/ plays'[n] = plays[n]
                                     \/ n \in There /\ plays'[n] = [plays[n] EXCEPT !.there = FALSE]
  BY DEF NewPlay

LEMMA NewPlayTyped ==
    ASSUME HistoryTypeOK, NEW t \in Titles, NEW at \in Days, NewPlay(t, at)
    PROVE  plays' \in [PlayId -> PlayRecord \cup {NoPlay}]
  <1>1. ASSUME NEW n \in PlayId PROVE plays'[n] \in PlayRecord \cup {NoPlay}
    <2>1. plays[n] = NoPlay \/ plays[n] \in PlayRecord
      BY PlayType
    <2>3. ASSUME NEW p \in PlayRecord PROVE [p EXCEPT !.there = FALSE] \in PlayRecord
      BY DEF PlayRecord
    <2>4. n \in There => [plays[n] EXCEPT !.there = FALSE] \in PlayRecord
      BY <2>3, PlayType
    <2>5. day \in Days
      BY ImportBoundAssumption, TypeParts DEF Days
    <2>6. [title |-> t, at |-> at, changed |-> day, there |-> TRUE] \in PlayRecord
      BY <2>5 DEF PlayRecord
    <2> QED
      BY <2>1, <2>4, <2>6, NewPlayIs
  <1>2. plays' = [n \in PlayId |-> plays'[n]]
    BY DEF NewPlay
  <1> QED
    BY <1>1, <1>2

LEMMA PlayTyped ==
    ASSUME HistoryTypeOK, NEW t \in Titles, NEW at \in Days, Play(t, at)
    PROVE  HistoryTypeOK'
  <1>1. plays' \in [PlayId -> PlayRecord \cup {NoPlay}]
    BY NewPlayTyped DEF Play
  <1>2. total \in TotalRecord
    BY TypeParts
  <1>3. total.plays + 1 \in 0 .. MaxPlays
    BY <1>2, TotalParts DEF Play, NewPlay
  <1>4. total' = [total EXCEPT !.plays = total.plays + 1]
    BY DEF Play
  <1>5. total' \in TotalRecord
    BY <1>2, <1>3, <1>4, TotalTyped, TotalParts
  <1> QED
    BY <1>1, <1>5, TypeParts, TypePartsAfter DEF Play

LEMMA PushTyped ==
    ASSUME HistoryTypeOK, NEW t \in Titles, AddAndPush(t)
    PROVE  HistoryTypeOK'
  <1>1. day \in Days
    BY ImportBoundAssumption, TypeParts DEF Days
  <1>2. plays' \in [PlayId -> PlayRecord \cup {NoPlay}]
    BY <1>1, NewPlayTyped DEF AddAndPush
  <1>3. total \in TotalRecord
    BY TypeParts
  <1>4. total.plays + 1 \in 0 .. MaxPlays /\ total.items + 1 \in 0 .. MaxWatches
    BY <1>3, TotalParts DEF AddAndPush, NewPlay
  <1>5. total' = [total EXCEPT !.plays = total.plays + 1, !.items = total.items + 1]
    BY DEF AddAndPush
  <1>6. total' \in TotalRecord
    BY <1>3, <1>4, <1>5, TotalTyped, TotalParts
  <1>7. total.plays + 1 \in PlayId
    BY <1>3, <1>4, TotalParts DEF PlayId
  <1>8. items' \in [WatchId -> ItemRecord \cup {NoItem}]
    <2> DEFINE n == total.plays + 1
    <2>1. [title |-> t, day |-> day, origin |-> n, ext |-> n] \in ItemRecord
      BY <1>1, <1>7 DEF ItemRecord
    <2>2. items' = [items EXCEPT ![total.items + 1] = [title |-> t, day |-> day, origin |-> n, ext |-> n]]
      BY DEF AddAndPush
    <2> HIDE DEF n
    <2> QED
      BY <2>1, <2>2, TypeParts
  <1>9. cause' \in [Causes -> SUBSET PlayId]
    <2>1. cause' = Explain("pushed", {total.plays + 1})
      BY DEF AddAndPush
    <2> QED
      BY <2>1, <1>7, Explained DEF Causes
  <1> QED
    BY <1>2, <1>6, <1>8, <1>9, TypeParts, TypePartsAfter DEF AddAndPush

LEMMA WithoutTyped ==
    ASSUME HistoryTypeOK, NEW ws
    PROVE  /\ ItemsWithout(ws) \in [WatchId -> ItemRecord \cup {NoItem}]
           /\ ws \subseteq Local => Origins(ws) \subseteq PlayId
  <1>1. items \in [WatchId -> ItemRecord \cup {NoItem}]
    BY TypeParts
  <1>2. ItemsWithout(ws) \in [WatchId -> ItemRecord \cup {NoItem}]
    BY <1>1 DEF ItemsWithout
  <1>3. ASSUME NEW w \in Local PROVE items[w].origin \in PlayId
    BY <1>1 DEF Local, ItemRecord
  <1> QED
    BY <1>2, <1>3 DEF Origins

LEMMA DeleteTyped ==
    ASSUME HistoryTypeOK, NEW w \in WatchId, DeleteItem(w)
    PROVE  HistoryTypeOK'
  <1>1. deleted' \subseteq PlayId
    BY WithoutTyped, TypeParts DEF DeleteItem
  <1> QED
    BY <1>1, WithoutTyped, ActsTyped, TypeParts, TypePartsAfter DEF DeleteItem

LEMMA PlayedTyped ==
    ASSUME HistoryTypeOK
    PROVE  Played \subseteq PlayId
  BY TotalParts, TypeParts DEF Played, PlayId

LEMMA ForgottenTyped ==
    ASSUME HistoryTypeOK, cause' = Explain("forgotten", Played)
    PROVE  cause' \in [Causes -> SUBSET PlayId]
  BY PlayedTyped, Explained DEF Causes

LEMMA ClearAllTyped ==
    ASSUME HistoryTypeOK, ClearAll
    PROVE  HistoryTypeOK'
  <1>1. deleted' \subseteq PlayId
    BY WithoutTyped, TypeParts DEF ClearAll
  <1> QED
    BY <1>1, WithoutTyped, ActsTyped, ForgottenTyped, TypeParts, TypePartsAfter DEF ClearAll

LEMMA ForgetTyped ==
    ASSUME HistoryTypeOK, Forget
    PROVE  HistoryTypeOK'
  BY ActsTyped, ForgottenTyped, TypeParts, TypePartsAfter DEF Forget

LEMMA UnplayedTyped ==
    ASSUME HistoryTypeOK, NEW t \in Titles, Unplayed(t)
    PROVE  HistoryTypeOK'
  <1> DEFINE gone == {w \in Local : items[w].title = t /\ items[w].day <= day}
             ns == {e.play : e \in UNION {runs[s].entries : s \in Checked}}
  <1>1. day \in Days /\ day' \in 1 .. MaxDay
    BY ImportBoundAssumption, TypeParts DEF Days, Unplayed
  <1>2. items' = ItemsWithout(gone) /\ deleted' = deleted \cup Origins(gone)
    BY Zenon DEF Unplayed
  <1>3. ns \subseteq PlayId
    <2>1. ASSUME NEW s \in Checked PROVE runs[s].entries \subseteq PlayEntry
      BY TypeParts, RunParts DEF Checked
    <2> QED
      BY <2>1 DEF PlayEntry
  <1>4. cause' = Explain("raced", ns)
    BY Zenon DEF Unplayed
  <1> HIDE DEF ns
  <1>5. cause' \in [Causes -> SUBSET PlayId]
    BY <1>3, <1>4, Explained DEF Causes
  <1>6. cleared' \in [Titles -> Days]
    BY <1>1, TypeParts DEF Unplayed
  <1>7. deleted' \subseteq PlayId
    <2>1. gone \subseteq Local
      OBVIOUS
    <2> HIDE DEF gone
    <2> QED
      BY <1>2, <2>1, WithoutTyped, TypeParts
  <1>8. items' \in [WatchId -> ItemRecord \cup {NoItem}]
    BY <1>2, WithoutTyped
  <1>9. total' \in TotalRecord
    BY ActsTyped, TypeParts DEF Unplayed
  <1> QED
    BY <1>1, <1>5, <1>6, <1>7, <1>8, <1>9, TypeParts, TypePartsAfter DEF Unplayed

LEMMA BlacklistTyped ==
    ASSUME HistoryTypeOK, NEW t \in Titles, Blacklist(t)
    PROVE  HistoryTypeOK'
  BY ActsTyped, TypeParts, TypePartsAfter DEF Blacklist

\* What a step may be.
LEMMA HistorySteps ==
    ASSUME HistoryNext
    PROVE  \/ \E s \in Sessions : \/ BeginImport(s) \/ Ask(s) \/ AskInVain(s) \/ Fetch(s) \/ Read(s) \/ Write(s)
                                  \/ FinishImport(s) \/ Abort(s)
           \/ \E t \in Titles : (\E at \in Days : Play(t, at)) \/ AddAndPush(t) \/ Unplayed(t) \/ Blacklist(t)
           \/ \E w \in WatchId : DeleteItem(w)
           \/ DayPasses \/ ClearAll \/ Forget
  BY Zenon DEF HistoryNext

LEMMA FiniteTaken ==
    ASSUME HistoryTypeOK, NEW r, NEW full
    PROVE  IsFiniteSet(Taken(r, full))
  <1> DEFINE f == [n \in Fetched(r, full) |-> EntryOf(n, r.now)]
  <1>1. Fetched(r, full) \subseteq 1 .. MaxPlays
    BY FetchedThere DEF There, PlayId
  <1>2. IsFiniteSet(1 .. MaxPlays)
    BY FS_Interval, ImportBoundAssumption
  <1>3. IsFiniteSet(Fetched(r, full))
    BY <1>1, <1>2, FS_Subset
  <1>4. f \in Surjection(Fetched(r, full), Taken(r, full))
    BY DEF Taken, Surjection
  <1> HIDE DEF f
  <1> QED
    BY <1>3, <1>4, FS_Surjection

LEMMA FiniteKept ==
    ASSUME HistoryTypeOK, FiniteEntries, HistoryNext
    PROVE  FiniteEntries'
  <1> USE DEF FiniteEntries, AtHand
  <1>1. ASSUME NEW s \in Sessions, \A u \in Sessions \ {s} : runs'[u] = runs[u],
               IsFiniteSet(runs'[s].left \cup runs'[s].entries)
        PROVE  FiniteEntries'
    BY <1>1
  <1>2. ASSUME NEW s \in Sessions, NEW r, runs' = [runs EXCEPT ![s] = r], r.left = {}, r.entries = {}
        PROVE  FiniteEntries'
    <2>1. runs'[s] = r /\ \A u \in Sessions \ {s} : runs'[u] = runs[u]
      BY <1>2, TypeParts
    <2>2. runs'[s].left \cup runs'[s].entries = {}
      BY <1>2, <2>1
    <2> QED
      BY <1>1, <2>1, <2>2, FS_EmptySet
  <1>3. ASSUME NEW s \in Sessions, BeginImport(s) PROVE FiniteEntries'
    <2> DEFINE r == [NoImport EXCEPT !.step = "fetch", !.now = day, !.parts = AllParts]
    <2>1. r.left = {} /\ r.entries = {}
      BY DEF NoImport
    <2>2. runs' = [runs EXCEPT ![s] = r]
      BY <1>3, Zenon DEF BeginImport
    <2> HIDE DEF r
    <2> QED
      BY <1>2, <2>1, <2>2
  <1>4. ASSUME NEW s \in Sessions, Ask(s) \/ AskInVain(s) PROVE FiniteEntries'
    <2>1. runs'[s].left = {} /\ runs'[s].entries = {} /\ \A u \in Sessions \ {s} : runs'[u] = runs[u]
      BY <1>4, AskIs DEF Becomes
    <2>2. runs'[s].left \cup runs'[s].entries = {}
      BY <2>1
    <2> QED
      BY <1>1, <2>1, <2>2, FS_EmptySet
  <1>5. ASSUME NEW s \in Sessions, Fetch(s) PROVE FiniteEntries'
    <2>1. PICK got \in SUBSET Taken(runs[s], s \in Full) :
              Follows(runs'[s], runs[s], runs[s].parts \ {FirstPart(runs[s])}, got, runs[s].entries)
      BY <1>5, FetchIs
    <2>2. IsFiniteSet(got) /\ IsFiniteSet(runs[s].entries)
      <3>1. IsFiniteSet(runs[s].left \cup runs[s].entries) /\ runs[s].entries \subseteq runs[s].left \cup runs[s].entries
        OBVIOUS
      <3>2. IsFiniteSet(Taken(runs[s], s \in Full)) /\ got \subseteq Taken(runs[s], s \in Full)
        BY FiniteTaken
      <3> QED
        BY <3>1, <3>2, FS_Subset
    <2>3. runs'[s].left = got /\ runs'[s].entries = runs[s].entries
      BY <2>1 DEF Follows
    <2> QED
      BY <1>1, <1>5, <2>2, <2>3, FetchIs, FS_Union
  <1>6. ASSUME NEW s \in Sessions, Read(s) PROVE FiniteEntries'
    <2>1. PICK batch \in SUBSET runs[s].left :
              Follows(runs'[s], runs[s], runs[s].parts, runs[s].left \ batch, Candidates(runs[s], batch))
      BY <1>6, ReadIs
    <2>2. runs'[s].left \cup runs'[s].entries \subseteq runs[s].left \cup runs[s].entries
      BY <2>1 DEF Follows, Candidates
    <2> QED
      BY <1>1, <1>6, <2>2, ReadIs, FS_Subset
  <1>7. ASSUME NEW s \in Sessions, Write(s) PROVE FiniteEntries'
    <2>1. PICK some \in SUBSET runs[s].entries :
              Follows(runs'[s], runs[s], runs[s].parts, runs[s].left, runs[s].entries \ some)
      BY <1>7, WriteIs
    <2>2. runs'[s].left \cup runs'[s].entries \subseteq runs[s].left \cup runs[s].entries
      BY <2>1 DEF Follows
    <2> QED
      BY <1>1, <1>7, <2>2, WriteIs, FS_Subset
  <1>8. ASSUME NEW s \in Sessions, FinishImport(s) \/ Abort(s) PROVE FiniteEntries'
    BY <1>2, <1>8, NoImportTyped DEF FinishImport, Abort
  <1>9. ASSUME NEW t \in Titles, (\E at \in Days : Play(t, at)) \/ AddAndPush(t) \/ Unplayed(t) \/ Blacklist(t)
        PROVE  FiniteEntries'
    BY <1>9 DEF Play, AddAndPush, Unplayed, Blacklist
  <1>10. ASSUME NEW w \in WatchId, DeleteItem(w) PROVE FiniteEntries'
    BY <1>10 DEF DeleteItem
  <1>11. ASSUME DayPasses \/ ClearAll \/ Forget PROVE FiniteEntries'
    BY <1>11 DEF DayPasses, ClearAll, Forget
  <1> HIDE DEF FiniteEntries, AtHand
  <1> QED
    BY HistorySteps, <1>3, <1>4, <1>5, <1>6, <1>7, <1>8, <1>9, <1>10, <1>11

\* The types and the finiteness of what a run has fetched hold in every behaviour.
HistoryTypes == HistoryTypeOK /\ FiniteEntries

LEMMA HistoryTypesNext ==
    HistoryTypes /\ [HistoryNext]_historyVars => HistoryTypes'
  <1>1. ASSUME HistoryTypes, HistoryNext PROVE HistoryTypes'
    <2> USE <1>1 DEF HistoryTypes
    <2>1. HistoryTypeOK'
      BY HistorySteps, BeginTyped, AskTyped, FetchTyped, ReadTyped, WriteTyped, FinishTyped, AbortTyped,
         PlayTyped, PushTyped, UnplayedTyped, BlacklistTyped, DeleteTyped, DayTyped, ClearAllTyped, ForgetTyped
    <2> QED
      BY <2>1, FiniteKept
  <1>2. ASSUME HistoryTypes, UNCHANGED historyVars PROVE HistoryTypes'
    BY <1>2 DEF HistoryTypes, FiniteEntries, AtHand, HistoryTypeOK, historyVars
  <1> QED
    BY <1>1, <1>2

-----------------------------------------------------------------------------
(* HistoryImport: what only grows.                                         *)

\* Plays stay what they are, causes stay, and events go only when that is noted.
Grows ==
    /\ provider' = provider /\ day <= day'
    /\ Played \subseteq Played'
    /\ \A n \in Played : /\ plays'[n].title = plays[n].title /\ plays'[n].at = plays[n].at
                         /\ plays'[n].changed = plays[n].changed /\ (plays'[n].there => plays[n].there)
    /\ \A n \in PlayId \ Played :
          IF n \in Played' THEN plays'[n].changed = day /\ (plays'[n].at = 0 => provider \in {"simkl", "publicmetadb"})
          ELSE plays'[n] = plays[n]
    /\ \A c \in Causes : cause[c] \subseteq cause'[c]
    /\ events \subseteq events' \/ Played \subseteq cause'["forgotten"]

KeysAreKnown ==
    \A n \in PlayId :
        Key(n) = IF provider \in {"trakt", "letterboxd", "publicmetadb"} THEN <<"id", n>>
                 ELSE IF provider = "anilist" THEN <<plays[n].title, 0>> ELSE <<plays[n].title, plays[n].at>>

LEMMA KeysKnown == HistoryTypeOK => KeysAreKnown
  BY KeyIs DEF KeysAreKnown

LEMMA KeysKnownAfter == HistoryTypeOK' => KeysAreKnown'
  BY KeysKnown, PTL

LEMMA KeyKept ==
    ASSUME HistoryTypeOK, HistoryTypeOK', Grows, NEW n \in Played
    PROVE  Key(n)' = Key(n)
  <1>1. n \in PlayId
    BY PlayedTyped
  <1> QED
    BY <1>1, KeysKnown, KeysKnownAfter DEF KeysAreKnown, Grows

\* A new item is of a new play, or its play is known to have been imported.
NewItems ==
    \A w \in WatchId :
        \/ items'[w] = items[w] \/ items'[w] = NoItem
        \/ items'[w].origin \notin Played
        \/ Key(items'[w].origin) \in events' \/ items'[w].origin \in cause'["undated"]

\* A clear notes the entries that were checked before it.
NotedClears ==
    cleared' = cleared \/ \A s \in Checked : \A e \in runs[s].entries : e.play \in cause'["raced"]

LEMMA ThereIsPlayed ==
    ASSUME HistoryTypeOK, \A n \in PlayId : PlayInv(n)
    PROVE  There \subseteq Played
  <1>1. NoPlay.there = FALSE
    BY DEF NoPlay
  <1> QED
    BY <1>1 DEF There, PlayInv

LEMMA GrowsSame ==
    ASSUME HistoryTypeOK, \A n \in PlayId : PlayInv(n),
           provider' = provider, day <= day', plays' = plays, total'.plays = total.plays,
           \A c \in Causes : cause[c] \subseteq cause'[c],
           events \subseteq events' \/ Played \subseteq cause'["forgotten"]
    PROVE  Grows
  <1>1. Played' = Played /\ There' = There
    BY DEF Played, There
  <1> QED
    BY <1>1, ThereIsPlayed DEF Grows

\* Actions of a run.
LEMMA RunStepGrows ==
    ASSUME HistoryTypeOK, \A n \in PlayId : PlayInv(n), NEW s \in Sessions,
           \/ BeginImport(s) \/ Ask(s) \/ AskInVain(s) \/ Fetch(s) \/ Read(s) \/ FinishImport(s) \/ Abort(s)
    PROVE  Grows /\ NewItems /\ NotedClears
  <1>1. day <= day
    BY TypeParts
  <1>2. \A c \in Causes : cause[c] \subseteq cause'[c]
    <2>1. CASE BeginImport(s) \/ Ask(s) \/ AskInVain(s) \/ Abort(s)
      BY <2>1 DEF BeginImport, Ask, AskInVain, Abort
    <2> QED
      BY <2>1, FetchCauses, ReadIs, FinishTyped
  <1>3. total'.plays = total.plays
    <2>1. CASE Abort(s)
      BY <2>1, TypeParts DEF Abort, TotalRecord
    <2>2. CASE BeginImport(s) \/ Read(s) \/ FinishImport(s)
      BY <2>2 DEF BeginImport, Read, FinishImport
    <2> QED
      BY <2>1, <2>2, AskIs, FetchIs
  <1>4. UNCHANGED <<provider, day, plays, items, events, cleared>>
    BY DEF BeginImport, Ask, AskInVain, Fetch, Read, FinishImport, Abort
  <1>5. Grows
    BY <1>1, <1>2, <1>3, <1>4, GrowsSame
  <1> QED
    BY <1>4, <1>5 DEF NewItems, NotedClears

\* What the user does, and a day.
LEMMA UserGrows ==
    ASSUME HistoryTypeOK, \A n \in PlayId : PlayInv(n),
           \/ \E t \in Titles : Unplayed(t) \/ Blacklist(t)
           \/ \E w \in WatchId : DeleteItem(w)
           \/ DayPasses \/ ClearAll \/ Forget
    PROVE  Grows /\ NewItems /\ NotedClears
  <1>1. day <= day' /\ provider' = provider /\ plays' = plays
    <2>1. provider' = provider /\ plays' = plays /\ (day' = day \/ day' = day + 1)
      BY DEF Unplayed, Blacklist, DeleteItem, DayPasses, ClearAll, Forget
    <2>2. day \in Nat
      BY TypeParts
    <2> QED
      BY <2>1, <2>2
  <1>2. total'.plays = total.plays
    BY TypeParts DEF Unplayed, Blacklist, DeleteItem, DayPasses, ClearAll, Forget, Acts, TotalRecord
  <1>3. ASSUME NEW t \in Titles, Unplayed(t)
        PROVE  /\ \A c \in Causes : cause[c] \subseteq cause'[c]
               /\ events' = events /\ NotedClears
    <2> DEFINE ns == {e.play : e \in UNION {runs[s].entries : s \in Checked}}
    <2>1. cause' = Explain("raced", ns) /\ events' = events
      BY <1>3, Zenon DEF Unplayed
    <2>2. \A s \in Checked : \A e \in runs[s].entries : e.play \in ns
      OBVIOUS
    <2> HIDE DEF ns
    <2> QED
      BY <2>1, <2>2, TypeParts DEF Explain, NotedClears, Causes
  <1>4. ASSUME ClearAll \/ Forget
        PROVE  /\ \A c \in Causes : cause[c] \subseteq cause'[c]
               /\ Played \subseteq cause'["forgotten"] /\ NotedClears
    BY <1>4, TypeParts DEF ClearAll, Forget, Explain, NotedClears, Causes
  <1>5. ASSUME DayPasses \/ (\E t \in Titles : Blacklist(t)) \/ (\E w \in WatchId : DeleteItem(w))
        PROVE  cause' = cause /\ events' = events /\ NotedClears
    BY <1>5 DEF DayPasses, Blacklist, DeleteItem, EventsAfterDelete, NotedClears
  <1>6. Grows /\ NotedClears
    BY <1>1, <1>2, <1>3, <1>4, <1>5, GrowsSame
  <1>7. ASSUME NEW w \in WatchId PROVE items'[w] = items[w] \/ items'[w] = NoItem
    BY DEF Unplayed, Blacklist, DeleteItem, DayPasses, ClearAll, Forget, ItemsWithout
  <1> QED
    BY <1>6, <1>7 DEF NewItems

\* A new play.
LEMMA PlayGrows ==
    ASSUME HistoryTypeOK, \A n \in PlayId : PlayInv(n), NEW t, NEW at, NewPlay(t, at),
           at = 0 => provider \in {"simkl", "publicmetadb"},
           total'.plays = total.plays + 1, UNCHANGED <<provider, day, events>>,
           \A c \in Causes : cause[c] \subseteq cause'[c]
    PROVE  Grows
  <1>1. total.plays \in Nat /\ day \in Nat
    BY TotalParts, TypeParts
  <1>2. Played \subseteq Played' /\ Played \subseteq PlayId
    BY <1>1, PlayedTyped DEF Played
  <1>3. ASSUME NEW n \in Played
        PROVE  /\ plays'[n].title = plays[n].title /\ plays'[n].at = plays[n].at
               /\ plays'[n].changed = plays[n].changed /\ (plays'[n].there => plays[n].there)
    <2>1. n # total.plays + 1 /\ n \in PlayId
      BY <1>1, <1>2 DEF Played
    <2>2. CASE plays'[n] = plays[n]
      BY <2>2
    <2>3. CASE n \in There /\ plays'[n] = [plays[n] EXCEPT !.there = FALSE]
      BY <2>1, <2>3, PlayType DEF PlayRecord
    <2> QED
      BY <2>1, <2>2, <2>3, NewPlayIs
  <1>4. ASSUME NEW n \in PlayId \ Played
        PROVE  IF n \in Played'
               THEN plays'[n].changed = day /\ (plays'[n].at = 0 => provider \in {"simkl", "publicmetadb"})
               ELSE plays'[n] = plays[n]
    <2>1. CASE n = total.plays + 1
      <3>1. plays'[n] = [title |-> t, at |-> at, changed |-> day, there |-> TRUE]
        BY <2>1, NewPlayIs
      <3>2. [title |-> t, at |-> at, changed |-> day, there |-> TRUE].changed = day
        OBVIOUS
      <3>3. [title |-> t, at |-> at, changed |-> day, there |-> TRUE].at = at
        OBVIOUS
      <3>4. plays'[n].changed = day /\ plays'[n].at = at
        BY <3>1, <3>2, <3>3
      <3>5. n \in Played'
        BY <1>1, <2>1 DEF Played
      <3> QED
        BY <3>4, <3>5
    <2>2. CASE n # total.plays + 1
      <3>1. n \notin There
        BY ThereIsPlayed
      <3>2. plays'[n] = plays[n]
        BY <2>2, <3>1, NewPlayIs
      <3>3. n \notin Played'
        BY <1>1, <2>2 DEF Played, PlayId
      <3> QED
        BY <3>2, <3>3
    <2> QED
      BY <2>1, <2>2
  <1> QED
    BY <1>1, <1>2, <1>3, <1>4 DEF Grows

LEMMA PlaysGrow ==
    ASSUME HistoryTypeOK, \A n \in PlayId : PlayInv(n), NEW t \in Titles,
           (\E at \in Days : Play(t, at)) \/ AddAndPush(t)
    PROVE  Grows /\ NewItems /\ NotedClears
  <1>1. total \in TotalRecord /\ total.plays \in Nat
    BY TotalParts, TypeParts
  <1>2. CASE \E at \in Days : Play(t, at)
    <2>1. PICK at \in Days : Play(t, at)
      BY <1>2
    <2>2. total'.plays = total.plays + 1
      BY <1>1, <2>1 DEF Play, TotalRecord
    <2>3. at = 0 => provider \in {"simkl", "publicmetadb"}
      BY <1>1, <2>1, TypeParts DEF Play
    <2>4. Grows
      BY <2>1, <2>2, <2>3, PlayGrows DEF Play
    <2> QED
      BY <2>1, <2>4 DEF Play, NewItems, NotedClears
  <1>3. CASE AddAndPush(t)
    <2>1. total'.plays = total.plays + 1
      BY <1>1, <1>3 DEF AddAndPush, TotalRecord
    <2>2. \A c \in Causes : cause[c] \subseteq cause'[c]
      BY <1>3, TypeParts DEF AddAndPush, Explain
    <2>3. Grows
      <3>1. day # 0
        BY TypeParts
      <3> QED
        BY <1>3, <2>1, <2>2, <3>1, PlayGrows DEF AddAndPush
    <2>4. ASSUME NEW w \in WatchId PROVE items'[w] = items[w] \/ items'[w].origin = total.plays + 1
      BY <1>3, TypeParts DEF AddAndPush
    <2>5. total.plays + 1 \notin Played
      BY <1>1 DEF Played
    <2> QED
      BY <1>3, <2>3, <2>4, <2>5 DEF NewItems, NotedClears, AddAndPush
  <1> QED
    BY <1>2, <1>3

\* A commit.
LEMMA WriteGrows ==
    ASSUME HistoryTypes, HistoryTypeOK', \A n \in PlayId : PlayInv(n), NEW s \in Sessions, RunInv(s), Write(s)
    PROVE  Grows /\ NewItems /\ NotedClears
  <1> USE DEF HistoryTypes
  <1>0. PICK some \in SUBSET runs[s].entries : \E new \in SUBSET Fresh(some) : Commits(some, new)
    BY WriteIs
  <1>1. PICK new \in SUBSET Fresh(some) : Commits(some, new)
    BY <1>0
  <1>2. UNCHANGED <<provider, day, plays, cleared>>
    BY WriteIs
  <1>3. events \subseteq events'
    BY <1>1 DEF Commits
  <1>4. \A c \in Causes : cause[c] \subseteq cause'[c]
    <2> DEFINE ns == {e.play : e \in Fresh(some) \ new}
    <2>1. cause' = Explain("failed", ns)
      BY <1>1, Zenon DEF Commits
    <2> HIDE DEF ns
    <2> QED
      BY <2>1, TypeParts DEF Explain
  <1>5. total'.plays = total.plays
    BY <1>1, TypeParts DEF Commits, TotalRecord
  <1>6. day <= day
    BY TypeParts
  <1>7. Grows
    BY <1>2, <1>3, <1>4, <1>5, <1>6, GrowsSame
  <1>8. NewItems
    <2> SUFFICES ASSUME NEW w \in WatchId, items'[w] # items[w], items'[w].origin \in Played
                 PROVE  Key(items'[w].origin) \in events' \/ items'[w].origin \in cause'["undated"]
      BY DEF NewItems
    <2>1. PICK e \in new : items'[w] = ItemOf(e)
      BY <1>1, ImportedIs DEF Commits
    <2>2. items'[w].origin = e.play
      BY <2>1 DEF ItemOf
    <2>3. e.key \in events'
      BY <1>1, <2>1 DEF Commits
    <2>4. e \in AtHand(s)
      BY <1>1, <2>1 DEF Fresh, AtHand
    <2>5. e.key = Key(e.play) \/ e.play \in cause["undated"]
      BY <2>4 DEF RunInv, EntryInv
    <2>6. cause["undated"] \subseteq cause'["undated"]
      BY <1>4 DEF Causes
    <2> QED
      BY <2>2, <2>3, <2>5, <2>6
  <1> QED
    BY <1>2, <1>7, <1>8 DEF NotedClears

LEMMA StepGrows ==
    ASSUME HistoryTypes, HistoryTypeOK', HistoryInv, HistoryNext
    PROVE  Grows /\ NewItems /\ NotedClears
  <1> USE DEF HistoryTypes, HistoryInv
  <1>1. ASSUME NEW s \in Sessions, \/ BeginImport(s) \/ Ask(s) \/ AskInVain(s) \/ Fetch(s) \/ Read(s) \/ FinishImport(s) \/ Abort(s)
        PROVE  Grows /\ NewItems /\ NotedClears
    BY <1>1, RunStepGrows
  <1>2. ASSUME NEW s \in Sessions, Write(s)
        PROVE  Grows /\ NewItems /\ NotedClears
    BY <1>2, WriteGrows
  <1>3. ASSUME NEW t \in Titles, (\E at \in Days : Play(t, at)) \/ AddAndPush(t)
        PROVE  Grows /\ NewItems /\ NotedClears
    BY <1>3, PlaysGrow
  <1>4. ASSUME \/ \E t \in Titles : Unplayed(t) \/ Blacklist(t)
               \/ \E w \in WatchId : DeleteItem(w)
               \/ DayPasses \/ ClearAll \/ Forget
        PROVE  Grows /\ NewItems /\ NotedClears
    BY <1>4, UserGrows
  <1> QED
    BY HistorySteps, <1>1, <1>2, <1>3, <1>4

-----------------------------------------------------------------------------
(* HistoryImport: the invariant is kept.                                   *)

LEMMA PlayInvNext ==
    ASSUME HistoryTypes, HistoryTypeOK', HistoryInv, Grows
    PROVE  \A n \in PlayId : PlayInv(n)'
  <1> SUFFICES ASSUME NEW n \in PlayId PROVE PlayInv(n)'
    OBVIOUS
  <1> USE DEF HistoryTypes
  <1>1. PlayInv(n)
    BY DEF HistoryInv
  <1>2. plays[n].changed \in Nat /\ day \in Nat /\ day' \in Nat /\ day' >= day
    <2>1. day \in Nat /\ day' \in Nat
      BY DEF HistoryTypeOK
    <2> QED
      BY <2>1, PlayType, ImportBoundAssumption DEF Grows, Days
  <1>3. CASE n \in Played
    <2>1. plays'[n].at = plays[n].at /\ plays'[n].changed = plays[n].changed /\ n \in Played' /\ provider' = provider
      BY <1>3 DEF Grows
    <2> QED
      BY <1>1, <1>2, <1>3, <2>1 DEF PlayInv
  <1>4. CASE n \notin Played
    BY <1>1, <1>2, <1>4 DEF PlayInv, Grows
  <1> QED
    BY <1>3, <1>4

\* What was excused stays so, and a key that was there stays or its play is excused.
LEMMA ExcusedKept ==
    ASSUME HistoryTypes, HistoryTypeOK', Grows, NEW n \in Played
    PROVE  /\ n \in Excused => n \in Excused'
           /\ Key(n) \in events => Key(n)' \in events' \/ n \in cause'["forgotten"]
           /\ Handled(n) => Handled(n)'
  <1> USE DEF HistoryTypes
  <1>1. \A c \in Causes : cause[c] \subseteq cause'[c]
    BY DEF Grows
  <1>2. Key(n)' = Key(n) /\ provider' = provider /\ plays'[n].at = plays[n].at
    BY KeyKept DEF Grows
  <1>3. Key(n) \in events => Key(n)' \in events' \/ n \in cause'["forgotten"]
    BY <1>2 DEF Grows
  <1>4. n \in Excused => n \in Excused'
    BY <1>1, <1>2 DEF Excused, Echoed, Causes
  <1>5. ASSUME NEW c \in Reasons, n \in cause[c]
        PROVE  Handled(n)'
    <2>1. c \in Causes
      BY <1>5 DEF Reasons, Causes
    <2> QED
      BY <1>1, <1>5, <2>1 DEF Handled
  <1>6. ASSUME plays[n].at # 0, Key(n) \in events
        PROVE  Handled(n)'
    <2>1. CASE Key(n)' \in events'
      BY <1>2, <1>6, <2>1 DEF Handled
    <2>2. CASE n \in cause'["forgotten"]
      BY <2>2 DEF Handled, Reasons
    <2> QED
      BY <1>3, <1>6, <2>1, <2>2
  <1>7. Handled(n) => Handled(n)'
    BY <1>5, <1>6 DEF Handled
  <1> QED
    BY <1>3, <1>4, <1>7


\* An item that stays, or goes.
LEMMA ItemKept ==
    ASSUME HistoryTypes, HistoryTypeOK', Grows, NEW w \in WatchId, ItemInv(w), items'[w] \in {items[w], NoItem}
    PROVE  ItemInv(w)'
  <1> SUFFICES ASSUME items'[w] # NoItem, items'[w] = items[w]
               PROVE  ItemInv(w)'
    BY DEF ItemInv
  <1> DEFINE n == items[w].origin
  <1>1. /\ n \in Played /\ items[w].ext = n /\ items[w].title = plays[n].title /\ Recorded(w)
    BY DEF ItemInv
  <1>2. n \in Played' /\ plays'[n].title = plays[n].title /\ plays'[n].changed = plays[n].changed
        /\ provider' = provider /\ cause["pushed"] \subseteq cause'["pushed"]
    BY <1>1 DEF Grows, Causes
  <1>3. n \in cause'["forgotten"] => n \in Excused'
    BY DEF Excused
  <1>4. /\ n \in Excused => n \in Excused'
        /\ Key(n) \in events => Key(n)' \in events' \/ n \in Excused'
    BY <1>1, <1>3, ExcusedKept
  <1>5. Recorded(w)'
    <2>1. n' = n
      OBVIOUS
    <2>2. CASE n \in Excused
      BY <1>4, <2>1, <2>2 DEF Recorded
    <2>3. CASE Key(n) \in events
      BY <1>4, <2>1, <2>3 DEF Recorded
    <2>4. CASE n \in cause["pushed"] /\ provider \in {"publicmetadb", "stremio"} /\ items[w].day = plays[n].changed
      BY <1>2, <2>1, <2>4 DEF Recorded
    <2> QED
      BY <1>1, <2>2, <2>3, <2>4 DEF Recorded
  <1> QED
    BY <1>1, <1>2, <1>5 DEF ItemInv

\* An item that a commit made.
LEMMA ItemWritten ==
    ASSUME HistoryTypes, HistoryTypeOK', HistoryInv, Grows, NEW s \in Sessions, Write(s),
           NEW w \in WatchId, items'[w] # items[w]
    PROVE  ItemInv(w)'
  <1> USE DEF HistoryTypes
  <1>0. PICK some \in SUBSET runs[s].entries : \E new \in SUBSET Fresh(some) : Commits(some, new)
    BY WriteIs
  <1>1. PICK new \in SUBSET Fresh(some) : Commits(some, new)
    BY <1>0
  <1>2. PICK e \in new : items'[w] = ItemOf(e)
    BY <1>1, ImportedIs DEF Commits
  <1>3. e \in AtHand(s) /\ e.key \in events'
    BY <1>1, <1>2 DEF Commits, Fresh, AtHand
  <1>4. /\ e.play \in Played /\ e.title = plays[e.play].title
        /\ e.key = Key(e.play) \/ e.play \in cause["undated"]
    BY <1>3 DEF HistoryInv, RunInv, EntryInv
  <1>5. items'[w].origin = e.play /\ items'[w].ext = e.play /\ items'[w].title = e.title
    BY <1>2 DEF ItemOf
  <1>6. e.play \in Played' /\ plays'[e.play].title = plays[e.play].title
    BY <1>4 DEF Grows
  <1>7. Recorded(w)'
    <2>1. CASE e.play \in cause["undated"]
      <3>1. e.play \in Excused'
        BY <2>1 DEF Grows, Excused, Causes
      <3> QED
        BY <3>1, <1>5 DEF Recorded
    <2>2. CASE e.key = Key(e.play)
      <3>1. Key(e.play)' = Key(e.play)
        BY <1>4, KeyKept
      <3>2. Key(e.play)' \in events'
        BY <1>3, <2>2, <3>1
      <3> QED
        BY <3>2, <1>5 DEF Recorded
    <2> QED
      BY <1>4, <2>1, <2>2
  <1> QED
    BY <1>4, <1>5, <1>6, <1>7 DEF ItemInv

\* An item that the user added.
LEMMA ItemPushed ==
    ASSUME HistoryTypes, HistoryTypeOK', HistoryInv, NEW t \in Titles, AddAndPush(t),
           NEW w \in WatchId, items'[w] # items[w]
    PROVE  ItemInv(w)'
  <1> USE DEF HistoryTypes
  <1> DEFINE n == total.plays + 1
  <1>1. n \in PlayId /\ total \in TotalRecord /\ total.plays \in Nat
    BY TotalParts, TypeParts DEF AddAndPush, NewPlay, PlayId
  <1>2. items'[w] = [title |-> t, day |-> day, origin |-> n, ext |-> n]
    BY TypeParts DEF AddAndPush
  <1>3. plays'[n] = [title |-> t, at |-> day, changed |-> day, there |-> TRUE]
    BY <1>1, NewPlayIs DEF AddAndPush
  <1>4. n \in Played'
    <2>1. total'.plays = n
      BY <1>1 DEF AddAndPush, TotalRecord
    <2> QED
      BY <1>1, <2>1 DEF Played
  <1>5. n \in cause'["pushed"]
    BY TypeParts DEF AddAndPush, Explain, Causes
  <1> HIDE DEF n
  <1>6. items'[w].title = t /\ items'[w].day = day /\ items'[w].origin = n /\ items'[w].ext = n
    <2> DEFINE i == [title |-> t, day |-> day, origin |-> n, ext |-> n]
    <2>1. i.title = t /\ i.day = day /\ i.origin = n /\ i.ext = n
      OBVIOUS
    <2> HIDE DEF i
    <2>2. items'[w] = i
      BY <1>2 DEF i
    <2> QED
      BY <2>1, <2>2
  <1>7. plays'[n].title = t /\ plays'[n].changed = day
    <2> DEFINE p == [title |-> t, at |-> day, changed |-> day, there |-> TRUE]
    <2>1. p.title = t /\ p.changed = day
      OBVIOUS
    <2> HIDE DEF p
    <2>2. plays'[n] = p
      BY <1>3 DEF p
    <2> QED
      BY <2>1, <2>2
  <1>8. Recorded(w)'
    <2>1. CASE provider \in {"publicmetadb", "stremio"}
      BY <1>5, <1>6, <1>7, <2>1 DEF Recorded, AddAndPush
    <2>2. CASE provider \notin {"publicmetadb", "stremio"}
      <3>1. n \in Excused'
        BY <1>5, <2>2 DEF Excused, Echoed, AddAndPush
      <3> QED
        BY <1>6, <3>1 DEF Recorded
    <2> QED
      BY <2>1, <2>2
  <1> QED
    BY <1>4, <1>6, <1>7, <1>8 DEF ItemInv

LEMMA ItemInvNext ==
    ASSUME HistoryTypes, HistoryTypeOK', HistoryInv, Grows, HistoryNext
    PROVE  \A w \in WatchId : ItemInv(w)'
  <1> SUFFICES ASSUME NEW w \in WatchId PROVE ItemInv(w)'
    OBVIOUS
  <1>0. ItemInv(w)
    BY DEF HistoryInv
  <1>1. items'[w] \in {items[w], NoItem} => ItemInv(w)'
    BY <1>0, ItemKept
  <1>2. ASSUME NEW s \in Sessions, \/ BeginImport(s) \/ Ask(s) \/ AskInVain(s) \/ Fetch(s) \/ Read(s) \/ FinishImport(s) \/ Abort(s)
        PROVE  ItemInv(w)'
    BY <1>1, <1>2 DEF BeginImport, Ask, AskInVain, Fetch, Read, FinishImport, Abort
  <1>3. ASSUME NEW s \in Sessions, Write(s) PROVE ItemInv(w)'
    BY <1>1, <1>3, ItemWritten
  <1>4. ASSUME NEW t \in Titles, AddAndPush(t) PROVE ItemInv(w)'
    BY <1>1, <1>4, ItemPushed
  <1>5. ASSUME NEW t \in Titles, \E at \in Days : Play(t, at) PROVE ItemInv(w)'
    BY <1>1, <1>5 DEF Play
  <1>6. ASSUME \/ \E t \in Titles : Unplayed(t) \/ Blacklist(t)
               \/ \E v \in WatchId : DeleteItem(v)
               \/ DayPasses \/ ClearAll \/ Forget
        PROVE  ItemInv(w)'
    BY <1>1, <1>6 DEF Unplayed, Blacklist, DeleteItem, DayPasses, ClearAll, Forget, ItemsWithout
  <1> QED
    BY HistorySteps, <1>2, <1>3, <1>4, <1>5, <1>6

\* A run that does not move.
LEMMA EntryKept ==
    ASSUME HistoryTypes, HistoryTypeOK', Grows, NEW s \in Sessions, NEW e, EntryInv(s, e),
           AtHand(s)' \subseteq AtHand(s), e \in runs'[s].left => e \in runs[s].left, runs'[s].now = runs[s].now
    PROVE  EntryInv(s, e)'
  <1> USE DEF HistoryTypes
  <1>1. provider' = provider /\ cause["undated"] \subseteq cause'["undated"]
    BY DEF Grows, Causes
  <1>2. e.play \in Played /\ (e.key = Key(e.play) \/ e.play \in cause["undated"])
    BY DEF EntryInv
  <1>3. Key(e.play)' = Key(e.play)
    BY <1>2, KeyKept
  <1>4. /\ e.play \in Played' /\ plays'[e.play].title = plays[e.play].title
        /\ plays'[e.play].changed = plays[e.play].changed /\ plays'[e.play].at = plays[e.play].at
    BY <1>2 DEF Grows
  <1>5. \/ e.key = Key(e.play)' /\ (provider' = "simkl" => plays'[e.play].at # 0)
        \/ e.play \in cause'["undated"]
    BY <1>1, <1>3, <1>4 DEF EntryInv
  <1>6. \A f \in AtHand(s)' : f.play = e.play => f = e
    BY DEF EntryInv
  <1>7. (e \in runs'[s].left /\ provider' = "stremio") => plays'[e.play].changed >= runs'[s].now - Lookback
    BY <1>1, <1>4 DEF EntryInv
  <1>8. e.title = plays'[e.play].title
    BY <1>4 DEF EntryInv
  <1> QED
    BY <1>4, <1>5, <1>6, <1>7, <1>8 DEF EntryInv

\* What was checked stays so until it is committed.
LEMMA CheckKept ==
    ASSUME HistoryTypes, HistoryTypeOK', Grows, NewItems, NotedClears,
           NEW s \in Sessions, runs[s].step = "write", NEW e \in runs[s].entries, EntryInv(s, e), CheckedInv(e)
    PROVE  CheckedInv(e)'
  <1> USE DEF HistoryTypes
  <1>1. (\A c \in Causes : cause[c] \subseteq cause'[c]) /\ provider' = provider
    BY DEF Grows
  <1>2. e.play \in Played /\ (e.key = Key(e.play) \/ e.play \in cause["undated"])
    BY DEF EntryInv
  <1>3. Key(e.play)' = Key(e.play)
    BY <1>2, KeyKept
  <1>4. e.play \in cause["undated"] \/ e.play \in cause'["undated"] \/ e.play \in cause'["forgotten"] => e.play \in Excused'
    BY <1>1 DEF Excused, Causes
  <1>5. ASSUME NEW w \in Local', items'[w].origin = e.play
        PROVE  e.play \in Excused' \/ e.key \in events'
    <2>1. w \in WatchId /\ items'[w] # NoItem
      BY DEF Local
    <2>2. CASE items'[w] = items[w]
      <3>1. w \in Local /\ items[w].origin = e.play
        BY <2>1, <2>2, <1>5 DEF Local
      <3>2. e.play \in Excused \/ e.key \in events
        BY <3>1 DEF CheckedInv
      <3>3. e.play \in Excused => e.play \in Excused'
        BY <1>2, ExcusedKept
      <3>4. e.key \in events => e.key \in events' \/ e.play \in cause'["forgotten"]
        BY <1>2 DEF Grows
      <3> QED
        BY <3>2, <3>3, <3>4, <1>4
    <2>3. CASE Key(items'[w].origin) \in events' \/ items'[w].origin \in cause'["undated"]
      BY <2>3, <1>5, <1>4, <1>2
    <2> QED
      BY <2>1, <2>2, <2>3, <1>5, <1>2 DEF NewItems
  <1>6. ASSUME e.day <= cleared'[e.title] PROVE e.play \in cause'["raced"] \/ provider' = "anilist"
    <2>1. CASE cleared' = cleared
      BY <2>1, <1>6, <1>1 DEF CheckedInv, Causes
    <2>2. CASE cleared' # cleared
      BY <2>2 DEF NotedClears, Checked
    <2> QED
      BY <2>1, <2>2
  <1> QED
    BY <1>5, <1>6 DEF CheckedInv

\* A run that does not move.
LEMMA RunKept ==
    ASSUME HistoryTypes, HistoryTypeOK', Grows, NewItems, NotedClears,
           NEW s \in Sessions, RunInv(s), runs'[s] = runs[s]
    PROVE  RunInv(s)'
  <1>1. AtHand(s)' = AtHand(s)
    BY DEF AtHand
  <1>2. ASSUME NEW e \in AtHand(s) PROVE EntryInv(s, e)'
    <2>1. EntryInv(s, e)
      BY DEF RunInv
    <2> QED
      BY <1>1, <2>1, EntryKept
  <1>3. ASSUME NEW e \in runs[s].entries PROVE CheckedInv(e)'
    <2>1. EntryInv(s, e) /\ CheckedInv(e) /\ runs[s].step = "write"
      BY DEF RunInv, AtHand
    <2> QED
      BY <2>1, CheckKept
  <1> QED
    BY <1>1, <1>2, <1>3 DEF RunInv

\* What a run fetches.
LEMMA EntriesTaken ==
    ASSUME HistoryTypes, HistoryTypeOK', HistoryInv, Grows, NEW s \in Sessions, Fetch(s)
    PROVE  RunInv(s)'
  <1> USE DEF HistoryTypes
  <1> DEFINE r == runs[s]
             full == s \in Full
  <1>1. PICK got \in SUBSET Taken(r, full) :
            Follows(runs'[s], r, r.parts \ {FirstPart(r)}, got, r.entries)
    BY FetchIs
  <1>2. r.step = "fetch" /\ UNCHANGED plays
    BY FetchIs
  <1>3. r.entries = {}
    BY <1>2 DEF HistoryInv, RunInv
  <1>4. runs'[s].left = got /\ runs'[s].entries = {} /\ runs'[s].now = r.now /\ AtHand(s)' = got
    BY <1>1, <1>3 DEF Follows, AtHand
  <1>5. \A n \in Fetched(r, full) : plays[n].at = 0 => n \in cause'["undated"]
    BY FetchCauses
  <1> HIDE DEF r, full
  <1>6. ASSUME NEW e \in got PROVE EntryInv(s, e)'
    <2>0. e \in Taken(r, full)
      OBVIOUS
    <2>1. /\ e.play \in Fetched(r, full)
          /\ e = [play |-> e.play, key |-> KeyAt(e.play, r.now), title |-> plays[e.play].title,
                  day |-> Dated(e.play, r.now)]
      BY <2>0, TakenIs
    <2>2. e.play \in There /\ e.play \in Played /\ e.play \in PlayId
      BY <2>1, FetchedThere, ThereIsPlayed, PlayedTyped DEF HistoryInv
    <2>3. e.key = KeyAt(e.play, r.now) /\ e.title = plays[e.play].title
      <3> DEFINE f == [play |-> e.play, key |-> KeyAt(e.play, r.now), title |-> plays[e.play].title,
                       day |-> Dated(e.play, r.now)]
      <3>1. f.key = KeyAt(e.play, r.now) /\ f.title = plays[e.play].title
        OBVIOUS
      <3>2. e = f
        BY <2>1
      <3> HIDE DEF f
      <3> QED
        BY <3>1, <3>2
    <2>4. PlayInv(e.play)
      BY <2>2 DEF HistoryInv
    <2>5. \/ e.key = Key(e.play) /\ (provider = "simkl" => plays[e.play].at # 0)
          \/ e.play \in cause'["undated"]
      <3>1. CASE plays[e.play].at # 0
        BY <2>2, <2>3, <3>1, KeyIs DEF KeyAt, Dated
      <3>2. CASE plays[e.play].at = 0
        BY <1>5, <2>1, <3>2
      <3> QED
        BY <3>1, <3>2
    <2>6. Key(e.play)' = Key(e.play) /\ provider' = provider /\ e.play \in Played'
      BY <2>2, KeyKept DEF Grows
    <2>7. ASSUME NEW f \in got, f.play = e.play PROVE f = e
      <3>1. f = [play |-> f.play, key |-> KeyAt(f.play, r.now), title |-> plays[f.play].title,
                 day |-> Dated(f.play, r.now)]
        BY TakenIs
      <3> QED
        BY <2>1, <2>7, <3>1
    <2>8. provider = "stremio" => plays[e.play].changed >= r.now - Lookback
      BY <2>1 DEF Fetched, Wanted, StremioPlays
    <2> QED
      BY <1>2, <1>4, <2>2, <2>3, <2>5, <2>6, <2>7, <2>8 DEF EntryInv
  <1>7. /\ runs'[s].left # {} => runs'[s].step \in {"read", "write"}
        /\ runs'[s].step = "finish" => runs'[s].parts = {}
    BY <1>1 DEF Follows
  <1> QED
    BY <1>4, <1>6, <1>7 DEF RunInv

\* What a run's checks leave.
LEMMA EntriesChecked ==
    ASSUME HistoryTypes, HistoryTypeOK', HistoryInv, Grows, NEW s \in Sessions, Read(s)
    PROVE  RunInv(s)'
  <1> USE DEF HistoryTypes
  <1>1. PICK batch \in SUBSET runs[s].left :
            Follows(runs'[s], runs[s], runs[s].parts, runs[s].left \ batch, Candidates(runs[s], batch))
    BY ReadIs
  <1>2. UNCHANGED <<provider, plays, items, events, cleared, total>>
    BY DEF Read
  <1>3. /\ runs'[s].left = runs[s].left \ batch /\ runs'[s].entries = Candidates(runs[s], batch)
        /\ runs'[s].now = runs[s].now
        /\ runs'[s].entries # {} => runs'[s].step = "write"
        /\ runs'[s].left # {} => runs'[s].step \in {"read", "write"}
        /\ runs'[s].step = "finish" => runs'[s].parts = {}
    BY <1>1 DEF Follows
  <1>4. Candidates(runs[s], batch) \subseteq batch
    BY DEF Candidates
  <1>5. AtHand(s)' \subseteq AtHand(s)
    BY <1>3, <1>4 DEF AtHand
  <1>6. ASSUME NEW e \in AtHand(s)' PROVE EntryInv(s, e)'
    <2>1. EntryInv(s, e)
      BY <1>5 DEF HistoryInv, RunInv
    <2> QED
      BY <1>3, <1>5, <2>1, EntryKept
  <1>7. ASSUME NEW e \in Candidates(runs[s], batch) PROVE CheckedInv(e)'
    <2>1. e \in runs[s].left /\ EntryInv(s, e) /\ e \in PlayEntry
      BY <1>4, FreshTyped DEF AtHand, HistoryInv, RunInv
    <2>2. e.play \in Played /\ (e.key = Key(e.play) \/ e.play \in cause["undated"])
      BY <2>1 DEF EntryInv
    <2>3. e.key \notin events /\ e.play \notin KnownPlays /\ ~StremioKnows(e, runs[s]) /\ Allowed(e)
      BY DEF Candidates
    <2>4. ASSUME NEW w \in Local, items[w].origin = e.play PROVE e.play \in Excused
      <3>1. ItemInv(w) /\ items[w] # NoItem
        BY DEF HistoryInv, Local
      <3>2. items[w].ext = e.play /\ items[w].title = e.title /\ Recorded(w)
        BY <3>1, <2>1, <2>4 DEF ItemInv, EntryInv
      <3>3. CASE e.play \in Excused
        BY <3>3
      <3>4. CASE Key(e.play) \in events
        BY <2>2, <2>3, <3>4 DEF Excused
      <3>5. CASE provider = "publicmetadb"
        BY <2>3, <3>2, <3>5 DEF KnownPlays
      <3>6. CASE provider = "stremio" /\ items[w].day = plays[e.play].changed
        <4>1. plays[e.play].changed >= runs[s].now - Lookback
          BY <2>1, <3>6 DEF EntryInv
        <4> QED
          BY <2>3, <3>2, <3>6, <4>1 DEF StremioKnows
      <3> QED
        BY <3>2, <3>3, <3>4, <3>5, <3>6, <2>4 DEF Recorded
    <2>5. e.play \in Excused => e.play \in Excused'
      BY <2>2, ExcusedKept
    <2>6. e.day <= cleared[e.title] => provider = "anilist"
      <3>1. e.day \in Nat /\ cleared[e.title] \in Nat
        BY <2>1, TypeParts, ImportBoundAssumption DEF PlayEntry, Days
      <3> QED
        BY <2>3, <3>1 DEF Allowed
    <2>7. Local' = Local
      BY <1>2 DEF Local
    <2> QED
      BY <1>2, <2>4, <2>5, <2>6, <2>7 DEF CheckedInv
  <1> QED
    BY <1>3, <1>6, <1>7 DEF RunInv

\* What a commit leaves at hand.
LEMMA EntriesWritten ==
    ASSUME HistoryTypes, HistoryTypeOK', HistoryInv, Grows, NewItems, NotedClears, NEW s \in Sessions, Write(s)
    PROVE  RunInv(s)'
  <1> USE DEF HistoryTypes
  <1>1. PICK some \in SUBSET runs[s].entries :
            Follows(runs'[s], runs[s], runs[s].parts, runs[s].left, runs[s].entries \ some)
    BY WriteIs
  <1>2. /\ runs'[s].left = runs[s].left /\ runs'[s].entries = runs[s].entries \ some
        /\ runs'[s].now = runs[s].now
        /\ runs'[s].entries # {} => runs'[s].step = "write"
        /\ runs'[s].left # {} => runs'[s].step \in {"read", "write"}
        /\ runs'[s].step = "finish" => runs'[s].parts = {}
    BY <1>1 DEF Follows
  <1>3. AtHand(s)' \subseteq AtHand(s)
    BY <1>2 DEF AtHand
  <1>4. ASSUME NEW e \in AtHand(s)' PROVE EntryInv(s, e)'
    <2>1. EntryInv(s, e)
      BY <1>3 DEF HistoryInv, RunInv
    <2> QED
      BY <1>2, <1>3, <2>1, EntryKept
  <1>5. ASSUME NEW e \in runs[s].entries PROVE CheckedInv(e)'
    <2>1. EntryInv(s, e) /\ CheckedInv(e) /\ runs[s].step = "write"
      BY DEF HistoryInv, RunInv, AtHand
    <2> QED
      BY <2>1, CheckKept
  <1> QED
    BY <1>2, <1>4, <1>5 DEF RunInv

\* The run that moves, and those that do not.
LEMMA RunInvNext ==
    ASSUME HistoryTypes, HistoryTypeOK', HistoryInv, Grows, NewItems, NotedClears, HistoryNext
    PROVE  \A s \in Sessions : RunInv(s)'
  <1> SUFFICES ASSUME NEW s \in Sessions PROVE RunInv(s)'
    OBVIOUS
  <1> USE DEF HistoryTypes
  <1>0. RunInv(s) /\ runs \in [Sessions -> RunRecord]
    BY TypeParts DEF HistoryInv
  <1>1. runs'[s] = runs[s] => RunInv(s)'
    BY <1>0, RunKept
  <1>2. ASSUME runs'[s].left = {}, runs'[s].entries = {}, runs'[s].step = "finish" => runs'[s].parts = {}
        PROVE  RunInv(s)'
    BY <1>2 DEF RunInv, AtHand
  <1>3. ASSUME NEW u \in Sessions, BeginImport(u) PROVE RunInv(s)'
    <2>1. CASE u = s
      <3> DEFINE q == [NoImport EXCEPT !.step = "fetch", !.now = day, !.parts = AllParts]
      <3>1. q.left = {} /\ q.entries = {} /\ q.step = "fetch"
        BY DEF NoImport
      <3>2. runs'[s] = q
        BY <1>0, <1>3, <2>1 DEF BeginImport
      <3> HIDE DEF q
      <3> QED
        BY <1>2, <3>1, <3>2
    <2>2. CASE u # s
      BY <1>0, <1>1, <1>3, <2>2 DEF BeginImport
    <2> QED
      BY <2>1, <2>2
  <1>4. ASSUME NEW u \in Sessions, Ask(u) \/ AskInVain(u) PROVE RunInv(s)'
    <2>1. /\ \A v \in Sessions \ {u} : runs'[v] = runs[v]
          /\ runs'[u].left = {} /\ runs'[u].entries = {}
          /\ runs'[u].step = IF runs'[u].parts = {} THEN "finish" ELSE "fetch"
      BY <1>4, AskIs DEF Becomes
    <2> QED
      BY <1>1, <1>2, <2>1
  <1>5. ASSUME NEW u \in Sessions, Fetch(u) PROVE RunInv(s)'
    BY <1>1, <1>5, FetchIs, EntriesTaken
  <1>6. ASSUME NEW u \in Sessions, Read(u) PROVE RunInv(s)'
    BY <1>1, <1>6, ReadIs, EntriesChecked
  <1>7. ASSUME NEW u \in Sessions, Write(u) PROVE RunInv(s)'
    BY <1>1, <1>7, WriteIs, EntriesWritten
  <1>8. ASSUME NEW u \in Sessions, FinishImport(u) \/ Abort(u) PROVE RunInv(s)'
    <2>1. runs' = [runs EXCEPT ![u] = NoImport]
      BY <1>8 DEF FinishImport, Abort
    <2>2. CASE u = s
      BY <1>0, <1>2, <2>1, <2>2, NoImportTyped
    <2>3. CASE u # s
      BY <1>0, <1>1, <2>1, <2>3
    <2> QED
      BY <2>2, <2>3
  <1>9. ASSUME NEW t \in Titles, (\E at \in Days : Play(t, at)) \/ AddAndPush(t) \/ Unplayed(t) \/ Blacklist(t)
        PROVE  RunInv(s)'
    BY <1>1, <1>9 DEF Play, AddAndPush, Unplayed, Blacklist
  <1>10. ASSUME NEW w \in WatchId, DeleteItem(w) PROVE RunInv(s)'
    BY <1>1, <1>10 DEF DeleteItem
  <1>11. ASSUME DayPasses \/ ClearAll \/ Forget PROVE RunInv(s)'
    BY <1>1, <1>11 DEF DayPasses, ClearAll, Forget
  <1> QED
    BY HistorySteps, <1>3, <1>4, <1>5, <1>6, <1>7, <1>8, <1>9, <1>10, <1>11

LEMMA DeletedInvNext ==
    ASSUME HistoryTypes, HistoryTypeOK', HistoryInv, Grows, HistoryNext
    PROVE  \A n \in PlayId : DeletedInv(n)'
  <1> USE DEF HistoryTypes
  <1>1. ASSUME NEW n \in PlayId, n \in Played,
               n \in cause["pushed"] \cup cause["forgotten"] \cup cause["undated"] \/ Key(n) \in events
        PROVE  DeletedInv(n)'
    <2>1. n \in Played'
      BY <1>1 DEF Grows
    <2>2. \A c \in Causes : cause[c] \subseteq cause'[c]
      BY DEF Grows
    <2>3. Key(n) \in events => Key(n)' \in events' \/ n \in cause'["forgotten"]
      BY <1>1, ExcusedKept
    <2> QED
      BY <1>1, <2>1, <2>2, <2>3 DEF DeletedInv, Causes
  <1>2. ASSUME NEW n \in PlayId, n \in deleted PROVE DeletedInv(n)'
    BY <1>1, <1>2 DEF HistoryInv, DeletedInv
  <1>3. ASSUME NEW w \in Local, NEW n \in PlayId, n = items[w].origin PROVE DeletedInv(n)'
    <2>1. ItemInv(w) /\ items[w] # NoItem
      BY DEF HistoryInv, Local
    <2>2. n \in Played /\ Recorded(w)
      BY <1>3, <2>1 DEF ItemInv
    <2>3. n \in cause["pushed"] \cup cause["forgotten"] \cup cause["undated"] \/ Key(n) \in events
      BY <1>3, <2>2 DEF Recorded, Excused, Echoed
    <2> QED
      BY <1>1, <2>2, <2>3
  <1>4. ASSUME NEW n \in PlayId, n \notin deleted' PROVE DeletedInv(n)'
    BY <1>4 DEF DeletedInv
  <1>5. ASSUME NEW n \in PlayId, NEW ws \in SUBSET Local, deleted' = deleted \cup Origins(ws) PROVE DeletedInv(n)'
    BY <1>2, <1>3, <1>4, <1>5 DEF Origins
  <1>6. ASSUME NEW n \in PlayId, deleted' = deleted PROVE DeletedInv(n)'
    BY <1>2, <1>4, <1>6
  <1> SUFFICES ASSUME NEW n \in PlayId PROVE DeletedInv(n)'
    OBVIOUS
  <1>7. ASSUME NEW s \in Sessions,
               \/ BeginImport(s) \/ Ask(s) \/ AskInVain(s) \/ Fetch(s) \/ Read(s) \/ Write(s)
               \/ FinishImport(s) \/ Abort(s)
        PROVE  DeletedInv(n)'
    <2>1. deleted' = deleted
      BY <1>7, WriteIs DEF BeginImport, Ask, AskInVain, Fetch, Read, FinishImport, Abort
    <2> QED
      BY <1>6, <2>1
  <1>8. ASSUME NEW t \in Titles, (\E at \in Days : Play(t, at)) \/ AddAndPush(t) \/ Blacklist(t)
        PROVE  DeletedInv(n)'
    BY <1>6, <1>8 DEF Play, AddAndPush, Blacklist
  <1>9. ASSUME NEW t \in Titles, Unplayed(t) PROVE DeletedInv(n)'
    <2> DEFINE gone == {w \in Local : items[w].title = t /\ items[w].day <= day}
    <2>1. deleted' = deleted \cup Origins(gone)
      BY <1>9, Zenon DEF Unplayed
    <2>2. gone \in SUBSET Local
      OBVIOUS
    <2> HIDE DEF gone
    <2> QED
      BY <1>5, <2>1, <2>2
  <1>10. ASSUME NEW w \in WatchId, DeleteItem(w) PROVE DeletedInv(n)'
    BY <1>5, <1>10 DEF DeleteItem
  <1>11. ASSUME DayPasses \/ ClearAll \/ Forget PROVE DeletedInv(n)'
    BY <1>5, <1>6, <1>11 DEF DayPasses, ClearAll, Forget
  <1> QED
    BY HistorySteps, <1>7, <1>8, <1>9, <1>10, <1>11

\* Clears lie before the day, and what is kept was watched after them.
LEMMA ClearedNext ==
    ASSUME HistoryTypes, HistoryTypeOK', HistoryInv, Grows, HistoryNext
    PROVE  (\A t \in Titles : ClearedInv(t)') /\ ClearIsKept'
  <1> USE DEF HistoryTypes
  <1>1. day \in Nat /\ day' \in Nat /\ day <= day' /\ cleared \in [Titles -> Days] /\ Days \subseteq Nat
        /\ cause["raced"] \subseteq cause'["raced"] /\ provider' = provider
    BY ImportBoundAssumption DEF HistoryTypeOK, Grows, Days, Causes
  <1>2. ASSUME cleared' = cleared PROVE \A t \in Titles : ClearedInv(t)'
    <2> SUFFICES ASSUME NEW t \in Titles PROVE ClearedInv(t)'
      OBVIOUS
    <2>1. cleared[t] < day /\ cleared[t] \in Nat
      BY <1>1 DEF HistoryInv, ClearedInv
    <2> QED
      BY <1>1, <1>2, <2>1 DEF ClearedInv
  <1>3. ASSUME NEW w \in WatchId, items[w] # NoItem, items[w].day <= cleared[items[w].title]
        PROVE  items[w].origin \in cause'["raced"] \/ provider' = "anilist"
    BY <1>1, <1>3 DEF HistoryInv, ClearIsKept, Local
  <1>4. ASSUME cleared' = cleared, \A w \in WatchId : items'[w] \in {items[w], NoItem}
        PROVE  ClearIsKept'
    BY <1>3, <1>4 DEF ClearIsKept, Local
  <1>5. ASSUME NEW s \in Sessions, \/ BeginImport(s) \/ Ask(s) \/ AskInVain(s) \/ Fetch(s) \/ Read(s) \/ FinishImport(s) \/ Abort(s)
        PROVE  (\A t \in Titles : ClearedInv(t)') /\ ClearIsKept'
    <2>1. cleared' = cleared /\ items' = items
      BY <1>5 DEF BeginImport, Ask, AskInVain, Fetch, Read, FinishImport, Abort
    <2> QED
      BY <1>2, <1>4, <2>1
  <1>6. ASSUME NEW s \in Sessions, Write(s)
        PROVE  (\A t \in Titles : ClearedInv(t)') /\ ClearIsKept'
    <2>1. cleared' = cleared
      BY <1>6, WriteIs
    <2>2. ASSUME NEW w \in WatchId, items'[w] # items[w], items'[w].day <= cleared[items'[w].title]
          PROVE  items'[w].origin \in cause'["raced"] \/ provider' = "anilist"
      <3>0. PICK some \in SUBSET runs[s].entries : \E new \in SUBSET Fresh(some) : Commits(some, new)
        BY <1>6, WriteIs
      <3>1. PICK new \in SUBSET Fresh(some) : Commits(some, new)
        BY <3>0
      <3>2. PICK e \in new : items'[w] = ItemOf(e)
        BY <2>2, <3>1, ImportedIs DEF Commits
      <3>3. items'[w].origin = e.play /\ items'[w].title = e.title /\ items'[w].day = e.day
        BY <3>2 DEF ItemOf
      <3>4. e \in runs[s].entries
        BY <3>1, <3>2 DEF Fresh
      <3>5. CheckedInv(e)
        BY <3>4 DEF HistoryInv, RunInv
      <3> QED
        BY <1>1, <2>2, <3>3, <3>5 DEF CheckedInv
    <2> QED
      BY <1>2, <1>3, <2>1, <2>2 DEF ClearIsKept, Local
  <1>7. ASSUME NEW t \in Titles, \E at \in Days : Play(t, at)
        PROVE  (\A u \in Titles : ClearedInv(u)') /\ ClearIsKept'
    BY <1>2, <1>4, <1>7 DEF Play
  <1>8. ASSUME NEW t \in Titles, AddAndPush(t)
        PROVE  (\A u \in Titles : ClearedInv(u)') /\ ClearIsKept'
    <2>1. cleared' = cleared
      BY <1>8 DEF AddAndPush
    <2>2. ASSUME NEW w \in WatchId, items'[w] # items[w] PROVE items'[w].title = t /\ items'[w].day = day
      <3> DEFINE n == total.plays + 1
                 i == [title |-> t, day |-> day, origin |-> n, ext |-> n]
      <3>1. i.title = t /\ i.day = day
        OBVIOUS
      <3>2. items'[w] = i
        BY <1>8, <2>2, TypeParts DEF AddAndPush
      <3> HIDE DEF i
      <3> QED
        BY <3>1, <3>2
    <2>3. cleared[t] < day /\ cleared[t] \in Nat
      BY <1>1 DEF HistoryInv, ClearedInv
    <2>4. ASSUME NEW w \in WatchId, items'[w] # items[w] PROVE ~(items'[w].day <= cleared[items'[w].title])
      BY <1>1, <2>2, <2>3, <2>4
    <2> QED
      BY <1>2, <1>3, <2>1, <2>4 DEF ClearIsKept, Local
  <1>9. ASSUME NEW t \in Titles, Unplayed(t)
        PROVE  (\A u \in Titles : ClearedInv(u)') /\ ClearIsKept'
    <2> DEFINE gone == {w \in Local : items[w].title = t /\ items[w].day <= day}
    <2>1. items' = ItemsWithout(gone) /\ day' = day + 1 /\ cleared' = [cleared EXCEPT ![t] = day]
      BY <1>9, Zenon DEF Unplayed
    <2>2. ASSUME NEW u \in Titles PROVE ClearedInv(u)'
      <3>1. cleared[u] < day /\ cleared[u] \in Nat
        BY <1>1 DEF HistoryInv, ClearedInv
      <3> QED
        BY <1>1, <2>1, <3>1 DEF ClearedInv
    <2>3. ASSUME NEW w \in Local', items'[w].day <= cleared'[items'[w].title]
          PROVE  items'[w].origin \in cause'["raced"] \/ provider' = "anilist"
      <3>1. w \in WatchId /\ w \notin gone /\ items'[w] = items[w] /\ items[w] # NoItem
        BY <2>1 DEF Local, ItemsWithout
      <3>2. items[w].title # t
        BY <1>1, <2>1, <2>3, <3>1 DEF Local
      <3>3. cleared'[items[w].title] = cleared[items[w].title]
        <4>1. items[w].title \in Titles
          BY <3>1, TypeParts DEF ItemRecord
        <4> QED
          BY <1>1, <2>1, <3>2, <4>1
      <3> QED
        BY <1>3, <2>3, <3>1, <3>3
    <2> QED
      BY <2>2, <2>3 DEF ClearIsKept
  <1>10. ASSUME \/ \E t \in Titles : Blacklist(t)
                \/ \E w \in WatchId : DeleteItem(w)
                \/ DayPasses \/ ClearAll \/ Forget
         PROVE  (\A u \in Titles : ClearedInv(u)') /\ ClearIsKept'
    <2>1. cleared' = cleared
      BY <1>10 DEF Blacklist, DeleteItem, DayPasses, ClearAll, Forget
    <2>2. \A w \in WatchId : items'[w] \in {items[w], NoItem}
      BY <1>10 DEF Blacklist, DeleteItem, DayPasses, ClearAll, Forget, ItemsWithout
    <2> QED
      BY <1>2, <1>4, <2>1, <2>2
  <1> QED
    BY HistorySteps, <1>5, <1>6, <1>7, <1>8, <1>9, <1>10

\* What has changed is known by day.
LEMMA DaysAre ==
    ASSUME HistoryTypes, HistoryTypeOK', Grows
    PROVE  /\ day \in Nat /\ day' \in Nat /\ day <= day' /\ cursor \in Nat /\ cursor' \in Nat
           /\ \A c \in Category : seen[c] \in Nat /\ seen'[c] \in Nat
           /\ \A n \in PlayId : plays[n].changed \in Nat
           /\ \A s \in Sessions : /\ runs[s].asOf \in Nat /\ runs[s].since \in Nat
                                  /\ \A c \in Category : runs[s].acts[c] \in Nat
           /\ provider' = provider
  <1>1. Days \subseteq Nat /\ 1 .. MaxDay \subseteq Nat
    BY ImportBoundAssumption DEF Days
  <1>2. \A n \in PlayId : plays[n].changed \in Nat
    BY <1>1, PlayType DEF HistoryTypes
  <1>3. ASSUME NEW s \in Sessions
        PROVE  /\ runs[s].asOf \in Nat /\ runs[s].since \in Nat
               /\ \A c \in Category : runs[s].acts[c] \in Nat
    <2>1. runs[s] \in RunRecord
      BY TypeParts DEF HistoryTypes
    <2>2. runs[s].asOf \in Days /\ runs[s].since \in Days /\ runs[s].acts \in [Category -> Days]
      BY <2>1, RunParts
    <2> QED
      BY <1>1, <2>2
  <1>4. day \in Nat /\ day' \in Nat /\ cursor \in Nat /\ cursor' \in Nat
    BY <1>1 DEF HistoryTypes, HistoryTypeOK
  <1>5. \A c \in Category : seen[c] \in Nat /\ seen'[c] \in Nat
    BY <1>1 DEF HistoryTypes, HistoryTypeOK
  <1> QED
    BY <1>2, <1>3, <1>4, <1>5 DEF Grows

\* A play that is there and changed before some day was there before.
LEMMA ThereBefore ==
    ASSUME HistoryTypes, HistoryTypeOK', HistoryInv, Grows, NEW n \in There',
           NEW c \in Nat, c <= day, plays'[n].changed < c
    PROVE  /\ n \in There /\ n \in Played /\ n \in PlayId
           /\ plays'[n].changed = plays[n].changed /\ plays[n].changed < c /\ PartOf(n)' = PartOf(n)
  <1>1. n \in PlayId /\ plays'[n].there
    BY DEF There
  <1>2. CASE n \in Played
    <2>1. plays'[n].title = plays[n].title /\ provider' = provider
      BY <1>2 DEF Grows
    <2> QED
      BY <1>1, <1>2, <2>1 DEF Grows, There, PartOf, Parted
  <1>3. CASE n \notin Played
    <2>1. n \notin There
      BY <1>3, ThereIsPlayed DEF HistoryInv, HistoryTypes
    <2>2. n \in Played'
      BY <1>1, <1>3, <2>1 DEF Grows, There
    <2>3. plays'[n].changed = day
      BY <1>1, <1>3, <2>2 DEF Grows
    <2> QED
      BY <2>3, DaysAre
  <1> QED
    BY <1>2, <1>3

LEMMA HandledKept ==
    ASSUME HistoryTypes, HistoryTypeOK', Grows, NEW n \in Played, Handled(n)
    PROVE  Handled(n)'
  BY ExcusedKept

\* A run of Simkl's that does not move.
LEMMA AsOfKept ==
    ASSUME HistoryTypes, HistoryTypeOK', HistoryInv, Grows, NEW s \in Sessions, AsOfInv(s), runs'[s] = runs[s]
    PROVE  AsOfInv(s)'
  <1>1. runs[s].asOf <= day /\ runs[s].asOf \in Nat /\ runs'[s].asOf <= day'
    BY DaysAre DEF AsOfInv
  <1>2. ASSUME NEW n \in There', plays'[n].changed < runs[s].asOf
        PROVE  Handled(n)' \/ ToCome(s, n)'
    <2>1. /\ n \in There /\ n \in Played /\ plays[n].changed < runs[s].asOf
          /\ plays'[n].changed = plays[n].changed /\ PartOf(n)' = PartOf(n)
      BY <1>1, <1>2, ThereBefore
    <2>2. Handled(n) \/ ToCome(s, n)
      BY <1>2, <2>1 DEF AsOfInv
    <2>3. ToCome(s, n) => ToCome(s, n)'
      BY <2>1 DEF ToCome, AtHand
    <2> QED
      BY <2>1, <2>2, <2>3, HandledKept
  <1>3. \A c \in Category : runs'[s].acts[c] <= runs'[s].asOf
    BY DEF AsOfInv
  <1> QED
    BY <1>1, <1>2, <1>3 DEF AsOfInv

\* What runs that go on have in common.
LEMMA AsOfFollows ==
    ASSUME HistoryTypes, HistoryTypeOK', HistoryInv, Grows, provider = "simkl", NEW s \in Sessions,
           NEW ps, NEW l, NEW es, Follows(runs'[s], runs[s], ps, l, es),
           \A n \in There : /\ n \in Played /\ plays'[n].changed = plays[n].changed /\ PartOf(n)' = PartOf(n)
                           /\ plays[n].changed < runs[s].asOf /\ ToCome(s, n)
                           => Handled(n)' \/ ToCome(s, n)'
    PROVE  AsOfInv(s)'
  <1>1. AsOfInv(s) /\ runs[s].asOf \in Nat
    BY DaysAre DEF HistoryInv, CursorInv
  <1>2. runs'[s].asOf = runs[s].asOf /\ runs'[s].acts = runs[s].acts
    BY DEF Follows
  <1>3. runs'[s].asOf <= day' /\ \A c \in Category : runs'[s].acts[c] <= runs'[s].asOf
    BY <1>1, <1>2, DaysAre DEF AsOfInv
  <1>4. ASSUME NEW n \in There', plays'[n].changed < runs[s].asOf
        PROVE  Handled(n)' \/ ToCome(s, n)'
    <2>1. /\ n \in There /\ n \in Played /\ plays[n].changed < runs[s].asOf
          /\ plays'[n].changed = plays[n].changed /\ PartOf(n)' = PartOf(n)
      BY <1>1, <1>4, ThereBefore DEF AsOfInv
    <2>2. Handled(n) \/ ToCome(s, n)
      BY <1>1, <2>1 DEF AsOfInv
    <2> QED
      BY <2>1, <2>2, HandledKept
  <1> QED
    BY <1>2, <1>3, <1>4 DEF AsOfInv

\* Simkl is asked: had nothing changed since the cursor, that is all there is.
LEMMA AskAsOf ==
    ASSUME HistoryTypes, HistoryTypeOK', HistoryInv, Grows, provider = "simkl", NEW s \in Sessions,
           Ask(s) \/ AskInVain(s)
    PROVE  AsOfInv(s)'
  <1> USE DEF HistoryTypes
  <1>1. PICK act \in Days, acts \in [Category -> Days] :
            /\ Becomes(runs'[s], act, acts, s \in Full)
            /\ \/ act = Activity /\ acts = Activities
               \/ act = 0 /\ acts = [c \in Category |-> 0]
    BY AskIs
  <1>2. UNCHANGED <<provider, plays, cursor, seen, events>>
    BY AskIs
  <1> DEFINE q == runs'[s]
  <1>3. /\ q.asOf = act /\ q.acts = acts /\ q.passed = PassedOver(act, q.parts, q.since)
    BY <1>1 DEF Becomes
  <1> HIDE DEF q
  <1>4. act <= day' /\ \A c \in Category : acts[c] <= act
    <2>1. CASE act = Activity /\ acts = Activities
      <3>1. CASE There = {}
        BY <2>1, <3>1, ActivityIsDay, DaysAre
      <3>2. CASE There # {}
        <4>1. PICK n \in There : Activity = plays[n].changed
          BY <3>2, ActivityIsDay
        <4>2. n \in Played /\ PlayInv(n) /\ n \in PlayId
          BY ThereIsPlayed DEF HistoryInv, There
        <4>3. Activity <= day'
          BY <4>1, <4>2, DaysAre DEF PlayInv
        <4> QED
          BY <2>1, <4>3, ActivityIsDay
      <3> QED
        BY <3>1, <3>2
    <2>2. CASE act = 0 /\ acts = [c \in Category |-> 0]
      BY <2>2, DaysAre
    <2> QED
      BY <1>1, <2>1, <2>2
  <1>5. ASSUME NEW n \in There', plays'[n].changed < act
        PROVE  Handled(n)' \/ ToCome(s, n)'
    <2>1. n \in There /\ plays[n].changed < act /\ PartOf(n)' = PartOf(n) /\ n \in Played
      BY <1>2, <1>5, ThereIsPlayed DEF There, PartOf, Parted, HistoryInv
    <2>2. CASE Reached(n)
      BY <2>1, <2>2, HandledKept DEF HistoryInv, CursorInv
    <2>3. CASE plays[n].changed >= q.since /\ PartOf(n) \in q.parts
      BY <1>2, <2>1, <2>3 DEF ToCome, q
    <2>4. CASE ~Reached(n) /\ ~(plays[n].changed >= q.since /\ PartOf(n) \in q.parts)
      <3>1. n \in q.passed
        BY <1>3, <2>1, <2>4 DEF PassedOver
      <3> QED
        BY <3>1 DEF ToCome, q
    <2> QED
      BY <2>2, <2>3, <2>4
  <1> QED
    BY <1>3, <1>4, <1>5 DEF AsOfInv, q

\* Simkl is asked for what changed since: what came before was handled, or is out of reach.
LEMMA FetchAsOf ==
    ASSUME HistoryTypes, HistoryTypeOK', HistoryInv, Grows, provider = "simkl", NEW s \in Sessions, Fetch(s)
    PROVE  AsOfInv(s)'
  <1> USE DEF HistoryTypes
  <1> DEFINE r == runs[s]
             full == s \in Full
             got == Taken(r, full)
  <1>1. Follows(runs'[s], r, r.parts \ {FirstPart(r)}, got, r.entries) /\ r.step = "fetch"
    BY FetchIs
  <1>2. r.entries = {} /\ r.left = {}
    BY <1>1 DEF HistoryInv, RunInv
  <1>3. /\ runs'[s].passed = r.passed /\ runs'[s].since = r.since /\ runs'[s].parts = r.parts \ {FirstPart(r)}
        /\ AtHand(s)' = got /\ r.since \in Nat /\ AtHand(s) = {}
    BY <1>1, <1>2, DaysAre DEF Follows, AtHand
  <1> HIDE DEF full, got
  <1>4. ASSUME NEW n \in There, n \in Played, plays'[n].changed = plays[n].changed, PartOf(n)' = PartOf(n),
               plays[n].changed < r.asOf, ToCome(s, n)
        PROVE  Handled(n)' \/ ToCome(s, n)'
    <2>1. CASE n \in r.passed
      BY <1>3, <2>1 DEF ToCome
    <2>2. CASE PartOf(n) \in r.parts \ {FirstPart(r)} /\ plays[n].changed >= r.since
      BY <1>3, <1>4, <2>2 DEF ToCome
    <2>3. CASE PartOf(n) = FirstPart(r) /\ plays[n].changed >= r.since
      <3>1. Dated(n, r.now) \in Nat
        <4>1. Days \subseteq Nat
          BY ImportBoundAssumption DEF Days
        <4>2. r.now \in Days
          BY TypeParts, RunParts
        <4>3. plays[n].at \in Days
          BY PlayType DEF There
        <4> QED
          BY <4>1, <4>2, <4>3 DEF Dated
      <3>2. CASE Dated(n, r.now) < r.since
        <4>1. n \in cause'["backdated"]
          BY <2>3, <3>2, FetchCauses
        <4> QED
          BY <4>1 DEF Handled, Reasons
      <3>3. CASE Dated(n, r.now) >= r.since
        <4>1. n \in Fetched(r, full)
          BY <2>3, <3>3 DEF Fetched, Wanted, SimklPlays
        <4>2. EntryOf(n, r.now) \in got /\ EntryOf(n, r.now).play = n
          BY <4>1, EntryIs DEF Taken, got
        <4> QED
          BY <1>3, <4>2 DEF ToCome
      <3> QED
        BY <1>3, <3>1, <3>2, <3>3
    <2> QED
      BY <1>3, <1>4, <2>1, <2>2, <2>3 DEF ToCome
  <1> QED
    BY <1>1, <1>4, AsOfFollows

\* An entry whose key is recorded has been handled.
LEMMA RecordedIsHandled ==
    ASSUME HistoryTypes, HistoryInv, provider = "simkl", NEW s \in Sessions,
           NEW e \in AtHand(s), e.key \in events
    PROVE  Handled(e.play)
  <1>1. EntryInv(s, e)
    BY DEF HistoryInv, RunInv
  <1> QED
    BY <1>1 DEF EntryInv, Handled, Reasons

\* What the checks drop was handled, or refused.
LEMMA ReadAsOf ==
    ASSUME HistoryTypes, HistoryTypeOK', HistoryInv, Grows, provider = "simkl", NEW s \in Sessions, Read(s)
    PROVE  AsOfInv(s)'
  <1> USE DEF HistoryTypes
  <1>1. PICK batch \in SUBSET runs[s].left :
            /\ Follows(runs'[s], runs[s], runs[s].parts, runs[s].left \ batch, Candidates(runs[s], batch))
            /\ cause' = IF provider # "simkl" THEN cause
                        ELSE Explain("refused", {e.play : e \in {x \in batch : ~Allowed(x)}})
    BY ReadIs
  <1>2. runs[s].entries = {}
    <2>1. runs[s].step = "read"
      BY ReadIs
    <2> QED
      BY <2>1 DEF HistoryInv, RunInv
  <1>3. /\ runs'[s].passed = runs[s].passed /\ runs'[s].since = runs[s].since /\ runs'[s].parts = runs[s].parts
        /\ runs'[s].left = runs[s].left \ batch /\ runs'[s].entries = Candidates(runs[s], batch)
    BY <1>1 DEF Follows
  <1>4. ASSUME NEW n \in There, n \in Played, plays'[n].changed = plays[n].changed, PartOf(n)' = PartOf(n),
               plays[n].changed < runs[s].asOf, ToCome(s, n)
        PROVE  Handled(n)' \/ ToCome(s, n)'
    <2>1. CASE n \in runs[s].passed \/ (PartOf(n) \in runs[s].parts /\ plays[n].changed >= runs[s].since)
      BY <1>3, <1>4, <2>1 DEF ToCome
    <2>2. ASSUME NEW e \in runs[s].left, e.play = n
          PROVE  Handled(n)' \/ ToCome(s, n)'
      <3>1. CASE e.key \in events
        <4>1. Handled(n)
          BY <2>2, <3>1, RecordedIsHandled DEF AtHand
        <4> QED
          BY <1>4, <4>1, HandledKept
      <3>2. CASE e \in batch /\ ~Allowed(e)
        <4> DEFINE ns == {f.play : f \in {x \in batch : ~Allowed(x)}}
        <4>1. cause' = Explain("refused", ns)
          BY <1>1
        <4>2. n \in ns
          BY <2>2, <3>2
        <4> HIDE DEF ns
        <4>3. n \in cause'["refused"]
          BY <4>1, <4>2, TypeParts DEF Explain, Causes
        <4> QED
          BY <4>3 DEF Handled, Reasons
      <3>3. CASE e \in batch /\ e.key \notin events /\ Allowed(e)
        <4>1. e \in Candidates(runs[s], batch)
          BY <3>3 DEF Candidates, KnownPlays, StremioKnows
        <4> QED
          BY <1>3, <2>2, <4>1 DEF ToCome, AtHand
      <3>4. CASE e \notin batch
        BY <1>3, <2>2, <3>4 DEF ToCome, AtHand
      <3> QED
        BY <3>1, <3>2, <3>3, <3>4
    <2> QED
      BY <1>2, <1>4, <2>1, <2>2 DEF ToCome, AtHand
  <1> QED
    BY <1>1, <1>4, AsOfFollows

\* What the commit does not record was recorded before, or failed.
LEMMA WriteAsOf ==
    ASSUME HistoryTypes, HistoryTypeOK', HistoryInv, Grows, provider = "simkl", NEW s \in Sessions, Write(s)
    PROVE  AsOfInv(s)'
  <1> USE DEF HistoryTypes
  <1>1. /\ Follows(runs'[s], runs[s], runs[s].parts, runs[s].left, {})
        /\ \E new \in SUBSET Fresh(runs[s].entries) : Commits(runs[s].entries, new)
    <2>1. PICK some \in SUBSET runs[s].entries :
              /\ provider = "simkl" => some = runs[s].entries
              /\ Follows(runs'[s], runs[s], runs[s].parts, runs[s].left, runs[s].entries \ some)
              /\ \E new \in SUBSET Fresh(some) : Commits(some, new)
      BY WriteIs
    <2>2. some = runs[s].entries /\ runs[s].entries \ some = {}
      BY <2>1
    <2> QED
      BY <2>1, <2>2
  <1> DEFINE es == runs[s].entries
  <1>2. PICK new \in SUBSET Fresh(es) : Commits(es, new)
    BY <1>1
  <1>3. /\ runs'[s].passed = runs[s].passed /\ runs'[s].since = runs[s].since /\ runs'[s].parts = runs[s].parts
        /\ runs'[s].left = runs[s].left
    BY <1>1 DEF Follows
  <1>4. ASSUME NEW n \in There, n \in Played, plays'[n].changed = plays[n].changed, PartOf(n)' = PartOf(n),
               plays[n].changed < runs[s].asOf, ToCome(s, n)
        PROVE  Handled(n)' \/ ToCome(s, n)'
    <2>1. CASE n \in runs[s].passed \/ (PartOf(n) \in runs[s].parts /\ plays[n].changed >= runs[s].since)
      BY <1>3, <1>4, <2>1 DEF ToCome
    <2>2. ASSUME NEW e \in runs[s].left, e.play = n PROVE ToCome(s, n)'
      BY <1>3, <2>2 DEF ToCome, AtHand
    <2>3. ASSUME NEW e \in es, e.play = n PROVE Handled(n)'
      <3>1. CASE e.key \in events
        <4>1. Handled(n)
          BY <2>3, <3>1, RecordedIsHandled DEF AtHand
        <4> QED
          BY <1>4, <4>1, HandledKept
      <3>2. CASE e \in new
        <4>1. e.key \in events'
          BY <1>2, <3>2 DEF Commits
        <4>2. EntryInv(s, e)
          BY <2>3 DEF HistoryInv, RunInv, AtHand
        <4>3. CASE n \in cause["undated"]
          <5>1. n \in cause'["undated"]
            BY <4>3 DEF Grows, Causes
          <5> QED
            BY <5>1 DEF Handled, Reasons
        <4>4. CASE e.key = Key(n) /\ plays[n].at # 0
          <5>1. Key(n)' = Key(n) /\ plays'[n].at = plays[n].at
            BY <1>4, KeyKept DEF Grows
          <5> QED
            BY <4>1, <4>4, <5>1 DEF Handled
        <4> QED
          BY <2>3, <4>2, <4>3, <4>4 DEF EntryInv
      <3>3. CASE e \in Fresh(es) \ new
        <4> DEFINE ns == {f.play : f \in Fresh(es) \ new}
        <4>1. cause' = Explain("failed", ns)
          BY <1>2, Zenon DEF Commits
        <4>2. n \in ns
          BY <2>3, <3>3
        <4> HIDE DEF ns
        <4>3. n \in cause'["failed"]
          BY <4>1, <4>2, TypeParts DEF Explain, Causes
        <4> QED
          BY <4>3 DEF Handled, Reasons
      <3> QED
        BY <2>3, <3>1, <3>2, <3>3 DEF Fresh
    <2> QED
      BY <1>4, <2>1, <2>2, <2>3 DEF ToCome, AtHand
  <1> QED
    BY <1>1, <1>4, AsOfFollows

ChangesAreKnown ==
    /\ \A n \in PlayId : plays[n].changed \in Nat
    /\ \A n \in There : n \in PlayId /\ PartOf(n) \in Category

LEMMA ChangesKnown == HistoryTypeOK => ChangesAreKnown
  <1> SUFFICES ASSUME HistoryTypeOK PROVE ChangesAreKnown
    OBVIOUS
  <1>1. Days \subseteq Nat
    BY ImportBoundAssumption DEF Days
  <1>2. \A n \in PlayId : plays[n].changed \in Nat
    BY <1>1, PlayType
  <1>3. \A n \in There : n \in PlayId /\ PartOf(n) \in Category
    BY PartIs DEF There
  <1> QED
    BY <1>2, <1>3 DEF ChangesAreKnown

LEMMA ChangesKnownAfter == HistoryTypeOK' => ChangesAreKnown'
  BY ChangesKnown, PTL

LEMMA LatestChanges ==
    ASSUME HistoryTypeOK'
    PROVE  /\ \A n \in PlayId : plays'[n].changed \in Nat
           /\ \A n \in There' : n \in PlayId /\ PartOf(n)' \in Category
  BY ChangesKnownAfter DEF ChangesAreKnown

\* A run that is over.
LEMMA OverAsOf ==
    ASSUME HistoryTypes, HistoryTypeOK', Grows, NEW s \in Sessions, runs'[s] = NoImport
    PROVE  AsOfInv(s)'
  <1>1. runs'[s].asOf = 0 /\ \A c \in Category : runs'[s].acts[c] = 0
    BY NoImportTyped
  <1>2. ASSUME NEW n \in There' PROVE ~(plays'[n].changed < 0)
    <2>1. plays'[n].changed \in Nat
      BY LatestChanges DEF There
    <2> QED
      BY <2>1
  <1> QED
    BY <1>1, <1>2, DaysAre DEF AsOfInv

LEMMA AsOfNext ==
    ASSUME HistoryTypes, HistoryTypeOK', HistoryInv, Grows, HistoryNext, provider = "simkl"
    PROVE  \A s \in Sessions : AsOfInv(s)'
  <1> SUFFICES ASSUME NEW s \in Sessions PROVE AsOfInv(s)'
    OBVIOUS
  <1>0. AsOfInv(s) /\ runs \in [Sessions -> RunRecord]
    BY TypeParts DEF HistoryInv, CursorInv, HistoryTypes
  <1>1. runs'[s] = runs[s] => AsOfInv(s)'
    BY <1>0, AsOfKept
  <1>2. ASSUME NEW u \in Sessions, u # s,
               \/ BeginImport(u) \/ Ask(u) \/ AskInVain(u) \/ Fetch(u) \/ Read(u) \/ Write(u)
               \/ FinishImport(u) \/ Abort(u)
        PROVE  AsOfInv(s)'
    <2>1. CASE Ask(u) \/ AskInVain(u) \/ Fetch(u) \/ Read(u) \/ Write(u)
      <3>1. runs'[s] = runs[s]
        BY <1>2, <2>1, AskIs, FetchIs, ReadIs, WriteIs DEF HistoryTypes
      <3> QED
        BY <1>1, <3>1
    <2>2. CASE BeginImport(u) \/ FinishImport(u) \/ Abort(u)
      <3>1. runs'[s] = runs[s]
        BY <1>0, <1>2, <2>2 DEF BeginImport, FinishImport, Abort
      <3> QED
        BY <1>1, <3>1
    <2> QED
      BY <1>2, <2>1, <2>2
  <1>3. ASSUME \/ BeginImport(s) \/ Ask(s) \/ AskInVain(s) \/ Fetch(s) \/ Read(s) \/ Write(s)
               \/ FinishImport(s) \/ Abort(s)
        PROVE  AsOfInv(s)'
    <2>1. ~BeginImport(s)
      BY DEF BeginImport
    <2>2. CASE FinishImport(s) \/ Abort(s)
      <3>1. runs'[s] = NoImport
        BY <1>0, <2>2 DEF FinishImport, Abort
      <3> QED
        BY <3>1, OverAsOf
    <2> QED
      BY <1>3, <2>1, <2>2, AskAsOf, FetchAsOf, ReadAsOf, WriteAsOf
  <1>4. ASSUME NEW t \in Titles, (\E at \in Days : Play(t, at)) \/ AddAndPush(t) \/ Unplayed(t) \/ Blacklist(t)
        PROVE  AsOfInv(s)'
    BY <1>1, <1>4 DEF Play, AddAndPush, Unplayed, Blacklist
  <1>5. ASSUME NEW w \in WatchId, DeleteItem(w) PROVE AsOfInv(s)'
    BY <1>1, <1>5 DEF DeleteItem
  <1>6. ASSUME DayPasses \/ ClearAll \/ Forget PROVE AsOfInv(s)'
    BY <1>1, <1>6 DEF DayPasses, ClearAll, Forget
  <1> QED
    BY HistorySteps, <1>2, <1>3, <1>4, <1>5, <1>6

LEMMA ReachedBefore ==
    ASSUME HistoryTypes, HistoryTypeOK', HistoryInv, Grows, provider = "simkl",
           cursor' = cursor, seen' = seen, NEW n \in There', Reached(n)'
    PROVE  Handled(n)'
  <1>1. PartOf(n)' \in Category
    BY LatestChanges
  <1>2. cursor \in Nat /\ cursor <= day /\ seen[PartOf(n)'] \in Nat /\ seen[PartOf(n)'] <= day
    BY <1>1, DaysAre DEF HistoryInv, CursorInv
  <1>3. plays'[n].changed < cursor \/ plays'[n].changed < seen[PartOf(n)']
    BY DEF Reached
  <1>4. n \in There /\ n \in Played /\ plays'[n].changed = plays[n].changed /\ PartOf(n)' = PartOf(n)
    BY <1>2, <1>3, ThereBefore
  <1>5. Reached(n)
    BY <1>3, <1>4 DEF Reached
  <1>6. Handled(n)
    BY <1>4, <1>5 DEF HistoryInv, CursorInv
  <1> QED
    BY <1>4, <1>6, HandledKept

\* What a run has done when it ends: nothing is to come.
LEMMA DoneIsHandled ==
    ASSUME HistoryTypes, HistoryTypeOK', HistoryInv, Grows, provider = "simkl", NEW s \in Sessions, FinishImport(s),
           NEW n \in There', plays'[n].changed < runs[s].asOf
    PROVE  Handled(n)'
  <1> USE DEF HistoryTypes
  <1>1. AsOfInv(s) /\ RunInv(s) /\ runs[s].step = "finish" /\ runs[s].asOf \in Nat
    BY DaysAre DEF HistoryInv, CursorInv, FinishImport
  <1>2. n \in There /\ n \in Played /\ plays[n].changed < runs[s].asOf
    BY <1>1, ThereBefore DEF AsOfInv
  <1>3. runs[s].parts = {} /\ AtHand(s) = {}
    BY <1>1 DEF RunInv, AtHand
  <1>4. Handled(n) \/ n \in runs[s].passed
    BY <1>1, <1>2, <1>3 DEF AsOfInv, ToCome
  <1>5. ASSUME n \in runs[s].passed PROVE Handled(n)'
    <2>1. n \in cause'[runs[s].why] /\ runs[s].why \in Reasons
      BY <1>5, FinishTyped DEF Reasons
    <2> QED
      BY <2>1 DEF Handled
  <1> QED
    BY <1>2, <1>4, <1>5, HandledKept

LEMMA CursorInvNext ==
    ASSUME HistoryTypes, HistoryTypeOK', HistoryInv, Grows, HistoryNext
    PROVE  CursorInv'
  <1> SUFFICES ASSUME provider = "simkl" PROVE CursorInv'
    BY DaysAre DEF CursorInv
  <1>0. \A s \in Sessions : AsOfInv(s)'
    BY AsOfNext
  <1>1. ASSUME cursor' = cursor, seen' = seen PROVE CursorInv'
    <2>1. cursor' <= day' /\ \A c \in Category : seen'[c] <= day'
      BY <1>1, DaysAre DEF HistoryInv, CursorInv
    <2>2. ASSUME NEW n \in There', Reached(n)' PROVE Handled(n)'
      BY <1>1, <2>2, ReachedBefore
    <2> QED
      BY <1>0, <2>1, <2>2 DEF CursorInv
  <1>2. ASSUME NEW s \in Sessions, FinishImport(s) PROVE CursorInv'
    <2>1. AsOfInv(s) /\ runs[s].asOf \in Nat /\ \A c \in Category : runs[s].acts[c] \in Nat
      BY DaysAre DEF HistoryInv, CursorInv
    <2>2. cursor' = IF runs[s].asOf > 0 THEN runs[s].asOf ELSE cursor
      BY <1>2 DEF FinishImport, CursorAfter
    <2>3. \A c \in Category : seen'[c] = IF runs[s].acts[c] > 0 THEN runs[s].acts[c] ELSE seen[c]
      BY <1>2 DEF FinishImport, SeenAfter
    <2>4. cursor <= day /\ \A c \in Category : seen[c] <= day /\ runs[s].acts[c] <= runs[s].asOf
      BY <2>1 DEF HistoryInv, CursorInv, AsOfInv
    <2>5. cursor' <= day' /\ \A c \in Category : seen'[c] <= day'
      BY <2>1, <2>2, <2>3, <2>4, DaysAre DEF AsOfInv
    <2>6. ASSUME NEW n \in There', Reached(n)' PROVE Handled(n)'
      <3>1. PartOf(n)' \in Category /\ plays'[n].changed \in Nat
        BY LatestChanges
      <3>2. CASE plays'[n].changed < runs[s].asOf
        BY <1>2, <3>2, DoneIsHandled
      <3>3. CASE ~(plays'[n].changed < runs[s].asOf)
        <4>1. plays'[n].changed < cursor \/ plays'[n].changed < seen[PartOf(n)']
          BY <2>1, <2>2, <2>3, <2>4, <2>6, <3>1, <3>3 DEF Reached
        <4>2. /\ n \in There /\ n \in Played
              /\ plays'[n].changed = plays[n].changed /\ PartOf(n)' = PartOf(n)
          BY <2>4, <3>1, <4>1, ThereBefore, DaysAre
        <4>3. Reached(n)
          BY <4>1, <4>2 DEF Reached
        <4>4. Handled(n)
          BY <4>2, <4>3 DEF HistoryInv, CursorInv
        <4> QED
          BY <4>2, <4>4, HandledKept
      <3> QED
        BY <3>2, <3>3
    <2> QED
      BY <1>0, <2>5, <2>6 DEF CursorInv
  <1>3. ASSUME ~\E s \in Sessions : FinishImport(s) PROVE cursor' = cursor /\ seen' = seen
    <2>1. ASSUME NEW s \in Sessions,
                 BeginImport(s) \/ Ask(s) \/ AskInVain(s) \/ Fetch(s) \/ Read(s) \/ Write(s) \/ Abort(s)
          PROVE  cursor' = cursor /\ seen' = seen
      BY <2>1 DEF BeginImport, Ask, AskInVain, Fetch, Read, Write, Abort
    <2>2. ASSUME NEW t \in Titles, (\E at \in Days : Play(t, at)) \/ AddAndPush(t) \/ Unplayed(t) \/ Blacklist(t)
          PROVE  cursor' = cursor /\ seen' = seen
      BY <2>2 DEF Play, AddAndPush, Unplayed, Blacklist
    <2>3. ASSUME (\E w \in WatchId : DeleteItem(w)) \/ DayPasses \/ ClearAll \/ Forget
          PROVE  cursor' = cursor /\ seen' = seen
      BY <2>3 DEF DeleteItem, DayPasses, ClearAll, Forget
    <2> QED
      BY HistorySteps, <1>3, <2>1, <2>2, <2>3
  <1> QED
    BY <1>1, <1>2, <1>3

\* Items that stay are of different plays, or of one that is excused.
LEMMA OnceKept ==
    ASSUME HistoryTypes, HistoryTypeOK', HistoryInv, Grows, NEW w \in Local', NEW v \in Local', w # v,
           items'[w] = items[w], items'[v] = items[v], items'[w].origin = items'[v].origin
    PROVE  items'[w].origin \in Excused'
  <1> DEFINE n == items[w].origin
  <1>1. w \in Local /\ v \in Local /\ ItemInv(w)
    BY DEF Local, HistoryInv
  <1>2. n \in Excused
    BY <1>1 DEF HistoryInv, ImportedOnce, Excused
  <1>3. n \in Played
    BY <1>1 DEF ItemInv, Local
  <1>4. ASSUME NEW m, m = n PROVE m \in Excused'
    BY <1>2, <1>3, <1>4, ExcusedKept
  <1> QED
    BY <1>4

\* A commit finds no item of its entry's play, but for one that is excused.
LEMMA OnceChecked ==
    ASSUME HistoryTypes, HistoryTypeOK', HistoryInv, Grows, NEW s \in Sessions, 
           NEW some \in SUBSET runs[s].entries, NEW e \in Fresh(some), NEW v \in Local', items'[v] = items[v], items'[v].origin = e.play
    PROVE  e.play \in Excused'
  <1>1. v \in Local /\ items[v].origin = e.play
    BY DEF Local
  <1>2. e \in runs[s].entries /\ e.key \notin events
    BY DEF Fresh
  <1>3. CheckedInv(e) /\ EntryInv(s, e)
    BY <1>2 DEF HistoryInv, RunInv, AtHand
  <1>4. e.play \in Excused /\ e.play \in Played
    BY <1>1, <1>2, <1>3 DEF CheckedInv, EntryInv
  <1> QED
    BY <1>4, ExcusedKept

LEMMA OnceWritten ==
    ASSUME HistoryTypes, HistoryTypeOK', HistoryInv, Grows, NEW s \in Sessions, Write(s),
           NEW w \in Local', NEW v \in Local', w # v, items'[w].origin = items'[v].origin
    PROVE  items'[w].origin \in Excused'
  <1> USE DEF HistoryTypes
  <1>0. PICK some \in SUBSET runs[s].entries : \E new \in SUBSET Fresh(some) : Commits(some, new)
    BY WriteIs
  <1>1. PICK new \in SUBSET Fresh(some) : Commits(some, new)
    BY <1>0
  <1>2. w \in WatchId /\ v \in WatchId
    BY DEF Local
  <1> DEFINE Place(u, e) == u = total.items + Cardinality({f \in new : f.play <= e.play})
  <1>3. ASSUME NEW u \in WatchId
        PROVE  \/ items'[u] = items[u]
               \/ \E e \in new : Place(u, e) /\ items'[u].origin = e.play
    <2>1. \/ items'[u] = items[u]
          \/ \E e \in new : Place(u, e) /\ items'[u] = ItemOf(e)
      BY <1>1, ImportedIs DEF Commits
    <2>2. \A e \in new : ItemOf(e).origin = e.play
      BY DEF ItemOf
    <2> HIDE DEF Place
    <2> QED
      BY <2>1, <2>2
  <1>4. CASE items'[w] = items[w] /\ items'[v] = items[v]
    BY <1>4, OnceKept
  <1>5. CASE items'[w] # items[w] /\ items'[v] = items[v]
    <2>1. PICK e \in new : items'[w].origin = e.play
      BY <1>2, <1>3, <1>5
    <2>2. e.play \in Excused'
      BY <1>5, <2>1, OnceChecked
    <2> QED
      BY <2>1, <2>2
  <1>6. CASE items'[w] = items[w] /\ items'[v] # items[v]
    <2>1. PICK e \in new : items'[v].origin = e.play
      BY <1>2, <1>3, <1>6
    <2>2. e.play \in Excused'
      BY <1>6, <2>1, OnceChecked
    <2> QED
      BY <2>1, <2>2
  <1>7. CASE items'[w] # items[w] /\ items'[v] # items[v]
    <2>1. PICK e \in new : Place(w, e) /\ items'[w].origin = e.play
      BY <1>2, <1>3, <1>7
    <2>2. PICK f \in new : Place(v, f) /\ items'[v].origin = f.play
      BY <1>2, <1>3, <1>7
    <2>3. e \in AtHand(s) /\ f \in AtHand(s)
      BY DEF Fresh, AtHand
    <2>4. e = f
      BY <2>1, <2>2, <2>3 DEF HistoryInv, RunInv, EntryInv
    <2> QED
      BY <2>1, <2>2, <2>4
  <1> QED
    BY <1>4, <1>5, <1>6, <1>7

LEMMA OncePushed ==
    ASSUME HistoryTypes, HistoryTypeOK', HistoryInv, Grows, NEW t \in Titles, AddAndPush(t),
           NEW w \in Local', NEW v \in Local', w # v, items'[w].origin = items'[v].origin
    PROVE  items'[w].origin \in Excused'
  <1> USE DEF HistoryTypes
  <1> DEFINE n == total.plays + 1
  <1>1. w \in WatchId /\ v \in WatchId /\ items'[w] # NoItem /\ items'[v] # NoItem
    BY DEF Local
  <1>2. n \notin Played
    <2>1. total.plays \in Nat
      BY TotalParts, TypeParts
    <2> QED
      BY <2>1 DEF Played
  <1>3. ASSUME NEW u \in WatchId PROVE \/ items'[u] = items[u] /\ u # total.items + 1
                                       \/ items'[u].origin = n /\ u = total.items + 1
    BY TypeParts DEF AddAndPush
  <1>4. ASSUME NEW u \in WatchId, items'[u] = items[u], items'[u] # NoItem PROVE items'[u].origin # n
    BY <1>2, <1>4 DEF HistoryInv, ItemInv
  <1> HIDE DEF n
  <1>5. items'[w] = items[w] /\ items'[v] = items[v]
    BY <1>1, <1>3, <1>4
  <1> QED
    BY <1>5, OnceKept

LEMMA ImportedOnceNext ==
    ASSUME HistoryTypes, HistoryTypeOK', HistoryInv, Grows, HistoryNext
    PROVE  ImportedOnce'
  <1> SUFFICES ASSUME NEW w \in Local', NEW v \in Local', w # v, items'[w].origin = items'[v].origin
               PROVE  items'[w].origin \in Excused'
    BY DEF ImportedOnce, Excused
  <1>1. w \in WatchId /\ v \in WatchId /\ items'[w] # NoItem /\ items'[v] # NoItem
    BY DEF Local
  <1>2. ASSUME \A u \in WatchId : items'[u] \in {items[u], NoItem}
        PROVE  items'[w].origin \in Excused'
    BY <1>1, <1>2, OnceKept
  <1>3. ASSUME NEW s \in Sessions, \/ BeginImport(s) \/ Ask(s) \/ AskInVain(s) \/ Fetch(s) \/ Read(s) \/ FinishImport(s) \/ Abort(s)
        PROVE  items'[w].origin \in Excused'
    BY <1>2, <1>3 DEF BeginImport, Ask, AskInVain, Fetch, Read, FinishImport, Abort
  <1>4. ASSUME NEW s \in Sessions, Write(s) PROVE items'[w].origin \in Excused'
    BY <1>4, OnceWritten
  <1>5. ASSUME NEW t \in Titles, AddAndPush(t) PROVE items'[w].origin \in Excused'
    BY <1>5, OncePushed
  <1>6. ASSUME NEW t \in Titles, \E at \in Days : Play(t, at) PROVE items'[w].origin \in Excused'
    BY <1>2, <1>6 DEF Play
  <1>7. ASSUME \/ \E t \in Titles : Unplayed(t) \/ Blacklist(t)
               \/ \E u \in WatchId : DeleteItem(u)
               \/ DayPasses \/ ClearAll \/ Forget
        PROVE  items'[w].origin \in Excused'
    <2>1. \A u \in WatchId : items'[u] \in {items[u], NoItem}
      BY <1>7 DEF Unplayed, Blacklist, DeleteItem, DayPasses, ClearAll, Forget, ItemsWithout
    <2> QED
      BY <1>2, <2>1
  <1> QED
    BY HistorySteps, <1>3, <1>4, <1>5, <1>6, <1>7

LEMMA HistoryTypesInit == HistoryInit => HistoryTypes
  <1>1. HistoryInit => FiniteEntries
    <2>1. IsFiniteSet(NoImport.left \cup NoImport.entries)
      BY FS_EmptySet, NoImportTyped
    <2> QED
      BY <2>1 DEF HistoryInit, FiniteEntries, AtHand
  <1> QED
    BY <1>1, HistoryTypeInit DEF HistoryTypes

LEMMA HistoryInvInit == HistoryInit => HistoryInv
  <1> SUFFICES ASSUME HistoryInit PROVE HistoryInv
    OBVIOUS
  <1>1. Played = {} /\ There = {} /\ Local = {}
    <2>1. NoPlay.there = FALSE
      BY DEF NoPlay
    <2> QED
      BY <2>1 DEF HistoryInit, Played, There, Local
  <1>2. \A n \in PlayId : PlayInv(n) /\ DeletedInv(n)
    BY <1>1 DEF HistoryInit, PlayInv, DeletedInv
  <1>3. \A w \in WatchId : ItemInv(w)
    BY DEF HistoryInit, ItemInv
  <1>4. \A s \in Sessions : RunInv(s) /\ AsOfInv(s)
    <2>1. \A s \in Sessions : RunInv(s)
      BY NoImportTyped DEF HistoryInit, RunInv, AtHand
    <2>2. \A s \in Sessions : AsOfInv(s)
      BY <1>1, NoImportTyped DEF HistoryInit, AsOfInv
    <2> QED
      BY <2>1, <2>2
  <1>5. \A t \in Titles : ClearedInv(t)
    BY DEF HistoryInit, ClearedInv
  <1>6. ClearIsKept /\ ImportedOnce
    BY <1>1 DEF ClearIsKept, ImportedOnce
  <1>7. CursorInv
    BY <1>1, <1>4 DEF CursorInv, HistoryInit
  <1> QED
    BY <1>2, <1>3, <1>4, <1>5, <1>6, <1>7 DEF HistoryInv

LEMMA HistoryInvNext ==
    HistoryTypes /\ HistoryInv /\ [HistoryNext]_historyVars => HistoryInv'
  <1>1. ASSUME HistoryTypes, HistoryInv, HistoryNext PROVE HistoryInv'
    <2>1. HistoryTypeOK'
      BY <1>1, HistoryTypesNext DEF HistoryTypes
    <2>2. Grows /\ NewItems /\ NotedClears
      BY <1>1, <2>1, StepGrows
    <2>3. (\A n \in PlayId : PlayInv(n)') /\ (\A n \in PlayId : DeletedInv(n)')
      BY <1>1, <2>1, <2>2, PlayInvNext, DeletedInvNext
    <2>4. (\A w \in WatchId : ItemInv(w)') /\ (\A s \in Sessions : RunInv(s)')
      BY <1>1, <2>1, <2>2, ItemInvNext, RunInvNext
    <2>5. (\A t \in Titles : ClearedInv(t)') /\ ClearIsKept' /\ ImportedOnce' /\ CursorInv'
      BY <1>1, <2>1, <2>2, ClearedNext, ImportedOnceNext, CursorInvNext
    <2> QED
      BY <2>3, <2>4, <2>5 DEF HistoryInv
  <1>2. ASSUME HistoryTypes, HistoryInv, UNCHANGED historyVars PROVE HistoryInv'
    <2>1. UNCHANGED <<provider, day, plays, items, events, cleared, black, cursor, seen, runs, cause, deleted, total>>
      BY <1>2 DEF historyVars
    <2>2. HistoryTypeOK /\ HistoryTypeOK' /\ day <= day
      BY <1>2, HistoryTypesNext, TypeParts DEF HistoryTypes
    <2>3. Grows /\ NewItems /\ NotedClears
      <3>1. Grows
        BY <1>2, <2>1, <2>2, GrowsSame DEF HistoryInv
      <3> QED
        BY <2>1, <3>1 DEF NewItems, NotedClears
    <2>4. \A n \in PlayId : PlayInv(n)'
      BY <1>2, <2>2, <2>3, PlayInvNext
    <2>5. \A n \in PlayId : DeletedInv(n)'
      <3> SUFFICES ASSUME NEW n \in PlayId PROVE DeletedInv(n)'
        OBVIOUS
      <3>1. Key(n)' = Key(n) /\ Played' = Played
        BY <2>1 DEF Key, EntryOf, TraktEntry, LetterboxdEntry, PublicMetaDbEntry, AniListEntry, SimklEntry,
                    StremioEntry, ByDay, ById, Dated, Played
      <3> QED
        BY <1>2, <2>1, <3>1 DEF HistoryInv, DeletedInv
    <2>6. \A w \in WatchId : ItemInv(w)'
      BY <1>2, <2>1, <2>2, <2>3, ItemKept DEF HistoryInv
    <2>7. \A s \in Sessions : RunInv(s)'
      BY <1>2, <2>1, <2>2, <2>3, RunKept DEF HistoryInv
    <2>8. \A t \in Titles : ClearedInv(t)'
      BY <1>2, <2>1 DEF HistoryInv, ClearedInv
    <2>9. ClearIsKept' /\ ImportedOnce'
      BY <1>2, <2>1 DEF HistoryInv, ClearIsKept, ImportedOnce, Local, Echoed
    <2>10. CursorInv'
      <3>1. ASSUME NEW n \in There', Reached(n)', provider = "simkl" PROVE Handled(n)'
        BY <1>2, <2>1, <2>2, <2>3, <3>1, ReachedBefore
      <3>2. ASSUME NEW s \in Sessions, provider = "simkl" PROVE AsOfInv(s)'
        BY <1>2, <2>1, <2>2, <2>3, <3>2, AsOfKept DEF HistoryInv, CursorInv
      <3> QED
        BY <1>2, <2>1, <3>1, <3>2 DEF HistoryInv, CursorInv
    <2> QED
      BY <2>4, <2>5, <2>6, <2>7, <2>8, <2>9, <2>10 DEF HistoryInv
  <1> QED
    BY <1>1, <1>2

\* The type invariant of the imports holds for every provider, title and bound.
THEOREM HistoryTypesHold == HistorySpec => []HistoryTypeOK
  <1>1. HistorySpec => []HistoryTypes
    BY HistoryTypesInit, HistoryTypesNext, PTL DEF HistorySpec
  <1>2. HistoryTypes => HistoryTypeOK
    BY DEF HistoryTypes
  <1> QED
    BY <1>1, <1>2, PTL

LEMMA HistoryInvHolds == HistorySpec => [](HistoryTypes /\ HistoryInv)
  <1>1. HistoryTypes /\ HistoryInv /\ [HistoryNext]_historyVars => (HistoryTypes /\ HistoryInv)'
    BY HistoryTypesNext, HistoryInvNext
  <1>2. HistoryInit => HistoryTypes /\ HistoryInv
    BY HistoryTypesInit, HistoryInvInit
  <1> QED
    BY <1>1, <1>2, PTL DEF HistorySpec

\* Runs that overlap, follow each other or crash never turn one play into two watches, unless
\* that is excused: by a push that the importer does not know for its own, by events that the
\* user had forgotten, or by a play without a date.
THEOREM PlaysImportedOnce == HistorySpec => []ImportedOnce
  <1>1. HistoryInv => ImportedOnce
    BY DEF HistoryInv
  <1> QED
    BY <1>1, HistoryInvHolds, PTL

\* What Simkl reported before the cursor, or its category's, has been imported, whatever part
\* of which run failed, died or overlapped another, or there is one of the reasons why not.
THEOREM CursorLosesNothing == HistorySpec => []CursorMissesNothing
  <1>1. HistoryInv => CursorMissesNothing
    BY DEF HistoryInv, CursorInv, Handled, Reasons, Key, CursorMissesNothing
  <1> QED
    BY <1>1, HistoryInvHolds, PTL

\* A step makes no item of a play whose item was deleted, unless the play is excused.
LEMMA NothingComesBack ==
    ASSUME HistoryTypes, HistoryInv, HistoryNext, NEW w \in WatchId, items[w] = NoItem, items'[w] # NoItem
    PROVE  items'[w].origin \notin deleted \ (cause["pushed"] \cup cause["forgotten"] \cup cause["undated"])
  <1> USE DEF HistoryTypes
  <1>1. ASSUME NEW s \in Sessions, \/ BeginImport(s) \/ Ask(s) \/ AskInVain(s) \/ Fetch(s) \/ Read(s) \/ FinishImport(s) \/ Abort(s)
        PROVE  FALSE
    BY <1>1 DEF BeginImport, Ask, AskInVain, Fetch, Read, FinishImport, Abort
  <1>2. ASSUME NEW n \in deleted
        PROVE  /\ n \in Played
               /\ n \in cause["pushed"] \cup cause["forgotten"] \cup cause["undated"] \/ Key(n) \in events
    BY TypeParts DEF HistoryInv, DeletedInv
  <1>3. ASSUME NEW s \in Sessions, Write(s)
        PROVE  items'[w].origin \notin deleted \ (cause["pushed"] \cup cause["forgotten"] \cup cause["undated"])
    <2>0. PICK some \in SUBSET runs[s].entries : \E new \in SUBSET Fresh(some) : Commits(some, new)
      BY <1>3, WriteIs
    <2>1. PICK new \in SUBSET Fresh(some) : Commits(some, new)
      BY <2>0
    <2>2. PICK e \in new : items'[w] = ItemOf(e)
      BY <2>1, ImportedIs DEF Commits
    <2>3. ItemOf(e).origin = e.play
      BY DEF ItemOf
    <2>4. e.key \notin events /\ EntryInv(s, e)
      BY <2>2 DEF Fresh, AtHand, HistoryInv, RunInv
    <2>5. e.key = Key(e.play) \/ e.play \in cause["undated"]
      BY <2>4 DEF EntryInv
    <2> QED
      BY <1>2, <2>2, <2>3, <2>4, <2>5
  <1>4. ASSUME NEW t \in Titles, AddAndPush(t)
        PROVE  items'[w].origin \notin deleted
    <2> DEFINE n == total.plays + 1
               i == [title |-> t, day |-> day, origin |-> n, ext |-> n]
    <2>1. items'[w] = i
      BY <1>4, TypeParts DEF AddAndPush
    <2>2. i.origin = n
      OBVIOUS
    <2>3. n \notin Played
      BY TotalParts, TypeParts DEF Played
    <2> HIDE DEF i, n
    <2> QED
      BY <1>2, <2>1, <2>2, <2>3
  <1>5. ASSUME NEW t \in Titles, \E at \in Days : Play(t, at) PROVE FALSE
    BY <1>5 DEF Play
  <1>6. ASSUME \/ \E t \in Titles : Unplayed(t) \/ Blacklist(t)
               \/ \E v \in WatchId : DeleteItem(v)
               \/ DayPasses \/ ClearAll \/ Forget
        PROVE  FALSE
    <2>1. items'[w] \in {items[w], NoItem}
      BY <1>6 DEF Unplayed, Blacklist, DeleteItem, DayPasses, ClearAll, Forget, ItemsWithout
    <2> QED
      BY <2>1
  <1> QED
    BY HistorySteps, <1>1, <1>3, <1>4, <1>5, <1>6

\* A run that read before a clear and writes after it is the only one whose watches the clear
\* does not reach, and what was deleted comes back only where the import cannot know it.
THEOREM RemovalsLast == HistorySpec => RemovedStaysRemoved
  <1>1. HistoryTypes /\ HistoryInv /\ [HistoryNext]_historyVars =>
            [/\ ClearIsKept'
             /\ \A w \in WatchId : items[w] = NoItem /\ items'[w] # NoItem =>
                    items'[w].origin \notin deleted
                        \ (cause["pushed"] \cup cause["forgotten"] \cup cause["undated"])]_historyVars
    <2>1. HistoryTypes /\ HistoryInv /\ [HistoryNext]_historyVars => ClearIsKept'
      <3>1. HistoryInv' => ClearIsKept'
        BY DEF HistoryInv
      <3> QED
        BY <3>1, HistoryInvNext
    <2> QED
      BY <2>1, NothingComesBack
  <1> QED
    BY <1>1, HistoryInvHolds, PTL DEF HistorySpec, RemovedStaysRemoved

=============================================================================
