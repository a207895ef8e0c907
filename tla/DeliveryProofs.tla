---------------------------- MODULE DeliveryProofs ----------------------------
(***************************************************************************)
(* What the provider has of the title is what the history says, unless     *)
(* one of the gaps listed as causes was met (ProviderMirrorsHistory of     *)
(* Delivery.tla), for any watches, days, attempts and events.              *)
(***************************************************************************)
EXTENDS Delivery, FiniteSetTheorems, TLAPS

Step == {"check", "remove", "add", "move", "settle"}
Pushes(w) == Waits("push", w) \/ InHand("push", w)
Updates(w) == Waits("update", w) \/ InHand("update", w)
Removes(w) == Waits("remove", w) \/ InHand("remove", w)
Stored(x) == \E p \in plays : p.id = x

-----------------------------------------------------------------------------
(* What holds whatever happens.                                            *)

\* A waiting job has a day and an attempt left.
QueueOK ==
    /\ queue \in [Kind \X Watch -> Job]
    /\ \A kind \in Kind, w \in Watch :
          Waits(kind, w) => queue[kind, w].day \in Day /\ queue[kind, w].attempts < MaxAttempts

Deliveries == [kind : Kind, step : Step, found : Id, made : Id,
               jobs : UNION {[S -> Job] : S \in SUBSET Watch}]

\* Which requests each provider's handlers send.
Steps(kind, job) ==
    CASE kind = "push" -> {"add", "settle"} \cup (IF provider = "simkl" THEN {} ELSE {"check"})
      [] kind = "update" -> IF provider = "letterboxd" THEN {"move", "settle"}
                            ELSE IF provider = "simkl" THEN {"add", "settle"}
                            ELSE {"remove", "add", "settle"} \cup (IF job.play = 0 THEN {"check"} ELSE {})
      [] kind = "remove" -> {"remove", "settle"}
                            \cup (IF provider = "publicmetadb" /\ job.play = 0 THEN {"check"} ELSE {})

\* Only pushes of Trakt and SIMKL are sent together.
HandOK ==
    at # NoDelivery =>
        /\ at \in Deliveries
        /\ \A w \in DOMAIN at.jobs : /\ at.jobs[w].day \in Day /\ at.jobs[w].attempts >= 1
                                     /\ at.step \in Steps(at.kind, at.jobs[w])
                                     /\ at.step = "move" => at.found = at.jobs[w].play
        /\ \/ \E w \in Watch : DOMAIN at.jobs = {w}
           \/ /\ at.kind = "push" /\ at.step \in {"add", "settle"} /\ at.made = 0
              /\ provider \in {"trakt", "simkl"}

PlaysOK ==
    /\ plays \subseteq Play /\ made \in Id
    /\ \A p \in plays : p.id <= made
    /\ \A p, q \in plays : p.id = q.id => p = q
    /\ provider = "simkl" => \A p, q \in plays : p = q

\* From its addition to its deletion a watch meets its jobs in this order.
Lifecycle(w) ==
    /\ Live(w) => watch[w].day \in Day
    /\ watch[w].state # "live" => sync[w].status = "none"
    /\ sync[w].status = "none" => sync[w].play = 0 /\ ~Pushes(w) /\ ~Updates(w)
    /\ sync[w].status = "none" /\ watch[w].state # "gone" => Of(w) = {}
    /\ watch[w].state # "gone" => ~Removes(w)
    /\ provider = "letterboxd" /\ Updates(w) => sync[w].play # 0
    /\ \A kind \in {"push", "remove"} : InHand(kind, w) => ~Waits(kind, w)

Shape ==
    /\ provider \in Provider
    /\ watch \in [Watch -> [state : {"new", "live", "gone"}, day : Day \cup {0}]]
    /\ sync \in [Watch -> [status : Status, play : Id]]
    /\ cause \in [Watch -> SUBSET Cause]
    /\ events \in 0 .. MaxEvents
    /\ QueueOK /\ HandOK /\ PlaysOK

-----------------------------------------------------------------------------
(* A watch that went through no gap has one play.                          *)

Doubling ==
    IF provider = "letterboxd" THEN {"resynced", "swept"}
    ELSE {"forgotten", "batched", "unchecked", "resent", "overtaken",
          "coalesced", "abandoned", "raced", "reset", "resynced", "mistook", "swept"}
Calm(w) == cause[w] \cap Doubling = {}

\* A push is queued once, and is sent again only after a look for what it left.
PushIsFirst(w) ==
    /\ Pushes(w) => sync[w].play = 0
    /\ Waits("push", w) => \A p \in Of(w) : p.day = queue["push", w].day
    /\ InHand("push", w) => \A p \in Of(w) : p.day = at.jobs[w].day
    /\ InHand("push", w) /\ at.step = "add" => Of(w) = {}

LooksAgain(w) ==
    /\ Waits("push", w) /\ queue["push", w].attempts = 0 => Of(w) = {}
    /\ InHand("push", w) /\ at.step # "settle" /\ at.jobs[w].attempts = 1 => Of(w) = {}
    /\ InHand("push", w) /\ at.step = "settle" /\ at.made # 0 => Stored(at.made)

\* An update knows the play it moves by its id, and takes it away before it adds another.
KnowsPlay(w) ==
    /\ Waits("update", w) => queue["update", w].play \in {0, sync[w].play}
    /\ sync[w].play # 0 /\ ~(InHand("update", w) /\ at.step = "settle") => Of(w) = {} \/ Stored(sync[w].play)
    /\ InHand("update", w) =>
          /\ ~Waits("update", w) /\ ~Waits("push", w)
          /\ at.jobs[w].play \in {0, sync[w].play}
          /\ at.step = "remove" => at.found # 0 /\ (Of(w) = {} \/ Stored(at.found))
          /\ at.step = "add" => Of(w) = {}
          /\ at.step = "settle" => at.made # 0 /\ Stored(at.made)

\* Or by the day it has.
KnowsDay(w) ==
    /\ Live(w) /\ sync[w].play = 0 /\ ~Updates(w) =>
          /\ \A p \in Of(w) : p.day = watch[w].day
          /\ Waits("push", w) => queue["push", w].day = watch[w].day
          /\ InHand("push", w) => at.jobs[w].day = watch[w].day
    /\ Waits("update", w) /\ queue["update", w].play = 0 =>
          /\ \A p \in Of(w) : p.day \in {queue["update", w].was, queue["update", w].day}
          /\ Waits("push", w) => queue["push", w].day \in {queue["update", w].was, queue["update", w].day}
          /\ InHand("push", w) => at.jobs[w].day \in {queue["update", w].was, queue["update", w].day}
    /\ InHand("update", w) /\ at.jobs[w].play = 0 /\ at.step # "settle" =>
          \A p \in Of(w) : p.day \in {at.jobs[w].was, at.jobs[w].day}

OnePlay(w) ==
    Calm(w) =>
        /\ \A p, q \in Of(w) : p = q
        /\ provider # "simkl" => PushIsFirst(w)
        /\ provider \in {"trakt", "publicmetadb"} => LooksAgain(w) /\ KnowsPlay(w)
        /\ provider = "trakt" => KnowsDay(w)

-----------------------------------------------------------------------------
(* The latest job of a watch brings its day to the provider.               *)

Traceable(w) == cause[w] \cap {"early", "overtaken", "reset", "swept"} = {}
There(w, x) == \E p \in plays : (p.of = w \/ p.id = x) /\ p.day = watch[w].day

Tracked(w) ==
    Live(w) /\ Traceable(w) =>
        /\ Waits("update", w) => queue["update", w].day = watch[w].day
        /\ ~Waits("update", w) =>
              /\ Held(w) => at.jobs[w].day = watch[w].day
              /\ Waits("push", w) => queue["push", w].day = watch[w].day
              /\ Held(w) /\ at.step = "settle" => There(w, at.made)
              /\ sync[w].status = "succeeded" /\ ~Pushes(w) /\ ~Updates(w) => There(w, sync[w].play)

-----------------------------------------------------------------------------
(* The removal of a deleted watch knows what to remove.                    *)

Heard(w) == cause[w] \cap {"unheard", "refused", "swept"} = {}
Takes(w, x) == IF x = 0 THEN provider \in {"trakt", "simkl"} ELSE \A p \in Of(w) : p.id = x

Cleared(w) ==
    watch[w].state = "gone" /\ Heard(w) =>
        \/ Of(w) = {}
        \/ Waits("remove", w) /\ Takes(w, queue["remove", w].play)
        \/ /\ InHand("remove", w) /\ at.step = "remove"
           /\ at.found = at.jobs[w].play /\ Takes(w, at.found)

-----------------------------------------------------------------------------

InvOf(w) == Lifecycle(w) /\ OnePlay(w) /\ Tracked(w) /\ Cleared(w)
IInv == Shape /\ \A w \in Watch : InvOf(w)

-----------------------------------------------------------------------------
(* Facts about the operators.                                              *)

LEMMA KindFacts ==
  /\ Kind = {"push", "update", "remove"}
  /\ \A k \in Kind \X Watch : k[1] \in Kind /\ k[2] \in Watch /\ k = <<k[1], k[2]>>
BY DEF Kind

LEMMA Bounds == MaxAttempts \in Nat /\ 0 < MaxAttempts /\ 1 <= MaxAttempts /\ MaxPlays \in Nat /\ MaxEvents \in Nat
<1>1. MaxAttempts \in Nat /\ MaxAttempts # 0 /\ MaxPlays \in Nat /\ MaxEvents \in Nat
  BY DeliveryBounds
<1> QED BY <1>1

LEMMA NoJobFacts == NoJob.day = 0 /\ NoJob.was = 0 /\ NoJob.play = 0 /\ NoJob.attempts = 0
BY DEF NoJob

LEMMA OnlyOne == ASSUME NEW w PROVE Only([v \in {w} |-> 0]) = w /\ \A f : DOMAIN f = {w} => Only(f) = w
BY DEF Only

LEMMA NothingInHand == \A kind, w : at = NoDelivery => ~InHand(kind, w)
BY DEF NoDelivery, InHand

LEMMA NothingHeld == DOMAIN NoDelivery.jobs = {} /\ NoDelivery.kind = "none" /\ NoDelivery.step = "none"
BY DEF NoDelivery

\* The delivery in hand, one watch at a time.
LEMMA HandFacts ==
  ASSUME Shape, NEW w \in DOMAIN at.jobs
  PROVE  /\ at # NoDelivery /\ at \in Deliveries /\ w \in Watch
         /\ at.kind \in Kind /\ at.step \in Step
         /\ at.jobs[w] \in Job /\ at.jobs[w].day \in Day
         /\ at.jobs[w].attempts \in 1 .. MaxAttempts
         /\ at.step \in Steps(at.kind, at.jobs[w])
         /\ at.step = "move" => at.found = at.jobs[w].play
         /\ InHand(at.kind, w)
<1>1. at # NoDelivery
  BY NothingHeld
<1>2. at \in Deliveries /\ HandOK
  BY <1>1 DEF Shape, HandOK
<1>3. PICK S \in SUBSET Watch : at.jobs \in [S -> Job]
  BY <1>2 DEF Deliveries
<1>4. DOMAIN at.jobs = S /\ w \in Watch /\ at.jobs[w] \in Job
  BY <1>3
<1>5. at.jobs[w].attempts \in 0 .. MaxAttempts
  BY <1>4 DEF Job
<1>6. at.jobs[w].attempts \in 1 .. MaxAttempts
  BY <1>1, <1>2, <1>5, DeliveryBounds DEF HandOK
<1> QED BY <1>1, <1>2, <1>4, <1>6 DEF HandOK, Deliveries, InHand

\* A delivery is of one watch, or a batch of pushes.
LEMMA AloneOrBatch ==
  ASSUME Shape, NEW w \in DOMAIN at.jobs
  PROVE  \/ DOMAIN at.jobs = {w} /\ W = w /\ J = at.jobs[w] /\ Cardinality(DOMAIN at.jobs) = 1
         \/ /\ at.kind = "push" /\ at.step \in {"add", "settle"} /\ at.made = 0
            /\ provider \in {"trakt", "simkl"} /\ Cardinality(DOMAIN at.jobs) # 1
<1>1. at # NoDelivery /\ HandOK
  BY HandFacts DEF Shape
<1>2. CASE \E v \in Watch : DOMAIN at.jobs = {v}
  <2>1. DOMAIN at.jobs = {w}
    BY <1>2
  <2>2. W = w
    BY <2>1, OnlyOne DEF W
  <2> QED BY <2>1, <2>2, FS_Singleton DEF J
<1>3. CASE ~\E v \in Watch : DOMAIN at.jobs = {v}
  <2>1. \A v \in DOMAIN at.jobs : v \in Watch
    BY HandFacts
  <2>2. IsFiniteSet(DOMAIN at.jobs)
    BY <2>1, DataAssumption, FS_Subset
  <2>3. Cardinality(DOMAIN at.jobs) # 1
    BY <2>1, <2>2, <1>3, FS_Singleton
  <2> QED BY <1>1, <1>3, <2>3 DEF HandOK
<1> QED BY <1>2, <1>3

-----------------------------------------------------------------------------
(* A watch that a step is not about.                                       *)

\* Its rows stay.
SameRows(w) ==
    /\ provider' = provider /\ watch'[w] = watch[w] /\ sync'[w] = sync[w]
    /\ \A kind \in Kind : queue'[kind, w] = queue[kind, w]

\* So do its plays, or it is swept.
SamePlays(w) ==
    /\ cause[w] \subseteq cause'[w]
    /\ Of(w) = {} => Of(w)' = {}
    /\ \/ "swept" \in cause'[w]
       \/ Of(w)' = Of(w) /\ \A p \in plays : p.id = sync[w].play => p \in plays'

LEMMA SameJobs ==
  ASSUME NEW w \in Watch, SameRows(w)
  PROVE  /\ Waits("push", w)' <=> Waits("push", w)
         /\ Waits("update", w)' <=> Waits("update", w)
         /\ Waits("remove", w)' <=> Waits("remove", w)
         /\ queue'["push", w] = queue["push", w] /\ queue'["update", w] = queue["update", w]
         /\ queue'["remove", w] = queue["remove", w]
         /\ Live(w)' <=> Live(w)
BY KindFacts DEF SameRows, Waits, Live

\* A delivery is in hand, of another watch.
LEMMA Elsewhere ==
  ASSUME NEW w \in Watch, InvOf(w), SameRows(w), SamePlays(w),
         w \notin DOMAIN at.jobs, w \notin (DOMAIN at.jobs)'
  PROVE  InvOf(w)'
<1>1. \A kind : ~InHand(kind, w) /\ ~InHand(kind, w)'
  BY DEF InHand
<1>2. /\ Waits("push", w)' <=> Waits("push", w)
      /\ Waits("update", w)' <=> Waits("update", w)
      /\ Waits("remove", w)' <=> Waits("remove", w)
      /\ queue'["push", w] = queue["push", w] /\ queue'["update", w] = queue["update", w]
      /\ queue'["remove", w] = queue["remove", w]
      /\ Live(w)' <=> Live(w)
  BY SameJobs
<1>3. /\ Pushes(w)' <=> Pushes(w)
      /\ Updates(w)' <=> Updates(w)
      /\ Removes(w)' <=> Removes(w)
      /\ ~Held(w) /\ ~Held(w)'
  BY <1>1, <1>2 DEF Pushes, Updates, Removes, Held
<1>4. /\ provider' = provider /\ watch'[w] = watch[w] /\ sync'[w] = sync[w]
      /\ cause[w] \subseteq cause'[w] /\ (Of(w) = {} => Of(w)' = {})
  BY DEF SameRows, SamePlays
<1>5. "swept" \notin cause'[w] => /\ Of(w)' = Of(w)
                                 /\ \A p \in plays : p.id = sync[w].play => p \in plays'
  BY DEF SamePlays
<1>6. Lifecycle(w)'
  <2>1. Lifecycle(w)
    BY DEF InvOf
  <2> QED BY <2>1, <1>1, <1>2, <1>3, <1>4 DEF Lifecycle
<1>7. OnePlay(w)'
  <2>1. SUFFICES ASSUME Calm(w)' PROVE OnePlay(w)'
    BY DEF OnePlay
  <2>2. "swept" \notin cause'[w] /\ Calm(w)
    BY <2>1, <1>4 DEF Calm, Doubling
  <2>3. Of(w)' = Of(w) /\ (Stored(sync[w].play) => Stored(sync[w].play)')
    BY <1>4, <1>5, <2>2 DEF Stored
  <2>4. /\ \A p, q \in Of(w) : p = q
        /\ provider # "simkl" => PushIsFirst(w)
        /\ provider \in {"trakt", "publicmetadb"} => LooksAgain(w) /\ KnowsPlay(w)
        /\ provider = "trakt" => KnowsDay(w)
    BY <2>2 DEF InvOf, OnePlay
  <2>5. PushIsFirst(w) => PushIsFirst(w)'
    BY <1>1, <1>2, <1>3, <1>4, <2>3 DEF PushIsFirst
  <2>6. LooksAgain(w) => LooksAgain(w)'
    BY <1>1, <1>2, <1>3, <1>4, <2>3 DEF LooksAgain
  <2>7. KnowsPlay(w) => KnowsPlay(w)'
    BY <1>1, <1>2, <1>3, <1>4, <2>3 DEF KnowsPlay
  <2>8. KnowsDay(w) => KnowsDay(w)'
    BY <1>1, <1>2, <1>3, <1>4, <2>3 DEF KnowsDay
  <2> QED BY <1>4, <2>3, <2>4, <2>5, <2>6, <2>7, <2>8 DEF OnePlay
<1>8. Tracked(w)'
  <2>1. SUFFICES ASSUME Live(w)', Traceable(w)' PROVE Tracked(w)'
    BY DEF Tracked
  <2>2. "swept" \notin cause'[w] /\ Traceable(w) /\ Tracked(w)
    BY <2>1, <1>4 DEF Traceable, InvOf
  <2>3. There(w, sync[w].play) => There(w, sync[w].play)'
    BY <1>4, <1>5, <2>2 DEF There, Of
  <2> QED BY <1>1, <1>2, <1>3, <1>4, <2>1, <2>2, <2>3 DEF Tracked
<1>9. Cleared(w)'
  <2>1. SUFFICES ASSUME (watch[w].state = "gone")', Heard(w)' PROVE Cleared(w)'
    BY DEF Cleared
  <2>2. "swept" \notin cause'[w] /\ Heard(w) /\ Cleared(w)
    BY <2>1, <1>4 DEF Heard, InvOf
  <2>3. Of(w)' = Of(w)
    BY <1>5, <2>2
  <2> QED BY <1>1, <1>2, <1>4, <2>1, <2>2, <2>3 DEF Cleared, Takes
<1> QED BY <1>6, <1>7, <1>8, <1>9 DEF InvOf

\* A request of the user about another watch.
LEMMA Aside ==
  ASSUME NEW w \in Watch, InvOf(w), SameRows(w), at' = at, plays' = plays, cause'[w] = cause[w]
  PROVE  InvOf(w)'
<1>1. /\ Waits("push", w)' <=> Waits("push", w)
      /\ Waits("update", w)' <=> Waits("update", w)
      /\ Waits("remove", w)' <=> Waits("remove", w)
      /\ queue'["push", w] = queue["push", w] /\ queue'["update", w] = queue["update", w]
      /\ queue'["remove", w] = queue["remove", w]
      /\ Live(w)' <=> Live(w)
  BY SameJobs
<1>2. /\ InHand("push", w)' <=> InHand("push", w)
      /\ InHand("update", w)' <=> InHand("update", w)
      /\ InHand("remove", w)' <=> InHand("remove", w)
  BY DEF InHand
<1>3. /\ Pushes(w)' <=> Pushes(w)
      /\ Updates(w)' <=> Updates(w)
      /\ Removes(w)' <=> Removes(w)
      /\ Held(w)' <=> Held(w)
  BY <1>1, <1>2 DEF Pushes, Updates, Removes, Held
<1>4. /\ provider' = provider /\ watch'[w] = watch[w] /\ sync'[w] = sync[w] /\ Of(w)' = Of(w)
      /\ (Calm(w)' <=> Calm(w)) /\ (Traceable(w)' <=> Traceable(w)) /\ (Heard(w)' <=> Heard(w))
  BY DEF SameRows, Of, Calm, Doubling, Traceable, Heard
<1>5. Lifecycle(w)'
  <2>1. Lifecycle(w)
    BY DEF InvOf
  <2> QED BY <2>1, <1>1, <1>2, <1>3, <1>4 DEF Lifecycle
<1>6. OnePlay(w)'
  <2>1. OnePlay(w)
    BY DEF InvOf
  <2>5. PushIsFirst(w) => PushIsFirst(w)'
    BY <1>1, <1>2, <1>3, <1>4 DEF PushIsFirst
  <2>6. LooksAgain(w) => LooksAgain(w)'
    BY <1>1, <1>2, <1>3, <1>4 DEF LooksAgain, Stored
  <2>7. KnowsPlay(w) => KnowsPlay(w)'
    BY <1>1, <1>2, <1>3, <1>4 DEF KnowsPlay, Stored
  <2>8. KnowsDay(w) => KnowsDay(w)'
    BY <1>1, <1>2, <1>3, <1>4 DEF KnowsDay
  <2> QED BY <1>4, <2>1, <2>5, <2>6, <2>7, <2>8 DEF OnePlay
<1>7. Tracked(w)'
  <2>1. Tracked(w)
    BY DEF InvOf
  <2>2. There(w, sync[w].play)' <=> There(w, sync[w].play)
    BY <1>4 DEF There
  <2>3. There(w, at.made)' <=> There(w, at.made)
    BY <1>4 DEF There
  <2> QED BY <1>1, <1>2, <1>3, <1>4, <2>1, <2>2, <2>3 DEF Tracked
<1>8. Cleared(w)'
  <2>1. Cleared(w)
    BY DEF InvOf
  <2> QED BY <1>1, <1>2, <1>4, <2>1 DEF Cleared, Takes
<1> QED BY <1>5, <1>6, <1>7, <1>8 DEF InvOf

-----------------------------------------------------------------------------
(* Requests of the user.                                                   *)

LEMMA ShapeAside ==
  ASSUME Shape, provider' = provider, at' = at, plays' = plays, made' = made, QueueOK',
         watch' \in [Watch -> [state : {"new", "live", "gone"}, day : Day \cup {0}]],
         sync' \in [Watch -> [status : Status, play : Id]],
         cause' \in [Watch -> SUBSET Cause], events' \in 0 .. MaxEvents
  PROVE  Shape'
<1>1. HandOK'
  BY DEF Shape, HandOK, Steps
<1>2. PlaysOK'
  BY DEF Shape, PlaysOK
<1> QED BY <1>1, <1>2 DEF Shape

LEMMA BlameFacts ==
  ASSUME Shape, NEW S, NEW c \in Cause, cause' = Blame(S, c)
  PROVE  /\ cause' \in [Watch -> SUBSET Cause]
         /\ \A w \in Watch : /\ cause'[w] = IF w \in S THEN cause[w] \cup {c} ELSE cause[w]
                            /\ cause[w] \subseteq cause'[w]
BY DEF Blame, Shape

\* One watch is blamed.
Blamed(w, c) ==
    /\ cause' \in [Watch -> SUBSET Cause] /\ c \in cause'[w] /\ cause[w] \subseteq cause'[w]
    /\ \A v \in Watch \ {w} : cause'[v] = cause[v]

LEMMA BlameOne ==
  ASSUME Shape, NEW w \in Watch, NEW c \in Cause, cause' = Blame({w}, c)
  PROVE  Blamed(w, c)
BY DEF Blamed, Blame, Shape

LEMMA EventFacts == ASSUME Shape, Event PROVE events' \in 0 .. MaxEvents
BY DeliveryBounds DEF Event, Shape

\* A payload that is queued, unless its job is in flight.
QueuedAs(kind, w, day, was, play) ==
    \/ queue' = queue /\ InHand(kind, w) /\ ~Waits(kind, w) /\ kind # "update"
    \/ /\ Waits(kind, w) \/ ~InHand(kind, w) \/ kind = "update"
       /\ queue'[kind, w].day = day /\ queue'[kind, w].was = was /\ queue'[kind, w].play = play
       /\ queue'[kind, w].attempts = queue[kind, w].attempts

LEMMA EnqueuedFacts ==
  ASSUME Shape, NEW kind \in Kind, NEW w \in Watch, NEW day \in Day, NEW was \in Day \cup {0}, NEW play \in Id,
         queue' = Enqueued(kind, w, day, was, play)
  PROVE  /\ QueueOK' /\ QueuedAs(kind, w, day, was, play)
         /\ \A k \in Kind, v \in Watch : k # kind \/ v # w => queue'[k, v] = queue[k, v]
<1> DEFINE job == [day |-> day, was |-> was, play |-> play, attempts |-> queue[kind, w].attempts]
<1>1. QueueOK /\ <<kind, w>> \in Kind \X Watch
  BY DEF Shape
<1>2. queue[kind, w] \in Job /\ queue[kind, w].attempts < MaxAttempts
  <2>1. queue[kind, w] \in Job
    BY <1>1 DEF QueueOK
  <2>2. CASE Waits(kind, w)
    BY <1>1, <2>1, <2>2 DEF QueueOK
  <2>3. CASE ~Waits(kind, w)
    <3>1. queue[kind, w].attempts = 0
      BY <2>3, NoJobFacts DEF Waits
    <3> QED BY <3>1, <2>1, Bounds
  <2> QED BY <2>2, <2>3
<1>3. /\ job \in Job /\ job.day = day /\ job.was = was /\ job.play = play
      /\ job.attempts = queue[kind, w].attempts
  BY <1>2 DEF Job
<1>4. CASE InHand(kind, w) /\ ~Waits(kind, w) /\ kind # "update"
  <2>1. queue' = queue
    BY <1>4 DEF Enqueued
  <2> QED BY <2>1, <1>1, <1>4 DEF QueueOK, Waits, QueuedAs
<1>5. CASE ~(InHand(kind, w) /\ ~Waits(kind, w) /\ kind # "update")
  <2>1. queue' = [queue EXCEPT ![<<kind, w>>] = job]
    BY <1>5 DEF Enqueued
  <2> HIDE DEF job
  <2>2. queue' \in [Kind \X Watch -> Job] /\ queue'[kind, w] = job
    BY <2>1, <1>1, <1>3 DEF QueueOK
  <2>3. \A k \in Kind, v \in Watch : k # kind \/ v # w => queue'[k, v] = queue[k, v]
    BY <2>1, <1>1 DEF QueueOK
  <2>4. QueueOK'
    BY <2>2, <2>3, <1>1, <1>2, <1>3 DEF QueueOK, Waits
  <2> QED BY <2>2, <2>3, <2>4, <1>3, <1>5 DEF QueuedAs
<1> QED BY <1>4, <1>5

LEMMA EnqueueNewFacts ==
  ASSUME Shape, NEW w \in Watch, Live(w), watch[w].day \in Day, EnqueueNew(w)
  PROVE  /\ QueueOK' /\ sync' \in [Watch -> [status : Status, play : Id]]
         /\ \A v \in Watch \ {w} : sync'[v] = sync[v] /\ \A k \in Kind : queue'[k, v] = queue[k, v]
         /\ sync'[w].status \in {"assumed_tracked", "pending"} /\ sync'[w].play = sync[w].play
         /\ queue'["update", w] = queue["update", w] /\ queue'["remove", w] = queue["remove", w]
         /\ \/ queue'["push", w] = queue["push", w]
            \/ /\ Waits("push", w) \/ ~InHand("push", w)
               /\ queue'["push", w].day = watch[w].day
               /\ queue'["push", w].attempts = queue["push", w].attempts
         /\ Waits("push", w) /\ sync'[w].status = "pending" => queue'["push", w].day = watch[w].day
<1>1. sync \in [Watch -> [status : Status, play : Id]] /\ QueueOK
  BY DEF Shape
<1>2. CASE SameDaySynced(w)
  <2>1. sync' = [sync EXCEPT ![w].status = "assumed_tracked"] /\ queue' = queue
    BY <1>2 DEF EnqueueNew
  <2>2. sync' \in [Watch -> [status : Status, play : Id]] /\ sync'[w].status = "assumed_tracked"
        /\ sync'[w].play = sync[w].play /\ \A v \in Watch \ {w} : sync'[v] = sync[v]
    BY <2>1, <1>1 DEF Status
  <2>3. QueueOK'
    BY <2>1, <1>1 DEF QueueOK, Waits
  <2> QED BY <2>1, <2>2, <2>3
<1>3. CASE ~SameDaySynced(w)
  <2>1. sync' = [sync EXCEPT ![w].status = "pending"]
    BY <1>3 DEF EnqueueNew
  <2>7. queue' = Enqueued("push", w, watch[w].day, 0, 0)
    BY <1>3 DEF EnqueueNew
  <2>2. 0 \in Id /\ "push" \in Kind /\ 0 \in Day \cup {0} /\ "push" # "update"
    BY Bounds DEF Id, Kind
  <2>3. /\ QueueOK' /\ QueuedAs("push", w, watch[w].day, 0, 0)
        /\ \A k \in Kind, v \in Watch : k # "push" \/ v # w => queue'[k, v] = queue[k, v]
    BY <2>7, <2>2, EnqueuedFacts
  <2>4. sync' \in [Watch -> [status : Status, play : Id]] /\ sync'[w].status = "pending" /\ sync'[w].play = sync[w].play
        /\ \A v \in Watch \ {w} : sync'[v] = sync[v]
    BY <2>1, <1>1 DEF Status
  <2>5. queue'["update", w] = queue["update", w] /\ queue'["remove", w] = queue["remove", w]
    BY <2>3, KindFacts
  <2>6. \A v \in Watch \ {w} : \A k \in Kind : queue'[k, v] = queue[k, v]
    BY <2>3
  <2> QED BY <2>3, <2>4, <2>5, <2>6 DEF QueuedAs
<1> QED BY <1>2, <1>3

\* A step about one watch.
LEMMA Others ==
  ASSUME IInv, Shape', NEW w \in Watch, InvOf(w)', at' = at, plays' = plays,
         \A v \in Watch \ {w} : SameRows(v) /\ cause'[v] = cause[v]
  PROVE  IInv'
<1>1. \A v \in Watch \ {w} : InvOf(v)'
  BY Aside DEF IInv
<1> QED BY <1>1 DEF IInv

LEMMA AddKeeps ==
  ASSUME IInv, NEW w \in Watch, NEW d \in Day, Add(w, d)
  PROVE  IInv'
<1>1. /\ watch[w].state = "new" /\ watch' = [watch EXCEPT ![w] = [state |-> "live", day |-> d]]
      /\ UNCHANGED <<provider, sync, queue, at, plays, made, cause, events>>
  BY DEF Add
<1>2. Shape /\ InvOf(w)
  BY DEF IInv
<1>3. watch \in [Watch -> [state : {"new", "live", "gone"}, day : Day \cup {0}]]
  BY <1>2 DEF Shape
<1>4. /\ watch' \in [Watch -> [state : {"new", "live", "gone"}, day : Day \cup {0}]]
      /\ watch'[w].state = "live" /\ watch'[w].day = d
      /\ \A v \in Watch \ {w} : watch'[v] = watch[v]
  BY <1>1, <1>3
<1>5. Shape'
  <2>1. QueueOK'
    BY <1>1, <1>2 DEF Shape, QueueOK, Waits
  <2>2. /\ sync' \in [Watch -> [status : Status, play : Id]]
        /\ cause' \in [Watch -> SUBSET Cause] /\ events' \in 0 .. MaxEvents
    BY <1>1, <1>2 DEF Shape
  <2> QED BY <1>1, <1>2, <1>4, <2>1, <2>2, ShapeAside
<1>6. sync[w].status = "none" /\ sync[w].play = 0 /\ ~Pushes(w) /\ ~Updates(w) /\ Of(w) = {} /\ ~Removes(w)
  BY <1>1, <1>2 DEF InvOf, Lifecycle
<1>7. sync'[w].status = "none" /\ sync'[w].play = 0 /\ ~Pushes(w)' /\ ~Updates(w)' /\ Of(w)' = {} /\ ~Removes(w)'
  BY <1>1, <1>6 DEF Pushes, Updates, Removes, Of, Waits, InHand
<1>8. InvOf(w)'
  <2>1. Lifecycle(w)'
    BY <1>4, <1>7 DEF Lifecycle, Live, Pushes, Removes
  <2>2. OnePlay(w)'
    BY <1>7 DEF OnePlay, PushIsFirst, LooksAgain, KnowsPlay, KnowsDay, Pushes, Updates
  <2>3. Tracked(w)'
    BY <1>7 DEF Tracked, Pushes, Updates, Held
  <2>4. Cleared(w)'
    BY <1>4 DEF Cleared
  <2> QED BY <2>1, <2>2, <2>3, <2>4 DEF InvOf
<1> QED BY <1>1, <1>4, <1>5, <1>8, Others DEF SameRows

LEMMA FanOutKeeps ==
  ASSUME IInv, NEW w \in Watch, FanOut(w)
  PROVE  IInv'
<1>1. /\ Live(w) /\ sync[w].status = "none" /\ EnqueueNew(w)
      /\ UNCHANGED <<provider, watch, at, plays, made, cause, events>>
  BY DEF FanOut
<1>2. Shape /\ InvOf(w) /\ Lifecycle(w)
  BY DEF IInv, InvOf
<1>3. /\ QueueOK' /\ sync' \in [Watch -> [status : Status, play : Id]]
      /\ \A v \in Watch \ {w} : sync'[v] = sync[v] /\ \A k \in Kind : queue'[k, v] = queue[k, v]
      /\ sync'[w].status \in {"assumed_tracked", "pending"} /\ sync'[w].play = sync[w].play
      /\ queue'["update", w] = queue["update", w] /\ queue'["remove", w] = queue["remove", w]
      /\ \/ queue'["push", w] = queue["push", w]
         \/ queue'["push", w].day = watch[w].day
  <2>1. watch[w].day \in Day
    BY <1>1, <1>2 DEF Lifecycle
  <2> QED BY <1>1, <1>2, <2>1, EnqueueNewFacts
<1>4. /\ watch' = watch /\ at' = at /\ plays' = plays /\ provider' = provider /\ made' = made
      /\ cause' = cause /\ events' = events
  BY <1>1
<1>5. Shape'
  BY <1>2, <1>3, <1>4, ShapeAside DEF Shape
<1>6. /\ sync[w].play = 0 /\ Of(w) = {} /\ ~Waits("push", w) /\ ~Waits("update", w) /\ ~Waits("remove", w)
      /\ \A kind \in Kind : ~InHand(kind, w)
  BY <1>1, <1>2, KindFacts DEF Lifecycle, Pushes, Updates, Removes, Live
<1>7. /\ sync'[w].play = 0 /\ Of(w)' = {} /\ ~Waits("update", w)' /\ ~Waits("remove", w)'
      /\ ~InHand("push", w)' /\ ~InHand("update", w)' /\ ~InHand("remove", w)'
      /\ Live(w)' /\ (Waits("push", w)' => queue'["push", w].day = watch'[w].day)
  BY <1>1, <1>3, <1>4, <1>6, KindFacts DEF Of, Waits, InHand, Live
<1>8. InvOf(w)'
  <2>1. Lifecycle(w)'
    BY <1>1, <1>2, <1>3, <1>4, <1>7 DEF Lifecycle, Live, Pushes, Updates, Removes
  <2>2. OnePlay(w)'
    BY <1>7 DEF OnePlay, PushIsFirst, LooksAgain, KnowsPlay, KnowsDay, Pushes, Updates
  <2>3. Tracked(w)'
    BY <1>3, <1>7 DEF Tracked, Pushes, Updates, Held
  <2>4. Cleared(w)'
    BY <1>7 DEF Cleared, Live
  <2> QED BY <2>1, <2>2, <2>3, <2>4 DEF InvOf
<1>9. \A v \in Watch \ {w} : SameRows(v) /\ cause'[v] = cause[v]
  BY <1>3, <1>4 DEF SameRows
<1> QED BY <1>4, <1>5, <1>8, <1>9, Others

LEMMA ResyncKeeps ==
  ASSUME IInv, NEW w \in Watch, Resync(w)
  PROVE  IInv'
<1>1. /\ Live(w) /\ Event /\ EnqueueNew(w) /\ cause' = Blame({w}, "resynced")
      /\ UNCHANGED <<provider, watch, at, plays, made>>
  BY DEF Resync
<1>2. Shape /\ InvOf(w) /\ Lifecycle(w) /\ Tracked(w) /\ watch[w].day \in Day
  BY <1>1 DEF IInv, InvOf, Lifecycle
<1>3. /\ QueueOK' /\ sync' \in [Watch -> [status : Status, play : Id]]
      /\ \A v \in Watch \ {w} : sync'[v] = sync[v] /\ \A k \in Kind : queue'[k, v] = queue[k, v]
      /\ sync'[w].status \in {"assumed_tracked", "pending"} /\ sync'[w].play = sync[w].play
      /\ queue'["update", w] = queue["update", w] /\ queue'["remove", w] = queue["remove", w]
      /\ \/ queue'["push", w] = queue["push", w]
         \/ /\ Waits("push", w) \/ ~InHand("push", w)
            /\ queue'["push", w].day = watch[w].day
  BY <1>1, <1>2, EnqueueNewFacts
<1>4. /\ watch' = watch /\ at' = at /\ plays' = plays /\ provider' = provider /\ made' = made
      /\ events' \in 0 .. MaxEvents
  BY <1>1, <1>2, EventFacts
<1>5. /\ cause' \in [Watch -> SUBSET Cause] /\ "resynced" \in cause'[w] /\ cause[w] \subseteq cause'[w]
      /\ \A v \in Watch \ {w} : cause'[v] = cause[v]
  <2>1. "resynced" \in Cause
    BY DEF Cause
  <2>2. Blamed(w, "resynced")
    BY <1>1, <1>2, <2>1, BlameOne
  <2> QED BY <2>2 DEF Blamed
<1>6. Shape'
  BY <1>2, <1>3, <1>4, <1>5, ShapeAside DEF Shape
<1>7. /\ Live(w)' /\ Of(w)' = Of(w)
      /\ Waits("update", w)' <=> Waits("update", w)
      /\ Waits("remove", w)' <=> Waits("remove", w)
      /\ InHand("push", w)' <=> InHand("push", w)
      /\ InHand("update", w)' <=> InHand("update", w)
      /\ InHand("remove", w)' <=> InHand("remove", w)
      /\ InHand("push", w) /\ ~Waits("push", w) => ~Waits("push", w)'
      /\ \/ queue'["push", w] = queue["push", w] /\ (Waits("push", w)' <=> Waits("push", w))
         \/ queue'["push", w].day = watch'[w].day
  BY <1>1, <1>3, <1>4 DEF Waits, InHand, Live, Of
<1>8. InvOf(w)'
  <2>1. Lifecycle(w)'
    BY <1>1, <1>2, <1>3, <1>4, <1>7 DEF Lifecycle, Live, Pushes, Updates, Removes
  <2>2. OnePlay(w)'
    BY <1>5 DEF OnePlay, Calm, Doubling
  <2>3. Tracked(w)'
    <3>1. Traceable(w)' => Traceable(w)
      BY <1>5 DEF Traceable
    <3>2. There(w, at.made)' <=> There(w, at.made)
      BY <1>4 DEF There
    <3> QED BY <1>1, <1>2, <1>3, <1>4, <1>7, <3>1, <3>2 DEF Tracked, Held
  <2>4. Cleared(w)'
    BY <1>7 DEF Cleared, Live
  <2> QED BY <2>1, <2>2, <2>3, <2>4 DEF InvOf
<1>9. \A v \in Watch \ {w} : SameRows(v) /\ cause'[v] = cause[v]
  BY <1>3, <1>4, <1>5 DEF SameRows
<1> QED BY <1>4, <1>6, <1>8, <1>9, Others

\* Which gaps an edit may be the reason of.
LEMMA EditBlames ==
  ASSUME Shape, NEW w \in Watch, NEW d \in Day, Edit(w, d)
  PROVE  /\ cause' \in [Watch -> SUBSET Cause]
         /\ cause[w] \subseteq cause'[w] /\ \A v \in Watch \ {w} : cause'[v] = cause[v]
         /\ sync[w].status # "none" /\ provider # "letterboxd" =>
               /\ InHand("update", w) => "raced" \in cause'[w]
               /\ Waits("update", w) /\ sync[w].play = 0 => "raced" \in cause'[w] \/ "coalesced" \in cause'[w]
         /\ sync[w].status # "none" /\ provider = "letterboxd" /\ sync[w].play = 0 => "early" \in cause'[w]
<1>1. cause \in [Watch -> SUBSET Cause]
  BY DEF Shape
<1> DEFINE gap == IF sync[w].status = "none" THEN {}
                  ELSE IF provider = "letterboxd" THEN (IF sync[w].play = 0 THEN {"early"} ELSE {})
                  ELSE IF InHand("update", w) THEN {"raced"}
                  ELSE IF Waits("update", w) /\ sync[w].play = 0 THEN {"coalesced"} ELSE {}
<1>2. cause' = [cause EXCEPT ![w] = @ \cup gap]
  BY DEF Edit
<1>3. gap \subseteq Cause
  BY DEF Cause
<1>4. /\ sync[w].status # "none" /\ provider # "letterboxd" =>
            /\ InHand("update", w) => "raced" \in gap
            /\ Waits("update", w) /\ sync[w].play = 0 => "raced" \in gap \/ "coalesced" \in gap
      /\ sync[w].status # "none" /\ provider = "letterboxd" /\ sync[w].play = 0 => "early" \in gap
  OBVIOUS
<1> HIDE DEF gap
<1>5. /\ cause' \in [Watch -> SUBSET Cause] /\ cause'[w] = cause[w] \cup gap
      /\ \A v \in Watch \ {w} : cause'[v] = cause[v]
  BY <1>1, <1>2, <1>3
<1> QED BY <1>4, <1>5

LEMMA EditKeeps ==
  ASSUME IInv, NEW w \in Watch, NEW d \in Day, Edit(w, d)
  PROVE  IInv'
<1> DEFINE asIs == sync[w].status = "none" \/ (provider = "letterboxd" /\ sync[w].play = 0)
<1>1. /\ Live(w) /\ Event /\ watch' = [watch EXCEPT ![w].day = d]
      /\ UNCHANGED <<provider, at, plays, made>>
  BY DEF Edit
<1>2. Shape /\ InvOf(w) /\ Lifecycle(w) /\ OnePlay(w) /\ Tracked(w) /\ watch[w].day \in Day
  BY <1>1 DEF IInv, InvOf, Lifecycle
<1>3. watch \in [Watch -> [state : {"new", "live", "gone"}, day : Day \cup {0}]]
      /\ sync \in [Watch -> [status : Status, play : Id]] /\ QueueOK
  BY <1>2 DEF Shape
<1>4. /\ watch' \in [Watch -> [state : {"new", "live", "gone"}, day : Day \cup {0}]]
      /\ watch'[w].state = "live" /\ watch'[w].day = d /\ Live(w)'
      /\ \A v \in Watch \ {w} : watch'[v] = watch[v]
  BY <1>1, <1>3 DEF Live
<1>5. /\ cause' \in [Watch -> SUBSET Cause]
      /\ cause[w] \subseteq cause'[w] /\ \A v \in Watch \ {w} : cause'[v] = cause[v]
      /\ sync[w].status # "none" /\ provider # "letterboxd" =>
            /\ InHand("update", w) => "raced" \in cause'[w]
            /\ Waits("update", w) /\ sync[w].play = 0 => "raced" \in cause'[w] \/ "coalesced" \in cause'[w]
      /\ sync[w].status # "none" /\ provider = "letterboxd" /\ sync[w].play = 0 => "early" \in cause'[w]
  BY <1>2, EditBlames
<1>6. /\ at' = at /\ plays' = plays /\ provider' = provider /\ made' = made /\ Of(w)' = Of(w)
      /\ InHand("push", w)' <=> InHand("push", w)
      /\ InHand("update", w)' <=> InHand("update", w)
      /\ InHand("remove", w)' <=> InHand("remove", w)
      /\ Held(w)' <=> Held(w)
      /\ events' \in 0 .. MaxEvents
  BY <1>1, <1>2, EventFacts DEF Of, InHand, Held
<1>7. CASE asIs
  <2>1. sync' = sync /\ queue' = queue
    BY <1>7 DEF Edit
  <2>2. QueueOK'
    BY <2>1, <1>3 DEF QueueOK, Waits
  <2>3. Shape'
    BY <1>2, <1>3, <1>4, <1>5, <1>6, <2>1, <2>2, ShapeAside
  <2>4. /\ Waits("push", w)' <=> Waits("push", w)
        /\ Waits("update", w)' <=> Waits("update", w)
        /\ Waits("remove", w)' <=> Waits("remove", w)
        /\ Pushes(w)' <=> Pushes(w)
        /\ Updates(w)' <=> Updates(w)
        /\ Removes(w)' <=> Removes(w)
    BY <2>1, <1>6 DEF Waits, Pushes, Updates, Removes
  <2>5. Lifecycle(w)'
    BY <1>1, <1>2, <1>4, <1>6, <2>1, <2>4 DEF Lifecycle, Live
  <2>6. OnePlay(w)'
    <3>1. Calm(w)' => Calm(w)
      BY <1>5, <1>6 DEF Calm, Doubling
    <3>2. CASE sync[w].status = "none"
      <4>1. Of(w)' = {} /\ ~Pushes(w)' /\ ~Updates(w)' /\ sync'[w].play = 0
        BY <3>2, <1>1, <1>2, <1>6, <2>1, <2>4 DEF Lifecycle, Live
      <4> QED BY <4>1 DEF OnePlay, PushIsFirst, LooksAgain, KnowsPlay, KnowsDay, Pushes, Updates
    <3>3. CASE provider = "letterboxd"
      <4>1. PushIsFirst(w) => PushIsFirst(w)'
        BY <1>6, <2>1, <2>4 DEF PushIsFirst
      <4> QED BY <1>2, <1>6, <3>1, <3>3, <4>1 DEF OnePlay
    <3> QED BY <1>7, <3>2, <3>3
  <2>7. Tracked(w)'
    <3>2. CASE sync[w].status = "none"
      <4>1. ~Pushes(w)' /\ ~Updates(w)' /\ sync'[w].status = "none"
        BY <3>2, <1>2, <2>1, <2>4 DEF Lifecycle
      <4> QED BY <4>1 DEF Tracked, Pushes, Updates, Held
    <3>3. CASE sync[w].status # "none"
      BY <1>5, <1>7, <3>3 DEF Tracked, Traceable
    <3> QED BY <3>2, <3>3
  <2>8. Cleared(w)'
    BY <1>4 DEF Cleared
  <2>9. \A v \in Watch \ {w} : SameRows(v) /\ cause'[v] = cause[v]
    BY <1>4, <1>5, <1>6, <2>1 DEF SameRows
  <2> QED BY <1>6, <2>3, <2>5, <2>6, <2>7, <2>8, <2>9, Others DEF InvOf
<1>8. CASE ~asIs
  <2>1. sync' = [sync EXCEPT ![w].status = "pending"]
    BY <1>8 DEF Edit
  <2>2. queue' = Enqueued("update", w, d, watch[w].day, sync[w].play)
    BY <1>8 DEF Edit
  <2>3. sync[w].play \in Id /\ "update" \in Kind
    BY <1>3, KindFacts
  <2>4. /\ QueueOK' /\ QueuedAs("update", w, d, watch[w].day, sync[w].play)
        /\ \A k \in Kind, v \in Watch : k # "update" \/ v # w => queue'[k, v] = queue[k, v]
    BY <1>2, <2>2, <2>3, EnqueuedFacts
  <2>5. /\ queue'["update", w].day = d /\ queue'["update", w].was = watch[w].day
        /\ queue'["update", w].play = sync[w].play
    BY <2>4 DEF QueuedAs
  <2>6. Waits("update", w)'
    BY <2>5, NoJobFacts, DataAssumption DEF Waits
  <2>7. /\ queue'["push", w] = queue["push", w] /\ queue'["remove", w] = queue["remove", w]
        /\ Waits("push", w)' <=> Waits("push", w)
        /\ Waits("remove", w)' <=> Waits("remove", w)
        /\ Pushes(w)' <=> Pushes(w)
        /\ Removes(w)' <=> Removes(w)
    BY <2>4, <1>6, KindFacts DEF Waits, Pushes, Removes
  <2>8. /\ sync' \in [Watch -> [status : Status, play : Id]]
        /\ sync'[w].status = "pending" /\ sync'[w].play = sync[w].play
        /\ \A v \in Watch \ {w} : sync'[v] = sync[v]
    BY <2>1, <1>3 DEF Status
  <2>9. Shape'
    BY <1>2, <1>3, <1>4, <1>5, <1>6, <2>4, <2>8, ShapeAside
  <2>10. Lifecycle(w)'
    BY <1>1, <1>2, <1>4, <1>6, <1>8, <2>7, <2>8 DEF Lifecycle, Live
  <2>11. OnePlay(w)'
    <3>1. Calm(w)' => Calm(w)
      BY <1>5, <1>6 DEF Calm, Doubling
    <3>2. Calm(w)' /\ provider # "letterboxd" =>
             ~InHand("update", w) /\ (sync[w].play = 0 => ~Updates(w))
      BY <1>5, <1>6, <1>8 DEF Calm, Doubling, Updates
    <3>3. PushIsFirst(w) => PushIsFirst(w)'
      BY <1>6, <2>7, <2>8 DEF PushIsFirst
    <3>4. LooksAgain(w) => LooksAgain(w)'
      BY <1>6, <2>7 DEF LooksAgain, Stored
    <3>5. Calm(w)' /\ provider # "letterboxd" /\ KnowsPlay(w) => KnowsPlay(w)'
      BY <1>6, <2>5, <2>8, <3>2 DEF KnowsPlay, Stored
    <3>6. Calm(w)' /\ provider = "trakt" /\ KnowsDay(w) => KnowsDay(w)'
      BY <1>1, <1>6, <2>5, <2>6, <2>7, <2>8, <3>2 DEF KnowsDay, Updates
    <3> QED BY <1>2, <1>6, <3>1, <3>3, <3>4, <3>5, <3>6 DEF OnePlay
  <2>12. Tracked(w)'
    BY <1>4, <2>5, <2>6 DEF Tracked
  <2>13. Cleared(w)'
    BY <1>4 DEF Cleared
  <2>14. \A v \in Watch \ {w} : SameRows(v) /\ cause'[v] = cause[v]
    BY <1>4, <1>5, <1>6, <2>4, <2>8 DEF SameRows
  <2> QED BY <1>6, <2>9, <2>10, <2>11, <2>12, <2>13, <2>14, Others DEF InvOf
<1> QED BY <1>7, <1>8

\* The job that a deletion leaves, and what it may miss.
LEMMA DeleteFacts ==
  ASSUME Shape, NEW w \in Watch, Delete(w), watch[w].day \in Day
  PROVE  /\ QueueOK'
         /\ \A v \in Watch \ {w} : \A kind \in Kind : queue'[kind, v] = queue[kind, v]
         /\ ~Waits("push", w)' /\ ~Waits("update", w)'
         /\ cause' \in [Watch -> SUBSET Cause] /\ cause[w] \subseteq cause'[w]
         /\ \A v \in Watch \ {w} : cause'[v] = cause[v]
         /\ \/ "unheard" \in cause'[w]
            \/ Of(w) = {}
            \/ Waits("remove", w)' /\ Takes(w, queue'["remove", w].play)
<1> DEFINE known == IF provider = "simkl" THEN 0 ELSE sync[w].play
           job == [NoJob EXCEPT !.day = watch[w].day, !.play = known]
           removal == IF provider = "letterboxd" /\ known = 0 THEN NoJob ELSE job
           told == \/ Of(w) = {} \/ {p.id : p \in Of(w)} = {known}
                   \/ known = 0 /\ provider \in {"trakt", "simkl"}
<1>1. /\ queue' = [queue EXCEPT ![<<"push", w>>] = NoJob, ![<<"update", w>>] = NoJob, ![<<"remove", w>>] = removal]
      /\ cause' = IF told THEN cause ELSE Blame({w}, "unheard")
  BY DEF Delete
<1>2. QueueOK /\ PlaysOK /\ sync \in [Watch -> [status : Status, play : Id]] /\ cause \in [Watch -> SUBSET Cause]
  BY DEF Shape
<1>3. known \in Id
  BY <1>2, Bounds DEF Id
<1>4. NoJob \in Job
  BY Bounds DEF NoJob, Job, Id
<1>5. job \in Job /\ job.day = watch[w].day /\ job.play = known /\ job.attempts = 0
  <2> HIDE DEF known
  <2> QED BY <1>3, <1>4, NoJobFacts DEF Job
<1>6. removal \in Job /\ (removal # NoJob => removal = job)
  BY <1>5, <1>4
<1>7. told \/ "unheard" \in cause'[w]
  <2>1. "unheard" \in Cause
    BY DEF Cause
  <2>2. ~told => Blamed(w, "unheard")
    BY <1>1, <2>1, BlameOne
  <2> QED BY <2>2 DEF Blamed
<1>8. /\ cause' \in [Watch -> SUBSET Cause] /\ cause[w] \subseteq cause'[w]
      /\ \A v \in Watch \ {w} : cause'[v] = cause[v]
  <2>1. "unheard" \in Cause
    BY DEF Cause
  <2>2. cause' = cause \/ Blamed(w, "unheard")
    BY <1>1, <2>1, BlameOne
  <2> QED BY <1>2, <2>2 DEF Blamed
<1>9. told => Of(w) = {} \/ (job = removal /\ Takes(w, known))
  <2>1. CASE {p.id : p \in Of(w)} = {known} /\ Of(w) # {}
    <3>1. \A p \in Of(w) : p.id = known
      BY <2>1
    <3>2. \A p \in Of(w) : p.id # 0
      BY <1>2 DEF PlaysOK, Play, Of
    <3>3. known # 0
      BY <2>1, <3>1, <3>2
    <3> QED BY <3>1, <3>3 DEF Takes
  <2>2. CASE known = 0 /\ provider \in {"trakt", "simkl"}
    BY <2>2 DEF Takes
  <2> QED BY <2>1, <2>2
<1> HIDE DEF known, job, removal, told
<1>10. /\ queue' \in [Kind \X Watch -> Job]
       /\ queue'["push", w] = NoJob /\ queue'["update", w] = NoJob /\ queue'["remove", w] = removal
       /\ \A v \in Watch \ {w} : \A kind \in Kind : queue'[kind, v] = queue[kind, v]
  BY <1>1, <1>2, <1>4, <1>6, KindFacts DEF QueueOK
<1>11. \A kind \in Kind, v \in Watch :
          Waits(kind, v)' => queue'[kind, v].day \in Day /\ queue'[kind, v].attempts < MaxAttempts
  <2> SUFFICES ASSUME NEW kind \in Kind, NEW v \in Watch, Waits(kind, v)'
               PROVE  queue'[kind, v].day \in Day /\ queue'[kind, v].attempts < MaxAttempts
    OBVIOUS
  <2>1. CASE v # w
    BY <1>2, <1>10, <2>1 DEF QueueOK, Waits
  <2>2. CASE v = w
    <3>1. queue'[kind, v] = removal /\ removal # NoJob
      BY <1>10, <2>2, KindFacts DEF Waits
    <3> QED BY <1>5, <1>6, <3>1, Bounds
  <2> QED BY <2>1, <2>2
<1>12. Of(w) = {} \/ "unheard" \in cause'[w] \/ (Waits("remove", w)' /\ Takes(w, queue'["remove", w].play))
  <2>1. job # NoJob
    BY <1>5, NoJobFacts, DataAssumption
  <2> QED BY <1>5, <1>7, <1>9, <1>10, <2>1 DEF Waits
<1> QED BY <1>8, <1>10, <1>11, <1>12 DEF QueueOK, Waits

LEMMA DeleteKeeps ==
  ASSUME IInv, NEW w \in Watch, Delete(w)
  PROVE  IInv'
<1>1. /\ Live(w) /\ Event /\ ~Held(w) /\ watch' = [watch EXCEPT ![w].state = "gone"]
      /\ sync' = [sync EXCEPT ![w] = NoSync]
      /\ UNCHANGED <<provider, at, plays, made>>
  BY DEF Delete
<1>2. Shape /\ InvOf(w) /\ Lifecycle(w) /\ OnePlay(w) /\ watch[w].day \in Day
  BY <1>1 DEF IInv, InvOf, Lifecycle
<1>3. /\ QueueOK'
      /\ \A v \in Watch \ {w} : \A kind \in Kind : queue'[kind, v] = queue[kind, v]
      /\ ~Waits("push", w)' /\ ~Waits("update", w)'
      /\ cause' \in [Watch -> SUBSET Cause] /\ cause[w] \subseteq cause'[w]
      /\ \A v \in Watch \ {w} : cause'[v] = cause[v]
      /\ \/ "unheard" \in cause'[w]
         \/ Of(w) = {}
         \/ Waits("remove", w)' /\ Takes(w, queue'["remove", w].play)
  BY <1>2, DeleteFacts
<1>4. /\ watch' \in [Watch -> [state : {"new", "live", "gone"}, day : Day \cup {0}]]
      /\ watch'[w].state = "gone" /\ ~Live(w)'
      /\ \A v \in Watch \ {w} : watch'[v] = watch[v]
  BY <1>1, <1>2 DEF Live, Shape
<1>5. /\ sync' \in [Watch -> [status : Status, play : Id]]
      /\ sync'[w].status = "none" /\ sync'[w].play = 0
      /\ \A v \in Watch \ {w} : sync'[v] = sync[v]
  BY <1>1, <1>2, Bounds DEF Shape, NoSync, Status, Id
<1>6. /\ at' = at /\ plays' = plays /\ provider' = provider /\ made' = made /\ Of(w)' = Of(w)
      /\ ~InHand("push", w)' /\ ~InHand("update", w)' /\ ~InHand("remove", w)'
      /\ events' \in 0 .. MaxEvents
  BY <1>1, <1>2, EventFacts DEF Of, InHand, Held, Lifecycle, Removes, Live
<1>7. Shape'
  BY <1>2, <1>3, <1>4, <1>5, <1>6, ShapeAside
<1>8. Lifecycle(w)'
  BY <1>3, <1>4, <1>5, <1>6 DEF Lifecycle, Pushes, Updates
<1>9. OnePlay(w)'
  <2>1. Calm(w)' => Calm(w)
    BY <1>3, <1>6 DEF Calm, Doubling
  <2>2. PushIsFirst(w)' /\ LooksAgain(w)' /\ KnowsPlay(w)' /\ KnowsDay(w)'
    BY <1>3, <1>4, <1>5, <1>6 DEF PushIsFirst, LooksAgain, KnowsPlay, KnowsDay, Pushes
  <2> QED BY <1>2, <1>6, <2>1, <2>2 DEF OnePlay
<1>10. Tracked(w)'
  BY <1>4 DEF Tracked
<1>11. Cleared(w)'
  <2>1. Takes(w, queue'["remove", w].play) => Takes(w, queue["remove", w].play)'
    BY <1>6 DEF Takes
  <2> QED BY <1>3, <1>6, <2>1 DEF Cleared, Heard
<1>12. \A v \in Watch \ {w} : SameRows(v) /\ cause'[v] = cause[v]
  BY <1>3, <1>4, <1>5, <1>6 DEF SameRows
<1> QED BY <1>6, <1>7, <1>8, <1>9, <1>10, <1>11, <1>12, Others DEF InvOf

-----------------------------------------------------------------------------
(* A delivery begins.                                                      *)

LEMMA FirstStepFacts ==
  ASSUME provider \in Provider, NEW kind \in Kind, NEW job
  PROVE  /\ FirstStep(kind, job) \in Steps(kind, job) /\ FirstStep(kind, job) # "settle"
         /\ FirstStep(kind, job) \in Step
         /\ kind = "push" /\ FirstStep(kind, job) = "add" => provider = "simkl" \/ ~(job.attempts > 1)
         /\ kind = "push" => FirstStep(kind, job) # "move"
         /\ kind = "update" /\ provider \in {"trakt", "publicmetadb"} =>
               /\ FirstStep(kind, job) # "add"
               /\ FirstStep(kind, job) = "remove" => job.play # 0
         /\ kind = "remove" /\ (provider # "publicmetadb" \/ job.play # 0) => FirstStep(kind, job) = "remove"
<1>1. provider \in {"letterboxd", "trakt", "simkl", "publicmetadb"} /\ kind \in {"push", "update", "remove"}
  BY ProviderAssumption, KindFacts
<1>2. CASE provider = "letterboxd"
  <2>1. FirstStep(kind, job) = LetterboxdFirst(kind, job)
    BY <1>2 DEF FirstStep
  <2>2. /\ kind = "push" => LetterboxdFirst(kind, job) = "check"
        /\ kind = "update" => LetterboxdFirst(kind, job) = "move"
        /\ kind = "remove" => LetterboxdFirst(kind, job) = "remove"
    BY DEF LetterboxdFirst
  <2> QED BY <1>1, <1>2, <2>1, <2>2 DEF Steps, Step
<1>3. CASE provider = "trakt"
  <2>1. FirstStep(kind, job) = TraktFirst(kind, job)
    BY <1>3 DEF FirstStep
  <2>2. /\ kind = "push" => TraktFirst(kind, job) = IF job.attempts > 1 THEN "check" ELSE "add"
        /\ kind = "update" => TraktFirst(kind, job) = IF job.play = 0 THEN "check" ELSE "remove"
        /\ kind = "remove" => TraktFirst(kind, job) = "remove"
    BY DEF TraktFirst
  <2> QED BY <1>1, <1>3, <2>1, <2>2 DEF Steps, Step
<1>4. CASE provider = "simkl"
  <2>1. FirstStep(kind, job) = SimklFirst(kind, job)
    BY <1>4 DEF FirstStep
  <2> QED BY <1>1, <1>4, <2>1 DEF Steps, Step, SimklFirst
<1>5. CASE provider = "publicmetadb"
  <2>1. FirstStep(kind, job) = PublicMetaDbFirst(kind, job)
    BY <1>5 DEF FirstStep
  <2>2. /\ kind = "push" => PublicMetaDbFirst(kind, job) = IF job.attempts > 1 THEN "check" ELSE "add"
        /\ kind # "push" => PublicMetaDbFirst(kind, job) = IF job.play = 0 THEN "check" ELSE "remove"
    BY DEF PublicMetaDbFirst
  <2> QED BY <1>1, <1>5, <2>1, <2>2 DEF Steps, Step
<1> QED BY <1>1, <1>2, <1>3, <1>4, <1>5

LEMMA OneMore == \A n \in 0 .. MaxAttempts : n < MaxAttempts => n \in Nat /\ n + 1 \in 0 .. MaxAttempts /\ n + 1 >= 1
BY Bounds

\* A job with one attempt more, or with some taken off.
LEMMA Attempted ==
  ASSUME NEW job \in Job, NEW n \in 0 .. MaxAttempts
  PROVE  /\ [job EXCEPT !.attempts = n] \in Job /\ [job EXCEPT !.attempts = n].attempts = n
         /\ [job EXCEPT !.attempts = n].day = job.day /\ [job EXCEPT !.attempts = n].was = job.was
         /\ [job EXCEPT !.attempts = n].play = job.play
BY DEF Job

LEMMA BeginFacts ==
  ASSUME Shape, NEW kind \in Kind, NEW w \in Watch, Begin(kind, w)
  PROVE  /\ at = NoDelivery /\ Waits(kind, w) /\ at' \in Deliveries
         /\ at'.kind = kind /\ at'.made = 0 /\ at'.found = queue[kind, w].play /\ DOMAIN at'.jobs = {w}
         /\ at'.jobs[w].day = queue[kind, w].day /\ at'.jobs[w].was = queue[kind, w].was
         /\ at'.jobs[w].play = queue[kind, w].play /\ at'.jobs[w].attempts = queue[kind, w].attempts + 1
         /\ queue[kind, w].attempts \in Nat
         /\ at'.step = FirstStep(kind, at'.jobs[w])
         /\ queue' \in [Kind \X Watch -> Job] /\ queue'[kind, w] = NoJob
         /\ \A k \in Kind, v \in Watch : k # kind \/ v # w => queue'[k, v] = queue[k, v]
         /\ Shape'
<1> DEFINE job == [queue[kind, w] EXCEPT !.attempts = @ + 1]
<1>1. /\ at = NoDelivery /\ Waits(kind, w)
      /\ at' = [NoDelivery EXCEPT !.kind = kind, !.step = FirstStep(kind, job), !.found = job.play,
                                  !.jobs = [v \in {w} |-> job]]
      /\ queue' = [queue EXCEPT ![<<kind, w>>] = NoJob]
      /\ cause' = IF kind = "update" /\ Waits("push", w) THEN Blame({w}, "overtaken") ELSE cause
      /\ UNCHANGED <<provider, watch, sync, plays, made, events>>
  BY DEF Begin
<1>2. QueueOK /\ queue[kind, w] \in Job /\ queue[kind, w].day \in Day /\ queue[kind, w].attempts < MaxAttempts
      /\ provider \in Provider /\ cause \in [Watch -> SUBSET Cause]
  BY <1>1 DEF Shape, QueueOK
<1>3. /\ job \in Job /\ job.day = queue[kind, w].day /\ job.was = queue[kind, w].was /\ job.play = queue[kind, w].play
      /\ job.attempts = queue[kind, w].attempts + 1 /\ queue[kind, w].attempts \in Nat /\ job.play \in Id
  <2>1. queue[kind, w].attempts \in 0 .. MaxAttempts
    BY <1>2 DEF Job
  <2>2. queue[kind, w].attempts \in Nat /\ queue[kind, w].attempts + 1 \in 0 .. MaxAttempts
    BY <1>2, <2>1, OneMore
  <2>3. queue[kind, w].play \in Id
    BY <1>2 DEF Job
  <2> QED BY <1>2, <2>2, <2>3, Attempted
<1> HIDE DEF job
<1>4. FirstStep(kind, job) \in Step /\ FirstStep(kind, job) \in Steps(kind, job)
  BY <1>2, FirstStepFacts
<1>5. /\ at'.kind = kind /\ at'.step = FirstStep(kind, job) /\ at'.found = job.play /\ at'.made = 0
      /\ at'.jobs = [v \in {w} |-> job] /\ DOMAIN at'.jobs = {w} /\ at'.jobs[w] = job
      /\ at' = [kind |-> kind, step |-> FirstStep(kind, job), found |-> job.play, made |-> 0, jobs |-> [v \in {w} |-> job]]
  BY <1>1 DEF NoDelivery
<1>6. at' \in Deliveries
  <2>1. [v \in {w} |-> job] \in [{w} -> Job] /\ {w} \in SUBSET Watch
    BY <1>3
  <2>2. [v \in {w} |-> job] \in UNION {[S -> Job] : S \in SUBSET Watch}
    BY <2>1
  <2>3. 0 \in Id
    BY Bounds DEF Id
  <2> QED BY <1>3, <1>4, <1>5, <2>2, <2>3 DEF Deliveries
<1>7. /\ queue' \in [Kind \X Watch -> Job] /\ queue'[kind, w] = NoJob
      /\ \A k \in Kind, v \in Watch : k # kind \/ v # w => queue'[k, v] = queue[k, v]
  <2>1. NoJob \in Job
    BY Bounds DEF NoJob, Job, Id
  <2> QED BY <1>1, <1>2, <2>1 DEF QueueOK
<1>8. QueueOK'
  BY <1>2, <1>7 DEF QueueOK, Waits
<1>9. HandOK'
  <2>2. (at.step \in Steps(at.kind, at.jobs[w]))'
    BY <1>1, <1>4, <1>5 DEF Steps
  <2>3. job.attempts >= 1
    <3>1. queue[kind, w].attempts \in 0 .. MaxAttempts
      BY <1>2 DEF Job
    <3> QED BY <1>2, <1>3, <3>1, OneMore
  <2> QED BY <1>2, <1>3, <1>5, <1>6, <2>2, <2>3 DEF HandOK
<1>10. PlaysOK'
  BY <1>1 DEF Shape, PlaysOK
<1>11. cause' \in [Watch -> SUBSET Cause]
  <2>1. "overtaken" \in Cause
    BY DEF Cause
  <2> QED BY <1>1, <1>2, <2>1, BlameOne DEF Blamed
<1>12. Shape'
  BY <1>1, <1>8, <1>9, <1>10, <1>11 DEF Shape
<1> QED BY <1>1, <1>3, <1>5, <1>6, <1>7, <1>12

LEMMA BeginKeeps ==
  ASSUME IInv, NEW kind \in Kind, NEW w \in Watch, Begin(kind, w)
  PROVE  IInv'
<1>1. Shape /\ InvOf(w) /\ Lifecycle(w) /\ OnePlay(w) /\ Tracked(w) /\ Cleared(w) /\ provider \in Provider
  BY DEF IInv, InvOf, Shape
<1>2. /\ at = NoDelivery /\ Waits(kind, w)
      /\ at'.kind = kind /\ at'.made = 0 /\ at'.found = queue[kind, w].play /\ DOMAIN at'.jobs = {w}
      /\ at'.jobs[w].day = queue[kind, w].day /\ at'.jobs[w].was = queue[kind, w].was
      /\ at'.jobs[w].play = queue[kind, w].play /\ at'.jobs[w].attempts = queue[kind, w].attempts + 1
      /\ queue[kind, w].attempts \in Nat
      /\ at'.step = FirstStep(kind, at'.jobs[w])
      /\ queue'[kind, w] = NoJob
      /\ \A k \in Kind, v \in Watch : k # kind \/ v # w => queue'[k, v] = queue[k, v]
      /\ Shape'
  BY <1>1, BeginFacts
<1>3. /\ provider' = provider /\ watch' = watch /\ sync' = sync /\ plays' = plays
      /\ cause' = IF kind = "update" /\ Waits("push", w) THEN Blame({w}, "overtaken") ELSE cause
  BY DEF Begin
<1>4. /\ cause[w] \subseteq cause'[w] /\ \A v \in Watch \ {w} : cause'[v] = cause[v]
      /\ kind = "update" /\ Waits("push", w) => "overtaken" \in cause'[w]
  <2>1. "overtaken" \in Cause
    BY DEF Cause
  <2> QED BY <1>1, <1>3, <2>1, BlameOne DEF Blamed
<1>5. \A v \in Watch \ {w} : InvOf(v)'
  <2> SUFFICES ASSUME NEW v \in Watch \ {w} PROVE InvOf(v)'
    OBVIOUS
  <2>1. SameRows(v)
    BY <1>2, <1>3 DEF SameRows
  <2>2. SamePlays(v)
    BY <1>3, <1>4 DEF SamePlays, Of
  <2>3. v \notin DOMAIN at.jobs /\ v \notin (DOMAIN at.jobs)'
    BY <1>2, NothingHeld
  <2> QED BY <2>1, <2>2, <2>3, Elsewhere DEF IInv
<1>6. /\ Of(w)' = Of(w) /\ Live(w)' = Live(w)
      /\ \A k : ~InHand(k, w)
      /\ \A k : InHand(k, w)' <=> k = kind
      /\ ~Waits(kind, w)'
      /\ \A k \in Kind \ {kind} : queue'[k, w] = queue[k, w] /\ (Waits(k, w)' <=> Waits(k, w))
  BY <1>2, <1>3, NothingInHand DEF Of, Live, InHand, Waits
<1>7. /\ FirstStep(kind, at'.jobs[w]) # "settle"
      /\ kind = "push" /\ FirstStep(kind, at'.jobs[w]) = "add" => provider = "simkl" \/ ~(at'.jobs[w].attempts > 1)
      /\ kind = "update" /\ provider \in {"trakt", "publicmetadb"} =>
            /\ FirstStep(kind, at'.jobs[w]) # "add"
            /\ FirstStep(kind, at'.jobs[w]) = "remove" => at'.jobs[w].play # 0
      /\ kind = "remove" /\ (provider # "publicmetadb" \/ at'.jobs[w].play # 0) =>
            FirstStep(kind, at'.jobs[w]) = "remove"
      /\ ~(at'.jobs[w].attempts > 1) => queue[kind, w].attempts = 0
      /\ at'.jobs[w].attempts = 1 => queue[kind, w].attempts = 0
  <2>1. \A n \in Nat : (~(n + 1 > 1) => n = 0) /\ (n + 1 = 1 => n = 0)
    OBVIOUS
  <2> QED BY <1>1, <1>2, <2>1, FirstStepFacts
<1>8. /\ Calm(w)' => Calm(w)
      /\ Traceable(w)' => Traceable(w)
      /\ Heard(w)' => Heard(w)
  BY <1>3, <1>4 DEF Calm, Doubling, Traceable, Heard
<1>9. ASSUME kind = "push" PROVE InvOf(w)'
  <2>1. /\ ~Waits("push", w)' /\ InHand("push", w)' /\ ~InHand("update", w)' /\ ~InHand("remove", w)'
        /\ queue'["update", w] = queue["update", w] /\ (Waits("update", w)' <=> Waits("update", w))
        /\ queue'["remove", w] = queue["remove", w] /\ (Waits("remove", w)' <=> Waits("remove", w))
        /\ Waits("push", w)
    BY <1>2, <1>6, <1>9, KindFacts DEF Waits, InHand
  <2>2. /\ ~InHand("push", w) /\ ~InHand("update", w) /\ ~InHand("remove", w)
    BY <1>6
  <2>3. Lifecycle(w)'
    BY <1>1, <1>3, <1>6, <2>1, <2>2 DEF Lifecycle, Pushes, Updates, Removes
  <2>4. OnePlay(w)'
    <3>1. PushIsFirst(w) /\ provider \in {"trakt", "publicmetadb"} => (LooksAgain(w) => PushIsFirst(w)')
      BY <1>2, <1>3, <1>6, <1>7, <1>9, <2>1, <2>2 DEF PushIsFirst, LooksAgain, Pushes
    <3>2. PushIsFirst(w) /\ provider = "letterboxd" => PushIsFirst(w)'
      <4>1. provider = "letterboxd" => at'.step = "check"
        BY <1>2, <1>9 DEF FirstStep, LetterboxdFirst
      <4> QED BY <1>2, <1>3, <1>6, <1>9, <2>1, <2>2, <4>1 DEF PushIsFirst, Pushes
    <3>3. LooksAgain(w) => LooksAgain(w)'
      BY <1>2, <1>6, <1>7, <1>9, <2>1, <2>2 DEF LooksAgain
    <3>4. KnowsPlay(w) => KnowsPlay(w)'
      BY <1>3, <1>6, <2>1, <2>2 DEF KnowsPlay, Stored
    <3>5. KnowsDay(w) => KnowsDay(w)'
      BY <1>2, <1>3, <1>6, <1>9, <2>1, <2>2 DEF KnowsDay, Updates
    <3>6. provider \in {"letterboxd", "trakt", "simkl", "publicmetadb"}
      BY <1>1, ProviderAssumption
    <3> QED BY <1>1, <1>3, <1>6, <1>8, <3>1, <3>2, <3>3, <3>4, <3>5, <3>6 DEF OnePlay
  <2>5. Tracked(w)'
    BY <1>1, <1>2, <1>3, <1>6, <1>7, <1>8, <1>9, <2>1, <2>2 DEF Tracked, Held, Pushes
  <2>6. Cleared(w)'
    BY <1>1, <1>3, <1>6, <1>8, <2>1, <2>2 DEF Cleared, Takes
  <2> QED BY <2>3, <2>4, <2>5, <2>6 DEF InvOf
<1>10. ASSUME kind = "update" PROVE InvOf(w)'
  <2>1. /\ ~Waits("update", w)' /\ ~InHand("push", w)' /\ InHand("update", w)' /\ ~InHand("remove", w)'
        /\ queue'["push", w] = queue["push", w] /\ (Waits("push", w)' <=> Waits("push", w))
        /\ queue'["remove", w] = queue["remove", w] /\ (Waits("remove", w)' <=> Waits("remove", w))
        /\ Waits("update", w)
    BY <1>2, <1>6, <1>10, KindFacts DEF Waits, InHand
  <2>2. /\ ~InHand("push", w) /\ ~InHand("update", w) /\ ~InHand("remove", w)
    BY <1>6
  <2>3. Lifecycle(w)'
    BY <1>1, <1>3, <1>6, <2>1, <2>2 DEF Lifecycle, Pushes, Updates, Removes
  <2>4. OnePlay(w)'
    <3>1. PushIsFirst(w) => PushIsFirst(w)'
      BY <1>3, <1>6, <2>1, <2>2 DEF PushIsFirst, Pushes
    <3>2. Calm(w)' /\ provider \in {"trakt", "publicmetadb"} => ~Waits("push", w)
      BY <1>3, <1>4, <1>10 DEF Calm, Doubling
    <3>3. LooksAgain(w) => LooksAgain(w)'
      BY <1>6, <2>1, <2>2 DEF LooksAgain
    <3>4. KnowsPlay(w) /\ ~Waits("push", w) /\ provider \in {"trakt", "publicmetadb"} => KnowsPlay(w)'
      BY <1>2, <1>3, <1>6, <1>7, <1>10, <2>1, <2>2 DEF KnowsPlay, Stored
    <3>5. KnowsDay(w) => KnowsDay(w)'
      BY <1>2, <1>3, <1>6, <1>10, <2>1, <2>2 DEF KnowsDay, Updates
    <3> QED BY <1>1, <1>3, <1>6, <1>8, <3>1, <3>2, <3>3, <3>4, <3>5 DEF OnePlay
  <2>5. Tracked(w)'
    <3>1. Traceable(w)' => ~Waits("push", w)
      BY <1>4, <1>10 DEF Traceable
    <3> QED BY <1>1, <1>2, <1>3, <1>6, <1>7, <1>8, <1>10, <2>1, <2>2, <3>1 DEF Tracked, Held, Updates
  <2>6. Cleared(w)'
    BY <1>1, <1>3, <1>6, <1>8, <2>1, <2>2 DEF Cleared, Takes
  <2> QED BY <2>3, <2>4, <2>5, <2>6 DEF InvOf
<1>11. ASSUME kind = "remove" PROVE InvOf(w)'
  <2>1. /\ ~Waits("remove", w)' /\ ~InHand("push", w)' /\ ~InHand("update", w)' /\ InHand("remove", w)'
        /\ queue'["push", w] = queue["push", w] /\ (Waits("push", w)' <=> Waits("push", w))
        /\ queue'["update", w] = queue["update", w] /\ (Waits("update", w)' <=> Waits("update", w))
        /\ Waits("remove", w)
    BY <1>2, <1>6, <1>11, KindFacts DEF Waits, InHand
  <2>2. /\ ~InHand("push", w) /\ ~InHand("update", w) /\ ~InHand("remove", w)
    BY <1>6
  <2>3. Lifecycle(w)'
    BY <1>1, <1>3, <1>6, <2>1, <2>2 DEF Lifecycle, Pushes, Updates, Removes
  <2>4. OnePlay(w)'
    <3>1. PushIsFirst(w) => PushIsFirst(w)'
      BY <1>3, <1>6, <2>1, <2>2 DEF PushIsFirst, Pushes
    <3>3. LooksAgain(w) => LooksAgain(w)'
      BY <1>6, <2>1, <2>2 DEF LooksAgain
    <3>4. KnowsPlay(w) => KnowsPlay(w)'
      BY <1>3, <1>6, <2>1, <2>2 DEF KnowsPlay, Stored
    <3>5. KnowsDay(w) => KnowsDay(w)'
      BY <1>3, <1>6, <2>1, <2>2 DEF KnowsDay, Updates
    <3> QED BY <1>1, <1>3, <1>6, <1>8, <3>1, <3>3, <3>4, <3>5 DEF OnePlay
  <2>5. Tracked(w)'
    <3>1. ~Live(w)
      BY <1>1, <2>1 DEF Lifecycle, Removes, Live
    <3> QED BY <1>6, <3>1 DEF Tracked
  <2>6. Cleared(w)'
    <3>1. CASE ~((watch[w].state = "gone")' /\ Heard(w)')
      BY <3>1 DEF Cleared
    <3>2. CASE (watch[w].state = "gone")' /\ Heard(w)' /\ Of(w) = {}
      BY <3>2, <1>6 DEF Cleared
    <3>3. CASE (watch[w].state = "gone")' /\ Heard(w)' /\ Of(w) # {}
      <4>1. Takes(w, queue["remove", w].play)
        BY <1>1, <1>3, <1>8, <2>2, <3>3 DEF Cleared
      <4>2. at'.step = "remove"
        BY <1>2, <1>7, <1>11, <4>1 DEF Takes
      <4>3. Takes(w, at.found)'
        BY <1>2, <1>3, <1>6, <1>11, <4>1 DEF Takes
      <4> QED BY <1>2, <1>11, <2>1, <4>2, <4>3 DEF Cleared
    <3> QED BY <3>1, <3>2, <3>3
  <2> QED BY <2>3, <2>4, <2>5, <2>6 DEF InvOf
<1> QED BY <1>2, <1>5, <1>9, <1>10, <1>11, KindFacts DEF IInv

\* Several pushes begin together.
LEMMA BatchFacts ==
  ASSUME Shape, NEW S \in SUBSET Watch, BeginBatch(S)
  PROVE  /\ at = NoDelivery /\ provider \in {"trakt", "simkl"} /\ Shape' /\ S # {}
         /\ at'.kind = "push" /\ at'.step = "add" /\ DOMAIN at'.jobs = S
         /\ \A w \in S : /\ Waits("push", w) /\ queue'["push", w] = NoJob
                         /\ at'.jobs[w].day = queue["push", w].day
                         /\ at'.jobs[w].attempts = queue["push", w].attempts + 1
                         /\ queue["push", w].attempts \in Nat
                         /\ queue["push", w].attempts > 0 => "batched" \in cause'[w]
         /\ \A w \in Watch : cause[w] \subseteq cause'[w]
         /\ \A w \in Watch \ S : cause'[w] = cause[w]
         /\ \A k \in Kind, w \in Watch : k # "push" \/ w \notin S => queue'[k, w] = queue[k, w]
<1> DEFINE job(w) == [queue["push", w] EXCEPT !.attempts = @ + 1]
<1> DEFINE late == {w \in S : queue["push", w].attempts > 0}
<1>1. /\ at = NoDelivery /\ provider \in {"trakt", "simkl"} /\ Cardinality(S) > 1
      /\ \A w \in S : Waits("push", w)
      /\ at' = [NoDelivery EXCEPT !.kind = "push", !.step = "add", !.jobs = [w \in S |-> job(w)]]
      /\ queue' = [k \in Kind \X Watch |-> IF k[1] = "push" /\ k[2] \in S THEN NoJob ELSE queue[k]]
      /\ cause' = Blame(late, "batched")
      /\ UNCHANGED <<provider, watch, sync, plays, made, events>>
  BY DEF BeginBatch
<1>2. QueueOK /\ provider \in Provider /\ cause \in [Watch -> SUBSET Cause]
  BY DEF Shape
<1>3. \A w \in S : /\ job(w) \in Job /\ job(w).day = queue["push", w].day /\ job(w).day \in Day
                   /\ job(w).attempts = queue["push", w].attempts + 1 /\ queue["push", w].attempts \in Nat
                   /\ job(w).attempts >= 1
  <2> SUFFICES ASSUME NEW w \in S
      PROVE /\ job(w) \in Job /\ job(w).day = queue["push", w].day /\ job(w).day \in Day
            /\ job(w).attempts = queue["push", w].attempts + 1 /\ queue["push", w].attempts \in Nat
            /\ job(w).attempts >= 1
    OBVIOUS
  <2>1. queue["push", w] \in Job /\ queue["push", w].day \in Day /\ queue["push", w].attempts < MaxAttempts
    BY <1>1, <1>2, KindFacts DEF QueueOK
  <2>2. queue["push", w].attempts \in 0 .. MaxAttempts
    BY <2>1 DEF Job
  <2>3. queue["push", w].attempts \in Nat /\ queue["push", w].attempts + 1 \in 0 .. MaxAttempts
        /\ queue["push", w].attempts + 1 >= 1
    BY <2>1, <2>2, OneMore
  <2> QED BY <2>1, <2>3, Attempted
<1> HIDE DEF job
<1>4. /\ at'.kind = "push" /\ at'.step = "add" /\ at'.found = 0 /\ at'.made = 0
      /\ at'.jobs = [w \in S |-> job(w)] /\ DOMAIN at'.jobs = S /\ \A w \in S : at'.jobs[w] = job(w)
      /\ at' = [kind |-> "push", step |-> "add", found |-> 0, made |-> 0, jobs |-> [w \in S |-> job(w)]]
  BY <1>1 DEF NoDelivery
<1>5. S # {}
  <2>1. \A n : n = 0 => ~(n > 1)
    OBVIOUS
  <2> QED BY <1>1, <2>1, FS_EmptySet
<1>6. at' \in Deliveries
  <2>1. [w \in S |-> job(w)] \in [S -> Job]
    BY <1>3
  <2>2. [w \in S |-> job(w)] \in UNION {[T -> Job] : T \in SUBSET Watch}
    BY <2>1
  <2>3. 0 \in Id
    BY Bounds DEF Id
  <2> QED BY <1>4, <2>2, <2>3, KindFacts DEF Deliveries, Step
<1>7. /\ queue' \in [Kind \X Watch -> Job]
      /\ \A w \in S : queue'["push", w] = NoJob
      /\ \A k \in Kind, w \in Watch : k # "push" \/ w \notin S => queue'[k, w] = queue[k, w]
  <2>1. NoJob \in Job
    BY Bounds DEF NoJob, Job, Id
  <2>2. "push" \in Kind
    BY KindFacts
  <2> QED BY <1>1, <1>2, <2>1, <2>2 DEF QueueOK
<1>8. QueueOK'
  BY <1>2, <1>7 DEF QueueOK, Waits
<1>9. HandOK'
  <2>1. \A w \in S : (at.step \in Steps(at.kind, at.jobs[w]))'
    BY <1>4 DEF Steps
  <2> QED BY <1>1, <1>3, <1>4, <1>6, <2>1 DEF HandOK
<1>10. PlaysOK'
  BY <1>1 DEF Shape, PlaysOK
<1> HIDE DEF late
<1>11. /\ cause' \in [Watch -> SUBSET Cause]
       /\ \A w \in Watch : /\ cause'[w] = IF w \in late THEN cause[w] \cup {"batched"} ELSE cause[w]
                           /\ cause[w] \subseteq cause'[w]
  <2>1. "batched" \in Cause
    BY DEF Cause
  <2> QED BY <1>1, <2>1, BlameFacts
<1>12. Shape'
  BY <1>1, <1>8, <1>9, <1>10, <1>11 DEF Shape
<1>13. /\ \A w \in S : queue["push", w].attempts > 0 => "batched" \in cause'[w]
       /\ \A w \in Watch \ S : cause'[w] = cause[w]
  BY <1>11 DEF late
<1>14. \A w \in S : /\ at'.jobs[w].day = queue["push", w].day
                    /\ at'.jobs[w].attempts = queue["push", w].attempts + 1
                    /\ queue["push", w].attempts \in Nat
  BY <1>3, <1>4
<1>15. at = NoDelivery /\ provider \in {"trakt", "simkl"} /\ \A w \in S : Waits("push", w)
  BY <1>1
<1>16. at'.kind = "push" /\ at'.step = "add" /\ DOMAIN at'.jobs = S
  BY <1>4
<1> QED BY <1>5, <1>7, <1>11, <1>12, <1>13, <1>14, <1>15, <1>16

LEMMA BeginBatchKeeps ==
  ASSUME IInv, NEW S \in SUBSET Watch, BeginBatch(S)
  PROVE  IInv'
<1>1. Shape
  BY DEF IInv
<1>2. /\ at = NoDelivery /\ provider \in {"trakt", "simkl"} /\ Shape' /\ S # {}
      /\ at'.kind = "push" /\ at'.step = "add" /\ DOMAIN at'.jobs = S
      /\ \A w \in S : /\ Waits("push", w) /\ queue'["push", w] = NoJob
                      /\ at'.jobs[w].day = queue["push", w].day
                      /\ at'.jobs[w].attempts = queue["push", w].attempts + 1
                      /\ queue["push", w].attempts \in Nat
                      /\ queue["push", w].attempts > 0 => "batched" \in cause'[w]
      /\ \A w \in Watch : cause[w] \subseteq cause'[w]
      /\ \A w \in Watch \ S : cause'[w] = cause[w]
      /\ \A k \in Kind, w \in Watch : k # "push" \/ w \notin S => queue'[k, w] = queue[k, w]
  BY <1>1, BatchFacts
<1>3. provider' = provider /\ watch' = watch /\ sync' = sync /\ plays' = plays
  BY DEF BeginBatch
<1>4. \A w \in Watch \ S : InvOf(w)'
  <2> SUFFICES ASSUME NEW w \in Watch \ S PROVE InvOf(w)'
    OBVIOUS
  <2>1. SameRows(w)
    BY <1>2, <1>3 DEF SameRows
  <2>2. SamePlays(w)
    BY <1>2, <1>3 DEF SamePlays, Of
  <2>3. w \notin DOMAIN at.jobs /\ w \notin (DOMAIN at.jobs)'
    BY <1>2, NothingHeld
  <2> QED BY <2>1, <2>2, <2>3, Elsewhere DEF IInv
<1>5. \A w \in S : InvOf(w)'
  <2> SUFFICES ASSUME NEW w \in S PROVE InvOf(w)'
    OBVIOUS
  <2>1. w \in Watch /\ InvOf(w) /\ Lifecycle(w) /\ OnePlay(w) /\ Tracked(w) /\ Cleared(w)
    BY DEF IInv, InvOf
  <2>2. /\ Of(w)' = Of(w) /\ Live(w)' = Live(w)
        /\ ~InHand("push", w) /\ ~InHand("update", w) /\ ~InHand("remove", w)
        /\ InHand("push", w)' /\ ~InHand("update", w)' /\ ~InHand("remove", w)'
        /\ Waits("push", w) /\ ~Waits("push", w)'
        /\ queue'["update", w] = queue["update", w] /\ (Waits("update", w)' <=> Waits("update", w))
        /\ queue'["remove", w] = queue["remove", w] /\ (Waits("remove", w)' <=> Waits("remove", w))
    BY <1>2, <1>3, NothingInHand, KindFacts DEF Of, Live, InHand, Waits
  <2>3. /\ Calm(w)' => Calm(w) /\ queue["push", w].attempts = 0
        /\ Traceable(w)' => Traceable(w)
        /\ Heard(w)' => Heard(w)
    <3>1. \A n \in Nat : ~(n > 0) => n = 0
      OBVIOUS
    <3> QED BY <1>2, <1>3, <2>1, <3>1 DEF Calm, Doubling, Traceable, Heard
  <2>4. Lifecycle(w)'
    BY <2>1, <1>3, <2>2 DEF Lifecycle, Pushes, Updates, Removes
  <2>5. OnePlay(w)'
    <3>1. PushIsFirst(w) /\ LooksAgain(w) /\ queue["push", w].attempts = 0 => PushIsFirst(w)'
      BY <1>2, <1>3, <2>2 DEF PushIsFirst, LooksAgain, Pushes
    <3>3. LooksAgain(w) /\ queue["push", w].attempts = 0 => LooksAgain(w)'
      BY <1>2, <2>2 DEF LooksAgain
    <3>4. KnowsPlay(w) => KnowsPlay(w)'
      BY <1>3, <2>2 DEF KnowsPlay, Stored
    <3>5. KnowsDay(w) => KnowsDay(w)'
      BY <1>2, <1>3, <2>2 DEF KnowsDay, Updates
    <3> QED BY <1>2, <1>3, <2>1, <2>2, <2>3, <3>1, <3>3, <3>4, <3>5 DEF OnePlay
  <2>6. Tracked(w)'
    BY <2>1, <1>2, <1>3, <2>2, <2>3 DEF Tracked, Held, Pushes
  <2>7. Cleared(w)'
    BY <2>1, <1>3, <2>2, <2>3 DEF Cleared, Takes
  <2> QED BY <2>4, <2>5, <2>6, <2>7 DEF InvOf
<1> QED BY <1>2, <1>4, <1>5 DEF IInv

-----------------------------------------------------------------------------
(* The delivery in hand goes on.                                           *)

LEMMA InHandOrElse ==
  ASSUME IInv, Shape', (DOMAIN at.jobs)' \subseteq DOMAIN at.jobs,
         \A w \in Watch : w \in DOMAIN at.jobs => InvOf(w)',
         \A w \in Watch : w \notin DOMAIN at.jobs => SameRows(w) /\ SamePlays(w)
  PROVE  IInv'
<1>1. \A w \in Watch : w \notin DOMAIN at.jobs => InvOf(w)'
  BY Elsewhere DEF IInv
<1> QED BY <1>1 DEF IInv

\* The rows of a watch in hand and the jobs in hand stay, and so does what depends on them.
Carried(w) ==
    /\ provider' = provider /\ sync'[w] = sync[w] /\ watch'[w].state = watch[w].state
    /\ queue'["push", w] = queue["push", w] /\ queue'["update", w] = queue["update", w]
    /\ queue'["remove", w] = queue["remove", w]
    /\ at'.jobs[w] = at.jobs[w]
    /\ Waits("push", w)' <=> Waits("push", w)
    /\ Waits("update", w)' <=> Waits("update", w)
    /\ Waits("remove", w)' <=> Waits("remove", w)
    /\ InHand("push", w)' <=> InHand("push", w)
    /\ InHand("update", w)' <=> InHand("update", w)
    /\ InHand("remove", w)' <=> InHand("remove", w)
    /\ Pushes(w)' <=> Pushes(w)
    /\ Updates(w)' <=> Updates(w)
    /\ Removes(w)' <=> Removes(w)
    /\ Held(w)' <=> Held(w)
    /\ Live(w)' <=> Live(w)
    /\ Calm(w)' => Calm(w)
    /\ Traceable(w)' => Traceable(w)
    /\ Heard(w)' => Heard(w)

LEMMA Onward ==
  ASSUME Shape, NEW w \in DOMAIN at.jobs, InvOf(w), provider' = provider, sync'[w] = sync[w],
         watch'[w].state = watch[w].state, Live(w) => watch'[w].day \in Day,
         \A kind \in Kind : queue'[kind, w] = queue[kind, w],
         at'.kind = at.kind, at'.jobs = at.jobs, cause[w] \subseteq cause'[w]
  PROVE  Lifecycle(w)' /\ Carried(w)
<1>1. /\ queue'["push", w] = queue["push", w] /\ queue'["update", w] = queue["update", w]
      /\ queue'["remove", w] = queue["remove", w]
  BY KindFacts
<1>2. /\ Waits("push", w)' <=> Waits("push", w)
      /\ Waits("update", w)' <=> Waits("update", w)
      /\ Waits("remove", w)' <=> Waits("remove", w)
      /\ InHand("push", w)' <=> InHand("push", w)
      /\ InHand("update", w)' <=> InHand("update", w)
      /\ InHand("remove", w)' <=> InHand("remove", w)
      /\ Live(w)' <=> Live(w)
  BY <1>1 DEF Waits, InHand, Live
<1>3. /\ Pushes(w)' <=> Pushes(w)
      /\ Updates(w)' <=> Updates(w)
      /\ Removes(w)' <=> Removes(w)
      /\ Held(w)' <=> Held(w)
  BY <1>2 DEF Pushes, Updates, Removes, Held
<1>4. /\ Calm(w)' => Calm(w)
      /\ Traceable(w)' => Traceable(w)
      /\ Heard(w)' => Heard(w)
  BY DEF Calm, Doubling, Traceable, Heard
<1>5. Carried(w)
  BY <1>1, <1>2, <1>3, <1>4 DEF Carried
<1>6. Lifecycle(w) /\ (InHand("push", w) \/ InHand("update", w) \/ InHand("remove", w))
  BY HandFacts, KindFacts DEF InvOf
<1>7. sync[w].status = "none" => watch[w].state = "gone"
  BY <1>6 DEF Lifecycle, Pushes, Updates, Removes
<1>8. Lifecycle(w)'
  BY <1>1, <1>2, <1>3, <1>6, <1>7 DEF Lifecycle, Live
<1> QED BY <1>5, <1>8

\* The delivery has another next request.
LEMMA GoesOn ==
  ASSUME Shape, at # NoDelivery, NEW step \in Step, NEW found \in Id, NEW mine \in Id,
         at' = [at EXCEPT !.step = step, !.found = found, !.made = mine], provider' = provider,
         \A w \in DOMAIN at.jobs : step \in Steps(at.kind, at.jobs[w]), step # "move",
         (\E w \in Watch : DOMAIN at.jobs = {w}) \/ (step \in {"add", "settle"} /\ mine = 0)
  PROVE  /\ HandOK' /\ at'.kind = at.kind /\ at'.jobs = at.jobs
         /\ at'.step = step /\ at'.found = found /\ at'.made = mine
<1>1. at \in Deliveries /\ HandOK
  BY DEF Shape, HandOK
<1>2. /\ at'.kind = at.kind /\ at'.jobs = at.jobs
      /\ at'.step = step /\ at'.found = found /\ at'.made = mine
      /\ at' \in Deliveries
  BY <1>1 DEF Deliveries
<1>3. \A w \in DOMAIN at.jobs : (at.step \in Steps(at.kind, at.jobs[w]))'
  BY <1>2 DEF Steps
<1> QED BY <1>1, <1>2, <1>3 DEF HandOK

LEMMA MatchFacts ==
  ASSUME provider \in Provider, NEW kind, NEW job
  PROVE  /\ Matches(kind, job) \subseteq plays
         /\ kind = "push" => Matches(kind, job) = On(job.day)
         /\ kind = "update" /\ provider = "trakt" /\ Matches(kind, job) = {} => On(job.was) = {} /\ On(job.day) = {}
         /\ kind = "update" /\ provider = "publicmetadb" => Matches(kind, job) = plays
<1>1. provider \in {"letterboxd", "trakt", "simkl", "publicmetadb"}
  BY ProviderAssumption
<1>2. /\ LetterboxdFinds(kind, job) \subseteq plays /\ LetterboxdFinds(kind, job) = On(job.day)
      /\ PublicMetaDbFinds(kind, job) \subseteq plays
      /\ kind = "push" => PublicMetaDbFinds(kind, job) = On(job.day)
      /\ kind = "update" => PublicMetaDbFinds(kind, job) = plays
      /\ TraktFinds(kind, job) \subseteq plays
      /\ kind = "push" => TraktFinds(kind, job) = On(job.day)
      /\ kind = "update" /\ TraktFinds(kind, job) = {} => On(job.was) = {} /\ On(job.day) = {}
  BY DEF LetterboxdFinds, PublicMetaDbFinds, TraktFinds, On
<1>3. /\ provider = "letterboxd" => Matches(kind, job) = LetterboxdFinds(kind, job)
      /\ provider = "publicmetadb" => Matches(kind, job) = PublicMetaDbFinds(kind, job)
      /\ provider # "letterboxd" /\ provider # "publicmetadb" => Matches(kind, job) = TraktFinds(kind, job)
  BY <1>1 DEF Matches
<1> QED BY <1>1, <1>2, <1>3

LEMMA Single ==
  ASSUME Shape, at.step \in {"check", "remove", "move"}
  PROVE  /\ at # NoDelivery /\ W \in Watch /\ DOMAIN at.jobs = {W} /\ J = at.jobs[W]
         /\ Cardinality(DOMAIN at.jobs) = 1
<1>1. at # NoDelivery
  BY NothingHeld
<1>2. \E w \in Watch : DOMAIN at.jobs = {w}
  BY <1>1 DEF Shape, HandOK
<1>3. PICK w \in Watch : DOMAIN at.jobs = {w}
  BY <1>2
<1>4. W = w
  BY <1>3, OnlyOne DEF W
<1> QED BY <1>1, <1>3, <1>4, FS_Singleton DEF J

\* A watch in hand has no removal waiting, a removal no live watch.
LEMMA InHandFacts ==
  ASSUME Shape, NEW w \in DOMAIN at.jobs, InvOf(w)
  PROVE  /\ InHand("push", w) <=> at.kind = "push"
         /\ InHand("update", w) <=> at.kind = "update"
         /\ InHand("remove", w) <=> at.kind = "remove"
         /\ at.kind \in {"push", "update", "remove"}
         /\ at.kind = "remove" => watch[w].state = "gone" /\ ~Live(w) /\ ~Waits("remove", w)
         /\ sync[w].status = "none" => watch[w].state = "gone" /\ at.kind = "remove"
<1>1. w \in Watch /\ at.kind \in {"push", "update", "remove"}
  BY HandFacts, KindFacts
<1>2. Lifecycle(w) /\ watch[w].state \in {"new", "live", "gone"}
  BY <1>1 DEF InvOf, Shape
<1> QED BY <1>1, <1>2 DEF InHand, Lifecycle, Pushes, Updates, Removes, Live

LEMMA CheckFindsKeeps ==
  ASSUME IInv, NEW p \in plays, CheckFinds(p)
  PROVE  IInv'
<1>1. at.step = "check" /\ p \in Matches(at.kind, J) /\ UNCHANGED <<provider, sync, queue, plays, made, events>>
  BY DEF CheckFinds
<1>2. Shape /\ provider \in Provider
  BY DEF IInv, Shape
<1>3. PICK w \in Watch : /\ at # NoDelivery /\ w \in DOMAIN at.jobs /\ DOMAIN at.jobs = {w}
                          /\ W = w /\ J = at.jobs[w]
  BY <1>1, <1>2, Single
<1>4. InvOf(w) /\ Lifecycle(w) /\ OnePlay(w) /\ Tracked(w) /\ Cleared(w)
  BY <1>3 DEF IInv, InvOf
<1>5. /\ p.id \in Id /\ p.id # 0 /\ p.day \in Day
      /\ watch \in [Watch -> [state : {"new", "live", "gone"}, day : Day \cup {0}]]
      /\ cause \in [Watch -> SUBSET Cause]
  BY <1>2 DEF Shape, PlaysOK, Play
<1>6. at.step \in Steps(at.kind, at.jobs[w]) /\ at.found \in Id /\ at.made \in Id
  BY <1>2, <1>3, HandFacts DEF Deliveries
<1>7. QueueOK' /\ PlaysOK' /\ Of(w)' = Of(w) /\ Stored(p.id)'
  BY <1>1, <1>2 DEF Shape, QueueOK, Waits, PlaysOK, Of, Stored
<1>8. /\ at.kind \in {"push", "update", "remove"}
      /\ InHand("push", w) <=> at.kind = "push"
      /\ InHand("update", w) <=> at.kind = "update"
      /\ InHand("remove", w) <=> at.kind = "remove"
  BY <1>2, <1>3, <1>4, InHandFacts
<1>9. ASSUME at.kind = "push" PROVE IInv'
  <2>1. /\ at' = [at EXCEPT !.step = "settle", !.made = p.id]
        /\ watch' = IF provider = "letterboxd" \/ ~Live(w) THEN watch ELSE [watch EXCEPT ![w].day = p.day]
        /\ cause' = IF watch[w].day # p.day /\ provider # "letterboxd" THEN Blame({w}, "reset") ELSE cause
    BY <1>3, <1>9 DEF CheckFinds
  <2>2. at' = [at EXCEPT !.step = "settle", !.found = at.found, !.made = p.id]
    BY <1>2, <1>3, <2>1 DEF Shape, HandOK, Deliveries
  <2>3. "settle" \in Step /\ \A v \in DOMAIN at.jobs : "settle" \in Steps(at.kind, at.jobs[v])
    BY <1>9 DEF Step, Steps
  <2>4. /\ HandOK' /\ at'.kind = at.kind /\ at'.jobs = at.jobs
        /\ at'.step = "settle" /\ at'.made = p.id
    BY <1>1, <1>2, <1>3, <1>5, <1>6, <2>2, <2>3, GoesOn
  <2>5. /\ watch' \in [Watch -> [state : {"new", "live", "gone"}, day : Day \cup {0}]]
        /\ watch'[w].state = watch[w].state
        /\ (Live(w) /\ provider # "letterboxd" => watch'[w].day = p.day)
        /\ (~Live(w) \/ provider = "letterboxd" => watch'[w].day = watch[w].day)
        /\ \A v \in Watch \ {w} : watch'[v] = watch[v]
    BY <1>3, <1>5, <2>1
  <2>6. /\ cause' \in [Watch -> SUBSET Cause] /\ cause[w] \subseteq cause'[w]
        /\ \A v \in Watch \ {w} : cause'[v] = cause[v]
        /\ watch[w].day # p.day /\ provider # "letterboxd" => "reset" \in cause'[w]
    <3>1. "reset" \in Cause
      BY DEF Cause
    <3> QED BY <1>2, <1>3, <1>5, <2>1, <3>1, BlameOne DEF Blamed
  <2>7. Shape'
    BY <1>1, <1>2, <1>7, <2>4, <2>5, <2>6 DEF Shape
  <2>8. Lifecycle(w)' /\ Carried(w)
    <3>1. Live(w) => watch'[w].day \in Day
      BY <1>4, <1>5, <2>5 DEF Lifecycle
    <3> QED BY <1>1, <1>2, <1>3, <1>4, <2>4, <2>5, <2>6, <3>1, Onward
  <2>9. OnePlay(w)'
    <3>1. Calm(w)' /\ Live(w) /\ provider = "trakt" => watch'[w].day = watch[w].day
      BY <1>1, <2>5, <2>6 DEF Calm, Doubling
    <3>2. PushIsFirst(w) => PushIsFirst(w)'
      BY <1>7, <2>4, <2>8 DEF PushIsFirst, Carried
    <3>3. LooksAgain(w) => LooksAgain(w)'
      BY <1>7, <2>4, <2>8 DEF LooksAgain, Carried
    <3>4. KnowsPlay(w) => KnowsPlay(w)'
      BY <1>1, <1>7, <1>8, <1>9, <2>4, <2>8 DEF KnowsPlay, Carried, Stored
    <3>5. KnowsDay(w) /\ (Live(w) => watch'[w].day = watch[w].day) => KnowsDay(w)'
      BY <1>1, <1>7, <2>4, <2>8 DEF KnowsDay, Carried
    <3> QED BY <1>4, <1>7, <2>8, <3>1, <3>2, <3>3, <3>4, <3>5 DEF OnePlay, Carried
  <2>10. Tracked(w)'
    <3>1. SUFFICES ASSUME Live(w)', Traceable(w)' PROVE Tracked(w)'
      BY DEF Tracked
    <3>2. Live(w) /\ Traceable(w) /\ watch'[w].day = watch[w].day
      BY <2>5, <2>6, <2>8, <3>1 DEF Carried, Traceable
    <3>3. ~Waits("update", w) => There(w, at.made)'
      <4> SUFFICES ASSUME ~Waits("update", w) PROVE There(w, at.made)'
        OBVIOUS
      <4>1. at.jobs[w].day = watch[w].day
        BY <1>4, <1>8, <1>9, <3>2 DEF Tracked, Held
      <4>2. provider = "letterboxd" => p.day = watch[w].day
        BY <1>1, <1>2, <1>3, <1>9, <4>1, MatchFacts DEF On
      <4>3. p \in plays' /\ p.day = watch'[w].day
        BY <1>1, <2>5, <3>2, <4>2
      <4> QED BY <2>4, <4>3 DEF There
    <3>4. ~Updates(w)' /\ ~Pushes(w)' => FALSE
      BY <1>8, <1>9, <2>8 DEF Carried, Pushes
    <3> QED BY <1>4, <2>8, <2>4, <3>1, <3>2, <3>3, <3>4 DEF Tracked, Carried
  <2>11. Cleared(w)'
    BY <1>4, <1>7, <1>8, <1>9, <2>5, <2>8 DEF Cleared, Carried, Takes
  <2>12. InvOf(w)'
    BY <2>8, <2>9, <2>10, <2>11 DEF InvOf
  <2>13. \A v \in Watch \ {w} : SameRows(v) /\ SamePlays(v)
    BY <1>1, <2>5, <2>6 DEF SameRows, SamePlays, Of
  <2> QED BY <1>3, <2>4, <2>7, <2>12, <2>13, InHandOrElse
<1>10. ASSUME at.kind # "push" PROVE IInv'
  <2>1. /\ at' = [at EXCEPT !.step = "remove", !.found = p.id] /\ watch' = watch /\ cause' = cause
    BY <1>10 DEF CheckFinds
  <2>2. at' = [at EXCEPT !.step = "remove", !.found = p.id, !.made = at.made]
    BY <1>2, <1>3, <2>1 DEF Shape, HandOK, Deliveries
  <2>3. /\ "remove" \in Step /\ \A v \in DOMAIN at.jobs : "remove" \in Steps(at.kind, at.jobs[v])
        /\ at.kind = "remove" => at.jobs[w].play = 0
        /\ at.kind = "update" => at.jobs[w].play = 0
    BY <1>1, <1>3, <1>6, <1>8, <1>10 DEF Step, Steps
  <2>4. /\ HandOK' /\ at'.kind = at.kind /\ at'.jobs = at.jobs
        /\ at'.step = "remove" /\ at'.found = p.id
    BY <1>1, <1>2, <1>3, <1>5, <1>6, <2>2, <2>3, GoesOn
  <2>5. Shape'
    BY <1>1, <1>2, <1>7, <2>1, <2>4 DEF Shape
  <2>6. Lifecycle(w)' /\ Carried(w)
    <3>1. Live(w) => watch'[w].day \in Day
      BY <1>4, <2>1 DEF Lifecycle
    <3> QED BY <1>1, <1>2, <1>3, <1>4, <2>1, <2>4, <3>1, Onward
  <2>7. OnePlay(w)'
    <3>2. PushIsFirst(w) => PushIsFirst(w)'
      BY <1>7, <2>4, <2>6 DEF PushIsFirst, Carried
    <3>3. LooksAgain(w) => LooksAgain(w)'
      BY <1>7, <1>8, <1>10, <2>4, <2>6 DEF LooksAgain, Carried
    <3>4. KnowsPlay(w) => KnowsPlay(w)'
      BY <1>1, <1>5, <1>7, <2>4, <2>6 DEF KnowsPlay, Carried, Stored
    <3>5. KnowsDay(w) => KnowsDay(w)'
      BY <1>1, <1>7, <2>1, <2>4, <2>6 DEF KnowsDay, Carried
    <3> QED BY <1>4, <1>7, <2>6, <3>2, <3>3, <3>4, <3>5 DEF OnePlay, Carried
  <2>8. Tracked(w)'
    <3>1. There(w, sync[w].play)' <=> There(w, sync[w].play)
      BY <1>1, <2>1 DEF There
    <3> QED BY <1>4, <2>1, <2>4, <2>6, <3>1 DEF Tracked, Carried
  <2>9. Cleared(w)'
    BY <1>1, <1>4, <1>7, <2>1, <2>4, <2>6 DEF Cleared, Carried, Takes
  <2>10. InvOf(w)'
    BY <2>6, <2>7, <2>8, <2>9 DEF InvOf
  <2>11. \A v \in Watch \ {w} : SameRows(v) /\ SamePlays(v)
    BY <1>1, <2>1 DEF SameRows, SamePlays, Of
  <2> QED BY <1>3, <2>4, <2>5, <2>10, <2>11, InHandOrElse
<1> QED BY <1>9, <1>10

LEMMA CheckFindsNoneKeeps ==
  ASSUME IInv, CheckFindsNone
  PROVE  IInv'
<1> DEFINE step == IF at.kind = "remove" THEN "settle" ELSE "add"
<1>1. /\ at.step = "check" /\ Matches(at.kind, J) = {} /\ at' = [at EXCEPT !.step = step]
      /\ UNCHANGED <<provider, watch, sync, queue, plays, made, cause, events>>
  BY DEF CheckFindsNone
<1>2. Shape /\ provider \in Provider
  BY DEF IInv, Shape
<1>3. PICK w \in Watch : /\ at # NoDelivery /\ w \in DOMAIN at.jobs /\ DOMAIN at.jobs = {w}
                          /\ W = w /\ J = at.jobs[w]
  BY <1>1, <1>2, Single
<1>4. InvOf(w) /\ Lifecycle(w) /\ OnePlay(w) /\ Tracked(w) /\ Cleared(w)
  BY DEF IInv, InvOf
<1>5. /\ at.kind \in {"push", "update", "remove"}
      /\ InHand("push", w) <=> at.kind = "push"
      /\ InHand("update", w) <=> at.kind = "update"
      /\ InHand("remove", w) <=> at.kind = "remove"
      /\ at.kind = "remove" => ~Live(w)
  BY <1>2, <1>3, <1>4, InHandFacts
<1>6. at.step \in Steps(at.kind, at.jobs[w]) /\ at.found \in Id /\ at.made \in Id
  BY <1>2, <1>3, HandFacts DEF Deliveries
<1>7. QueueOK' /\ PlaysOK' /\ Of(w)' = Of(w)
  BY <1>1, <1>2 DEF Shape, QueueOK, Waits, PlaysOK, Of
<1>8. step \in Step /\ step # "move" /\ \A v \in DOMAIN at.jobs : step \in Steps(at.kind, at.jobs[v])
  BY <1>1, <1>3, <1>5, <1>6 DEF Step, Steps
<1>9. step = "add" <=> at.kind # "remove"
  OBVIOUS
<1>10. step = "settle" <=> at.kind = "remove"
  OBVIOUS
<1> HIDE DEF step
<1>11. PICK found \in Id, mine \in Id : found = at.found /\ mine = at.made
  BY <1>6
<1>12. /\ HandOK' /\ at'.kind = at.kind /\ at'.jobs = at.jobs
       /\ at'.step = step /\ at'.found = found /\ at'.made = mine
  <2>1. at' = [at EXCEPT !.step = step, !.found = found, !.made = mine]
    BY <1>1, <1>2, <1>3, <1>11 DEF Shape, HandOK, Deliveries
  <2>2. provider' = provider /\ at # NoDelivery /\ \E v \in Watch : DOMAIN at.jobs = {v}
    BY <1>1, <1>3
  <2>3. Shape
    BY <1>2
  <2> QED BY <1>8, <2>1, <2>2, <2>3, GoesOn
<1>13. Shape'
  BY <1>1, <1>2, <1>7, <1>12 DEF Shape
<1>14. Lifecycle(w)' /\ Carried(w)
  <2>1. Live(w) => watch'[w].day \in Day
    BY <1>1, <1>4 DEF Lifecycle
  <2> QED BY <1>1, <1>2, <1>3, <1>4, <1>12, <2>1, Onward
<1>15. OnePlay(w)'
  <2>1. at.kind = "push" /\ PushIsFirst(w) => Of(w) = {}
    <3>1. at.kind = "push" => On(at.jobs[w].day) = {}
      BY <1>1, <1>2, <1>3, MatchFacts
    <3> QED BY <1>5, <3>1 DEF PushIsFirst, On, Of
  <2>2. at.kind = "update" /\ provider = "publicmetadb" => Of(w) = {}
    BY <1>1, <1>2, <1>3, MatchFacts DEF Of
  <2>3. at.kind = "update" /\ provider = "trakt" /\ KnowsDay(w) => Of(w) = {}
    <3>1. at.kind = "update" /\ provider = "trakt" => On(at.jobs[w].was) = {} /\ On(at.jobs[w].day) = {}
      BY <1>1, <1>2, <1>3, MatchFacts
    <3>2. at.kind = "update" /\ provider = "trakt" => at.jobs[w].play = 0
      BY <1>1, <1>6 DEF Steps
    <3> QED BY <1>1, <1>5, <3>1, <3>2 DEF KnowsDay, On, Of
  <2>4. PushIsFirst(w) => PushIsFirst(w)'
    BY <1>5, <1>7, <1>9, <1>12, <1>14, <2>1 DEF PushIsFirst, Carried
  <2>5. LooksAgain(w) => LooksAgain(w)'
    BY <1>1, <1>5, <1>7, <1>9, <1>12, <1>14 DEF LooksAgain, Carried
  <2>6. KnowsPlay(w) /\ (at.kind = "update" => Of(w) = {}) => KnowsPlay(w)'
    BY <1>1, <1>5, <1>7, <1>9, <1>10, <1>12, <1>14 DEF KnowsPlay, Carried, Stored
  <2>7. KnowsDay(w) => KnowsDay(w)'
    BY <1>1, <1>7, <1>11, <1>12, <1>14 DEF KnowsDay, Carried
  <2> QED BY <1>4, <1>7, <1>14, <2>2, <2>3, <2>4, <2>5, <2>6, <2>7 DEF OnePlay, Carried
<1>16. Tracked(w)'
  <2>1. There(w, sync[w].play)' <=> There(w, sync[w].play)
    BY <1>1 DEF There
  <2> QED BY <1>1, <1>4, <1>5, <1>9, <1>10, <1>12, <1>14, <2>1 DEF Tracked, Carried
<1>17. Cleared(w)'
  BY <1>1, <1>4, <1>7, <1>11, <1>12, <1>14 DEF Cleared, Carried, Takes
<1>18. InvOf(w)'
  BY <1>14, <1>15, <1>16, <1>17 DEF InvOf
<1>19. \A v \in Watch \ {w} : SameRows(v) /\ SamePlays(v)
  BY <1>1 DEF SameRows, SamePlays, Of
<1> QED BY <1>3, <1>12, <1>13, <1>18, <1>19, InHandOrElse

LEMMA CheckIgnoredKeeps ==
  ASSUME IInv, CheckIgnored
  PROVE  IInv'
<1>1. /\ at.step = "check" /\ at.kind = "push" /\ provider # "letterboxd" /\ Event
      /\ at' = [at EXCEPT !.step = "add"] /\ cause' = Blame({W}, "unchecked")
      /\ UNCHANGED <<provider, watch, sync, queue, plays, made>>
  BY DEF CheckIgnored
<1>2. Shape
  BY DEF IInv, Shape
<1>3. PICK w \in Watch : /\ at # NoDelivery /\ w \in DOMAIN at.jobs /\ DOMAIN at.jobs = {w}
                          /\ W = w /\ J = at.jobs[w]
  BY <1>1, <1>2, Single
<1>4. InvOf(w) /\ Lifecycle(w) /\ Tracked(w) /\ Cleared(w)
  BY DEF IInv, InvOf
<1>6. at.found \in Id /\ at.made \in Id
  BY <1>2, <1>3, HandFacts DEF Deliveries
<1>7. QueueOK' /\ PlaysOK' /\ Of(w)' = Of(w)
  BY <1>1, <1>2 DEF Shape, QueueOK, Waits, PlaysOK, Of
<1>8. "add" \in Step /\ \A v \in DOMAIN at.jobs : "add" \in Steps(at.kind, at.jobs[v])
  BY <1>1 DEF Step, Steps
<1>9. /\ cause' \in [Watch -> SUBSET Cause] /\ "unchecked" \in cause'[w] /\ cause[w] \subseteq cause'[w]
      /\ \A v \in Watch \ {w} : cause'[v] = cause[v]
  <2>1. "unchecked" \in Cause
    BY DEF Cause
  <2>2. Blamed(w, "unchecked")
    BY <1>1, <1>2, <1>3, <2>1, BlameOne
  <2> QED BY <2>2 DEF Blamed
<1>11. PICK found \in Id, mine \in Id : found = at.found /\ mine = at.made
  BY <1>6
<1>12. /\ HandOK' /\ at'.kind = at.kind /\ at'.jobs = at.jobs
       /\ at'.step = "add" /\ at'.found = found /\ at'.made = mine
  <2>1. at' = [at EXCEPT !.step = "add", !.found = found, !.made = mine]
    BY <1>1, <1>2, <1>3, <1>11 DEF Shape, HandOK, Deliveries
  <2>2. provider' = provider /\ at # NoDelivery /\ \E v \in Watch : DOMAIN at.jobs = {v}
    BY <1>1, <1>3
  <2>3. Shape
    BY <1>2
  <2> QED BY <1>8, <2>1, <2>2, <2>3, GoesOn
<1>13. Shape'
  <2>1. events' \in 0 .. MaxEvents
    BY <1>1, <1>2, EventFacts
  <2> QED BY <1>1, <1>2, <1>7, <1>9, <1>12, <2>1 DEF Shape
<1>14. Lifecycle(w)' /\ Carried(w)
  <2>1. Live(w) => watch'[w].day \in Day
    BY <1>1, <1>4 DEF Lifecycle
  <2> QED BY <1>1, <1>2, <1>3, <1>4, <1>9, <1>12, <2>1, Onward
<1>15. OnePlay(w)'
  BY <1>1, <1>9 DEF OnePlay, Calm, Doubling
<1>16. Tracked(w)'
  <2>1. There(w, sync[w].play)' <=> There(w, sync[w].play)
    BY <1>1 DEF There
  <2> QED BY <1>1, <1>4, <1>12, <1>14, <2>1 DEF Tracked, Carried
<1>17. Cleared(w)'
  BY <1>1, <1>4, <1>7, <1>11, <1>12, <1>14 DEF Cleared, Carried, Takes
<1>18. InvOf(w)'
  BY <1>14, <1>15, <1>16, <1>17 DEF InvOf
<1>19. \A v \in Watch \ {w} : SameRows(v) /\ SamePlays(v)
  BY <1>1, <1>9 DEF SameRows, SamePlays, Of
<1> QED BY <1>3, <1>12, <1>13, <1>18, <1>19, InHandOrElse

-----------------------------------------------------------------------------
(* The delivery in hand ends.                                              *)

\* A watch whose delivery has ended.
Left(w) ==
    /\ provider' = provider /\ watch'[w] = watch[w]
    /\ Live(w)' <=> Live(w)
    /\ ~InHand("push", w)' /\ ~InHand("update", w)' /\ ~InHand("remove", w)' /\ ~Held(w)'
    /\ Pushes(w)' <=> Waits("push", w)'
    /\ Updates(w)' <=> Waits("update", w)'
    /\ Removes(w)' <=> Waits("remove", w)'
    /\ Calm(w)' => Calm(w)
    /\ Traceable(w)' => Traceable(w)
    /\ Heard(w)' => Heard(w)

LEMMA Leaves ==
  ASSUME NEW w, at' = NoDelivery, provider' = provider, watch' = watch, cause[w] \subseteq cause'[w]
  PROVE  Left(w)
<1>1. \A kind : ~InHand(kind, w)'
  BY DEF NoDelivery, InHand
<1>2. /\ Calm(w)' => Calm(w)
      /\ Traceable(w)' => Traceable(w)
      /\ Heard(w)' => Heard(w)
  BY DEF Calm, Doubling, Traceable, Heard
<1> QED BY <1>1, <1>2 DEF Left, Held, Live, Pushes, Updates, Removes

PushRests(w) == queue'["push", w] = queue["push", w] /\ (Waits("push", w)' <=> Waits("push", w))
UpdateRests(w) == queue'["update", w] = queue["update", w] /\ (Waits("update", w)' <=> Waits("update", w))
RemoveRests(w) == queue'["remove", w] = queue["remove", w] /\ (Waits("remove", w)' <=> Waits("remove", w))

LEMMA PushLeaves ==
  ASSUME Shape, NEW w \in DOMAIN at.jobs, InvOf(w), Left(w), at.kind = "push",
         UpdateRests(w), RemoveRests(w), sync'[w].status # "none",
         Waits("push", w)' => queue'["push", w].day = at.jobs[w].day /\ sync'[w].play = sync[w].play,
         sync'[w].play # sync[w].play =>
            sync'[w].play # 0 /\ (Calm(w)' /\ provider \in {"trakt", "publicmetadb"} => \E p \in plays' : p.id = sync'[w].play),
         Calm(w)' => \A p, q \in Of(w)' : p = q,
         Calm(w)' /\ provider # "simkl" => \A p \in Of(w)' : p.day = at.jobs[w].day,
         Calm(w)' /\ provider \in {"trakt", "publicmetadb"} /\ Waits("push", w)' /\ queue'["push", w].attempts = 0 =>
            Of(w)' = {},
         Live(w) /\ Traceable(w)' /\ sync'[w].status = "succeeded" /\ ~Waits("push", w)' /\ ~Waits("update", w) =>
            There(w, sync[w].play)'
  PROVE  InvOf(w)'
<1>1. /\ Lifecycle(w) /\ OnePlay(w) /\ Tracked(w) /\ w \in Watch /\ InHand("push", w) /\ ~InHand("update", w)
      /\ ~InHand("remove", w) /\ sync[w].status # "none"
  BY HandFacts, InHandFacts DEF InvOf
<1>2. watch[w].state = "live" /\ Live(w)
  BY <1>1 DEF Lifecycle, Live
<1>3. Lifecycle(w)'
  BY <1>1, <1>2 DEF Lifecycle, Left, UpdateRests, RemoveRests, Updates, Removes
<1>4. OnePlay(w)'
  <2>1. SUFFICES ASSUME Calm(w)' PROVE OnePlay(w)'
    BY DEF OnePlay
  <2>2. Calm(w) /\ provider' = provider
    BY <2>1 DEF Left
  <2>3. /\ provider # "simkl" => PushIsFirst(w) /\ sync[w].play = 0
        /\ provider \in {"trakt", "publicmetadb"} => KnowsPlay(w) /\ provider # "simkl"
        /\ provider = "trakt" => KnowsDay(w)
    BY <1>1, <2>2 DEF OnePlay, PushIsFirst, Pushes
  <2>4. provider # "simkl" => PushIsFirst(w)'
    BY <2>1, <2>3 DEF PushIsFirst, Left
  <2>5. provider \in {"trakt", "publicmetadb"} => LooksAgain(w)'
    BY <2>1 DEF LooksAgain, Left
  <2>6. provider \in {"trakt", "publicmetadb"} => KnowsPlay(w)'
    BY <2>1, <2>3 DEF KnowsPlay, Left, UpdateRests, Stored
  <2>7. provider = "trakt" => KnowsDay(w)'
    BY <1>1, <1>2, <2>1, <2>3 DEF KnowsDay, Left, UpdateRests, Updates
  <2> QED BY <2>1, <2>2, <2>4, <2>5, <2>6, <2>7 DEF OnePlay
<1>5. Tracked(w)'
  BY <1>1, <1>2 DEF Tracked, Left, UpdateRests, Held, Updates
<1>6. Cleared(w)'
  BY <1>2 DEF Cleared, Left
<1> QED BY <1>3, <1>4, <1>5, <1>6 DEF InvOf

LEMMA UpdateLeaves ==
  ASSUME Shape, NEW w \in DOMAIN at.jobs, InvOf(w), Left(w), at.kind = "update",
         PushRests(w), RemoveRests(w), sync'[w].status # "none",
         \/ UpdateRests(w)
         \/ /\ ~Waits("update", w) /\ Waits("update", w)' /\ queue'["update", w].day = at.jobs[w].day
            /\ queue'["update", w].was = at.jobs[w].was /\ queue'["update", w].play = at.jobs[w].play
            /\ sync'[w].play = sync[w].play,
         sync'[w].play = sync[w].play \/ sync'[w].play # 0,
         Calm(w)' => \A p, q \in Of(w)' : p = q,
         Calm(w)' /\ provider \in {"trakt", "publicmetadb"} =>
            \/ sync'[w].play = 0
            \/ Of(w)' = {}
            \/ \E p \in plays' : p.id = sync'[w].play,
         Calm(w)' /\ provider = "trakt" /\ at.jobs[w].play = 0 /\ Waits("update", w)' =>
            \A p \in Of(w)' : p.day \in {at.jobs[w].was, at.jobs[w].day},
         Calm(w)' /\ provider = "trakt" /\ sync'[w].play = 0 /\ ~Waits("update", w)' => Of(w)' = {},
         Live(w) /\ Traceable(w)' /\ sync'[w].status = "succeeded" /\ ~Waits("push", w) /\ ~Waits("update", w)' =>
            There(w, sync[w].play)'
  PROVE  InvOf(w)'
<1>1. /\ Lifecycle(w) /\ OnePlay(w) /\ Tracked(w) /\ w \in Watch /\ InHand("update", w) /\ ~InHand("push", w)
      /\ ~InHand("remove", w) /\ sync[w].status # "none"
  BY HandFacts, InHandFacts DEF InvOf
<1>2. watch[w].state = "live" /\ Live(w)
  BY <1>1 DEF Lifecycle, Live
<1>3. Lifecycle(w)'
  BY <1>1, <1>2 DEF Lifecycle, Left, PushRests, RemoveRests, Updates, Removes
<1>4. OnePlay(w)'
  <2>1. SUFFICES ASSUME Calm(w)' PROVE OnePlay(w)'
    BY DEF OnePlay
  <2>2. Calm(w) /\ provider' = provider /\ provider \in {"letterboxd", "trakt", "simkl", "publicmetadb"}
    BY <2>1, ProviderAssumption DEF Left, Shape
  <2>3. /\ provider # "simkl" => PushIsFirst(w)
        /\ provider \in {"trakt", "publicmetadb"} => KnowsPlay(w) /\ ~Waits("push", w) /\ ~Waits("update", w)
        /\ provider \in {"trakt", "publicmetadb"} => at.jobs[w].play \in {0, sync[w].play}
        /\ provider = "letterboxd" => ~Waits("push", w)
    BY <1>1, <2>2 DEF OnePlay, PushIsFirst, Pushes, Lifecycle, Updates, KnowsPlay
  <2>4. provider # "simkl" => PushIsFirst(w)'
    BY <2>2, <2>3 DEF PushIsFirst, Left, PushRests
  <2>5. provider \in {"trakt", "publicmetadb"} => LooksAgain(w)'
    BY <2>3 DEF LooksAgain, Left, PushRests
  <2>6. provider \in {"trakt", "publicmetadb"} => KnowsPlay(w)'
    BY <2>1, <2>3 DEF KnowsPlay, Left, UpdateRests, Stored
  <2>7. provider = "trakt" => KnowsDay(w)'
    BY <1>1, <1>2, <2>1, <2>3 DEF KnowsDay, Left, UpdateRests, PushRests, Updates
  <2> QED BY <2>1, <2>2, <2>4, <2>5, <2>6, <2>7 DEF OnePlay
<1>5. Tracked(w)'
  BY <1>1, <1>2 DEF Tracked, Left, UpdateRests, PushRests, Held, Updates, Pushes
<1>6. Cleared(w)'
  BY <1>2 DEF Cleared, Left
<1> QED BY <1>3, <1>4, <1>5, <1>6 DEF InvOf

LEMMA RemoveLeaves ==
  ASSUME Shape, NEW w \in DOMAIN at.jobs, InvOf(w), Left(w), at.kind = "remove",
         PushRests(w), UpdateRests(w), sync'[w] = sync[w], Of(w)' \subseteq Of(w), Cleared(w)'
  PROVE  InvOf(w)'
<1>1. /\ Lifecycle(w) /\ OnePlay(w) /\ watch[w].state = "gone" /\ ~Live(w)
  BY InHandFacts DEF InvOf
<1>2. sync[w].status = "none" /\ sync[w].play = 0 /\ ~Pushes(w) /\ ~Updates(w) /\ ~Waits("push", w) /\ ~Waits("update", w)
  BY <1>1 DEF Lifecycle, Pushes, Updates
<1>3. Lifecycle(w)'
  BY <1>1, <1>2 DEF Lifecycle, Left, PushRests, UpdateRests
<1>4. OnePlay(w)'
  <2>1. PushIsFirst(w)' /\ LooksAgain(w)' /\ KnowsPlay(w)' /\ KnowsDay(w)'
    BY <1>1, <1>2 DEF PushIsFirst, LooksAgain, KnowsPlay, KnowsDay, Left, PushRests, UpdateRests
  <2> QED BY <1>1, <2>1 DEF OnePlay, Left
<1>5. Tracked(w)'
  BY <1>1 DEF Tracked, Left
<1> QED BY <1>3, <1>4, <1>5 DEF InvOf

LEMMA SyncFacts ==
  ASSUME Shape, NEW status, \A w \in DOMAIN at.jobs : status[w] \in Status,
         at # NoDelivery, sync' = SyncAfter(status)
  PROVE  /\ sync' \in [Watch -> [status : Status, play : Id]]
         /\ \A w \in Watch : w \notin DOMAIN at.jobs \/ at.kind = "remove" \/ ~Live(w) => sync'[w] = sync[w]
         /\ \A w \in DOMAIN at.jobs : at.kind # "remove" /\ Live(w) =>
               /\ sync'[w].status = status[w]
               /\ sync'[w].play = IF status[w] = "succeeded" /\ at.made # 0 THEN at.made ELSE sync[w].play
<1>1. sync \in [Watch -> [status : Status, play : Id]] /\ at.made \in Id
  BY DEF Shape, HandOK, Deliveries
<1>2. \A w \in DOMAIN at.jobs : w \in Watch
  BY HandFacts
<1> QED BY <1>1, <1>2 DEF SyncAfter

LEMMA RequeuedFacts ==
  ASSUME Shape, at # NoDelivery, NEW S \in SUBSET DOMAIN at.jobs, NEW off \in {0, 1},
         \A w \in S : off = 1 \/ ~Exhausted(w), queue' = Requeued(S, off)
  PROVE  /\ QueueOK'
         /\ \A k \in Kind, w \in Watch : k # at.kind \/ w \notin S \/ Waits(k, w) => queue'[k, w] = queue[k, w]
         /\ \A w \in S : ~Waits(at.kind, w) =>
               /\ queue'[at.kind, w] # NoJob
               /\ queue'[at.kind, w].day = at.jobs[w].day /\ queue'[at.kind, w].was = at.jobs[w].was
               /\ queue'[at.kind, w].play = at.jobs[w].play
               /\ queue'[at.kind, w].attempts = at.jobs[w].attempts - off
<1>1. QueueOK /\ at.kind \in Kind
  BY DEF Shape, HandOK, Deliveries
<1> DEFINE again(w) == [at.jobs[w] EXCEPT !.attempts = @ - off]
<1>2. \A w \in S : /\ w \in Watch /\ again(w) \in Job /\ again(w).day = at.jobs[w].day /\ again(w).day \in Day
                   /\ again(w).was = at.jobs[w].was /\ again(w).play = at.jobs[w].play
                   /\ again(w).attempts = at.jobs[w].attempts - off /\ again(w).attempts < MaxAttempts
                   /\ again(w) # NoJob
  <2> SUFFICES ASSUME NEW w \in S
      PROVE /\ w \in Watch /\ again(w) \in Job /\ again(w).day = at.jobs[w].day /\ again(w).day \in Day
            /\ again(w).was = at.jobs[w].was /\ again(w).play = at.jobs[w].play
            /\ again(w).attempts = at.jobs[w].attempts - off /\ again(w).attempts < MaxAttempts
            /\ again(w) # NoJob
    OBVIOUS
  <2>1. w \in Watch /\ at.jobs[w] \in Job /\ at.jobs[w].day \in Day /\ at.jobs[w].attempts \in 1 .. MaxAttempts
    BY HandFacts
  <2>2. off = 1 \/ at.jobs[w].attempts < MaxAttempts
    <3>1. \A n \in 1 .. MaxAttempts : ~(n >= MaxAttempts) => n < MaxAttempts
      BY Bounds
    <3> QED BY <2>1, <3>1 DEF Exhausted
  <2>3. at.jobs[w].attempts - off \in 0 .. MaxAttempts /\ at.jobs[w].attempts - off < MaxAttempts
    BY <2>1, <2>2, Bounds
  <2>4. 0 \notin Day
    BY DataAssumption
  <2>5. PICK n \in 0 .. MaxAttempts : n = at.jobs[w].attempts - off
    BY <2>3
  <2>6. PICK job \in Job : job = at.jobs[w]
    BY <2>1
  <2>7. again(w) = [job EXCEPT !.attempts = n]
    BY <2>5, <2>6
  <2> HIDE DEF again
  <2>8. /\ again(w) \in Job /\ again(w).attempts = n /\ again(w).day = job.day
        /\ again(w).was = job.was /\ again(w).play = job.play
    BY <2>7, Attempted
  <2> QED BY <2>1, <2>3, <2>4, <2>5, <2>6, <2>8, NoJobFacts
<1> HIDE DEF again
<1>3. \A k \in Kind, w \in Watch : queue'[k, w] =
          IF k = at.kind /\ w \in S /\ queue[k, w] = NoJob THEN again(w) ELSE queue[k, w]
  BY DEF Requeued, again
<1>4. queue' \in [Kind \X Watch -> Job]
  BY <1>1, <1>2 DEF Requeued, again, QueueOK
<1>5. QueueOK'
  BY <1>1, <1>2, <1>3, <1>4 DEF QueueOK, Waits
<1> QED BY <1>1, <1>2, <1>3, <1>5 DEF Waits

LEMMA NothingOK == at' = NoDelivery => HandOK' /\ (DOMAIN at.jobs)' = {}
BY NothingHeld DEF HandOK

LEMMA SettleKeeps ==
  ASSUME IInv, Settle
  PROVE  IInv'
<1>1. /\ at.step = "settle" /\ sync' = SyncAfter([w \in DOMAIN at.jobs |-> "succeeded"]) /\ at' = NoDelivery
      /\ UNCHANGED <<provider, watch, queue, plays, made, cause, events>>
  BY DEF Settle
<1>2. Shape /\ at # NoDelivery /\ PlaysOK
  BY <1>1, NothingHeld DEF IInv, Shape
<1>3. /\ sync' \in [Watch -> [status : Status, play : Id]]
      /\ \A w \in Watch : w \notin DOMAIN at.jobs \/ at.kind = "remove" \/ ~Live(w) => sync'[w] = sync[w]
      /\ \A w \in DOMAIN at.jobs : at.kind # "remove" /\ Live(w) =>
               /\ sync'[w].status = "succeeded"
               /\ sync'[w].play = IF at.made # 0 THEN at.made ELSE sync[w].play
  <2> DEFINE status == [w \in DOMAIN at.jobs |-> "succeeded"]
  <2>1. \A w \in DOMAIN at.jobs : status[w] \in Status /\ status[w] = "succeeded"
    BY DEF Status
  <2>2. sync' = SyncAfter(status)
    BY <1>1
  <2> HIDE DEF status
  <2> QED BY <1>2, <2>1, <2>2, SyncFacts
<1>4. Shape'
  <2>1. QueueOK' /\ PlaysOK'
    BY <1>1, <1>2 DEF Shape, QueueOK, Waits, PlaysOK
  <2> QED BY <1>1, <1>2, <1>3, <2>1, NothingOK DEF Shape
<1>5. \A w \in Watch : w \notin DOMAIN at.jobs => SameRows(w) /\ SamePlays(w)
  BY <1>1, <1>3 DEF SameRows, SamePlays, Of
<1>6. \A w \in Watch : w \in DOMAIN at.jobs => InvOf(w)'
  <2> SUFFICES ASSUME NEW w \in Watch, w \in DOMAIN at.jobs PROVE InvOf(w)'
    OBVIOUS
  <2>1. InvOf(w) /\ Lifecycle(w) /\ OnePlay(w) /\ Tracked(w) /\ Cleared(w)
    BY DEF IInv, InvOf
  <2>2. Left(w) /\ PushRests(w) /\ UpdateRests(w) /\ RemoveRests(w) /\ Of(w)' = Of(w)
    BY <1>1, Leaves DEF PushRests, UpdateRests, RemoveRests, Waits, Of
  <2>3. /\ at.kind \in {"push", "update", "remove"}
        /\ InHand("push", w) <=> at.kind = "push"
        /\ InHand("update", w) <=> at.kind = "update"
        /\ InHand("remove", w) <=> at.kind = "remove"
        /\ sync[w].status = "none" => at.kind = "remove"
    BY <1>2, <2>1, InHandFacts
  <2>4. at.kind # "remove" => Live(w)
    BY <2>1, <2>3 DEF Lifecycle, Live
  <2>5. There(w, at.made) /\ at.kind # "remove" => There(w, sync[w].play)'
    BY <1>1, <1>2, <1>3, <2>4 DEF There, PlaysOK, Play
  <2>6. Calm(w)' <=> Calm(w)
    BY <1>1 DEF Calm, Doubling
  <2>7. Traceable(w)' <=> Traceable(w)
    BY <1>1 DEF Traceable
  <2>8. at.made # 0 /\ Stored(at.made) => \E p \in plays' : p.id = at.made
    BY <1>1 DEF Stored
  <2>9. ASSUME at.kind = "push" PROVE InvOf(w)'
    <3>1. ~Waits("push", w) /\ ~Waits("push", w)'
      BY <2>1, <2>2, <2>3, <2>9 DEF Lifecycle, PushRests
    <3>2. sync'[w].status # "none" /\ sync'[w].play = IF at.made # 0 THEN at.made ELSE sync[w].play
      BY <1>3, <2>4, <2>9
    <3>3. Calm(w) /\ provider \in {"trakt", "publicmetadb"} => (at.made # 0 => \E p \in plays' : p.id = at.made)
      BY <1>1, <2>1, <2>3, <2>8, <2>9 DEF OnePlay, LooksAgain
    <3>4. /\ Calm(w)' => \A p, q \in Of(w)' : p = q
          /\ Calm(w)' /\ provider # "simkl" => \A p \in Of(w)' : p.day = at.jobs[w].day
      BY <2>1, <2>2, <2>3, <2>6, <2>9 DEF OnePlay, PushIsFirst
    <3>5. Live(w) /\ Traceable(w)' /\ ~Waits("update", w) => There(w, sync[w].play)'
      BY <1>1, <2>1, <2>3, <2>5, <2>7, <2>9 DEF Tracked, Held
    <3> QED BY <1>2, <2>1, <2>2, <2>6, <2>9, <3>1, <3>2, <3>3, <3>4, <3>5, PushLeaves
  <2>10. ASSUME at.kind = "update" PROVE InvOf(w)'
    <3>1. sync'[w].status # "none" /\ sync'[w].play = IF at.made # 0 THEN at.made ELSE sync[w].play
      BY <1>3, <2>4, <2>10
    <3>2. /\ Calm(w)' => \A p, q \in Of(w)' : p = q
          /\ Calm(w)' /\ provider \in {"trakt", "publicmetadb"} =>
                at.made # 0 /\ (\E p \in plays' : p.id = at.made) /\ ~Waits("update", w)'
      BY <1>1, <2>1, <2>2, <2>3, <2>6, <2>8, <2>10 DEF OnePlay, KnowsPlay, UpdateRests
    <3>3. Live(w) /\ Traceable(w)' /\ ~Waits("update", w)' => There(w, sync[w].play)'
      BY <1>1, <2>1, <2>2, <2>3, <2>5, <2>7, <2>10 DEF Tracked, Held, UpdateRests
    <3> QED BY <1>2, <2>1, <2>2, <2>10, <3>1, <3>2, <3>3, UpdateLeaves
  <2>11. ASSUME at.kind = "remove" PROVE InvOf(w)'
    <3>1. Cleared(w)'
      BY <1>1, <2>1, <2>2, <2>3, <2>11 DEF Cleared, Left, RemoveRests, Takes
    <3> QED BY <1>2, <1>3, <2>1, <2>2, <2>11, <3>1, RemoveLeaves
  <2> QED BY <2>3, <2>9, <2>10, <2>11
<1> QED BY <1>4, <1>5, <1>6, NothingOK, <1>1, InHandOrElse

\* What of the delivery's jobs waits again.
Returned(w, off) ==
    /\ at.kind # "push" => PushRests(w)
    /\ at.kind # "update" => UpdateRests(w)
    /\ at.kind # "remove" => RemoveRests(w)
    /\ at.kind = "push" /\ ~Waits("push", w) /\ Waits("push", w)' =>
          queue'["push", w].day = at.jobs[w].day /\ queue'["push", w].attempts = at.jobs[w].attempts - off
    /\ at.kind = "update" =>
          \/ UpdateRests(w)
          \/ /\ ~Waits("update", w) /\ Waits("update", w)' /\ queue'["update", w].day = at.jobs[w].day
             /\ queue'["update", w].was = at.jobs[w].was /\ queue'["update", w].play = at.jobs[w].play
    /\ at.kind = "remove" /\ ~Waits("remove", w) /\ Waits("remove", w)' => queue'["remove", w].play = at.jobs[w].play

Again(w) ==
    /\ at.kind = "push" => Waits("push", w)'
    /\ at.kind = "update" => Waits("update", w)'
    /\ at.kind = "remove" => Waits("remove", w)'

LEMMA ReturnedFacts ==
  ASSUME Shape, at # NoDelivery, NEW S \in SUBSET DOMAIN at.jobs, NEW off \in {0, 1},
         \A w \in S : off = 1 \/ ~Exhausted(w), queue' = Requeued(S, off)
  PROVE  /\ QueueOK'
         /\ \A w \in Watch : w \notin DOMAIN at.jobs => \A k \in Kind : queue'[k, w] = queue[k, w]
         /\ \A w \in DOMAIN at.jobs : Returned(w, off)
         /\ \A w \in S : Again(w)
<1>1. /\ QueueOK'
      /\ \A k \in Kind, w \in Watch : k # at.kind \/ w \notin S \/ Waits(k, w) => queue'[k, w] = queue[k, w]
      /\ \A w \in S : ~Waits(at.kind, w) =>
            /\ queue'[at.kind, w] # NoJob
            /\ queue'[at.kind, w].day = at.jobs[w].day /\ queue'[at.kind, w].was = at.jobs[w].was
            /\ queue'[at.kind, w].play = at.jobs[w].play
            /\ queue'[at.kind, w].attempts = at.jobs[w].attempts - off
  BY RequeuedFacts
<1>2. \A w \in DOMAIN at.jobs : w \in Watch
  BY HandFacts
<1>3. ASSUME NEW w \in DOMAIN at.jobs PROVE Returned(w, off)
  <2>1. /\ at.kind # "push" => queue'["push", w] = queue["push", w]
        /\ at.kind # "update" => queue'["update", w] = queue["update", w]
        /\ at.kind # "remove" => queue'["remove", w] = queue["remove", w]
    BY <1>1, <1>2, KindFacts
  <2>2. /\ at.kind # "push" => PushRests(w)
        /\ at.kind # "update" => UpdateRests(w)
        /\ at.kind # "remove" => RemoveRests(w)
    BY <2>1 DEF PushRests, UpdateRests, RemoveRests, Waits
  <2>3. at.kind = "push" /\ ~Waits("push", w) /\ Waits("push", w)' =>
          queue'["push", w].day = at.jobs[w].day /\ queue'["push", w].attempts = at.jobs[w].attempts - off
    <3> SUFFICES ASSUME at.kind = "push", ~Waits("push", w), Waits("push", w)'
        PROVE queue'["push", w].day = at.jobs[w].day /\ queue'["push", w].attempts = at.jobs[w].attempts - off
      OBVIOUS
    <3>1. w \in S
      BY <1>1, <1>2, KindFacts DEF Waits
    <3> QED BY <1>1, <3>1 DEF Waits
  <2>4. at.kind = "update" =>
          \/ UpdateRests(w)
          \/ /\ ~Waits("update", w) /\ Waits("update", w)' /\ queue'["update", w].day = at.jobs[w].day
             /\ queue'["update", w].was = at.jobs[w].was /\ queue'["update", w].play = at.jobs[w].play
    BY <1>1, <1>2, KindFacts DEF Waits, UpdateRests
  <2>5. at.kind = "remove" /\ ~Waits("remove", w) /\ Waits("remove", w)' => queue'["remove", w].play = at.jobs[w].play
    BY <1>1, <1>2, KindFacts DEF Waits
  <2> QED BY <2>2, <2>3, <2>4, <2>5 DEF Returned
<1>4. ASSUME NEW w \in S PROVE Again(w)
  BY <1>1, <1>2, KindFacts DEF Again, Waits
<1>5. \A w \in Watch : w \notin DOMAIN at.jobs => \A k \in Kind : queue'[k, w] = queue[k, w]
  BY <1>1
<1> QED BY <1>1, <1>3, <1>4, <1>5

\* A delivery that failed: what its jobs and its WatchSyncs become.
Failed(w) ==
    /\ Returned(w, 0)
    /\ ~Exhausted(w) => Again(w)
    /\ at.kind = "remove" => sync'[w] = sync[w]
    /\ at.kind # "remove" /\ Live(w) =>
          /\ sync'[w].status = "none" => sync[w].status = "none"
          /\ sync'[w].play = sync[w].play \/ sync'[w].play # 0
          /\ ~Waits(at.kind, w) => sync'[w].play = sync[w].play
          /\ sync'[w].status = "succeeded" => Waits(at.kind, w)

LEMMA FailsFacts ==
  ASSUME Shape, at # NoDelivery, Fails
  PROVE  /\ at' = NoDelivery /\ provider' = provider /\ watch' = watch /\ events' \in 0 .. MaxEvents
         /\ QueueOK' /\ sync' \in [Watch -> [status : Status, play : Id]]
         /\ \A w \in Watch : w \notin DOMAIN at.jobs => SameRows(w)
         /\ \A w \in DOMAIN at.jobs : Failed(w)
<1> DEFINE status == [w \in DOMAIN at.jobs |->
                        IF Exhausted(w) THEN "failed_permanent"
                        ELSE IF Waits(at.kind, w) THEN sync[w].status ELSE "failed_retryable"]
<1> DEFINE S == {w \in DOMAIN at.jobs : ~Exhausted(w)}
<1>1. /\ Event /\ sync' = SyncAfter(status) /\ queue' = Requeued(S, 0) /\ at' = NoDelivery
      /\ provider' = provider /\ watch' = watch
  BY DEF Fails
<1>2. \A w \in DOMAIN at.jobs : w \in Watch
  BY HandFacts
<1>3. \A w \in DOMAIN at.jobs :
        /\ status[w] \in Status
        /\ status[w] = "none" => sync[w].status = "none"
        /\ status[w] = "succeeded" => Waits(at.kind, w)
  BY <1>2 DEF Shape, Status
<1> HIDE DEF status
<1>4. /\ sync' \in [Watch -> [status : Status, play : Id]]
      /\ \A w \in Watch : w \notin DOMAIN at.jobs \/ at.kind = "remove" \/ ~Live(w) => sync'[w] = sync[w]
      /\ \A w \in DOMAIN at.jobs : at.kind # "remove" /\ Live(w) =>
            /\ sync'[w].status = status[w]
            /\ sync'[w].play = IF status[w] = "succeeded" /\ at.made # 0 THEN at.made ELSE sync[w].play
  BY <1>1, <1>3, SyncFacts
<1>5. /\ QueueOK'
      /\ \A w \in Watch : w \notin DOMAIN at.jobs => \A k \in Kind : queue'[k, w] = queue[k, w]
      /\ \A w \in DOMAIN at.jobs : Returned(w, 0)
      /\ \A w \in S : Again(w)
  <2>1. S \in SUBSET DOMAIN at.jobs /\ \A w \in S : ~Exhausted(w)
    OBVIOUS
  <2> HIDE DEF S
  <2> QED BY <1>1, <2>1, ReturnedFacts
<1>6. \A w \in Watch : w \notin DOMAIN at.jobs => SameRows(w)
  BY <1>1, <1>4, <1>5 DEF SameRows
<1>7. ASSUME NEW w \in DOMAIN at.jobs PROVE Failed(w)
  <2>1. Returned(w, 0) /\ (~Exhausted(w) => Again(w))
    BY <1>5
  <2>2. at.kind = "remove" => sync'[w] = sync[w]
    BY <1>2, <1>4
  <2>3. at.kind # "remove" /\ Live(w) =>
          /\ sync'[w].status = "none" => sync[w].status = "none"
          /\ sync'[w].play = sync[w].play \/ sync'[w].play # 0
          /\ ~Waits(at.kind, w) => sync'[w].play = sync[w].play
          /\ sync'[w].status = "succeeded" => Waits(at.kind, w)
    BY <1>3, <1>4
  <2> QED BY <2>1, <2>2, <2>3 DEF Failed
<1>8. events' \in 0 .. MaxEvents
  BY <1>1, EventFacts
<1> QED BY <1>1, <1>4, <1>5, <1>6, <1>7, <1>8

LEMMA GivenUpFacts ==
  ASSUME Shape, at # NoDelivery, cause' = GivenUp
  PROVE  /\ cause' \in [Watch -> SUBSET Cause]
         /\ \A w \in Watch : cause[w] \subseteq cause'[w] /\ (w \notin DOMAIN at.jobs => cause'[w] = cause[w])
         /\ at.kind = "remove" => \A w \in DOMAIN at.jobs : "refused" \in cause'[w]
         /\ at.kind = "update" /\ J.play = 0 => \A w \in DOMAIN at.jobs : "abandoned" \in cause'[w]
<1>1. /\ at.kind = "remove" => cause' = Blame(DOMAIN at.jobs, "refused")
      /\ at.kind = "update" /\ J.play = 0 => cause' = Blame(DOMAIN at.jobs, "abandoned")
      /\ at.kind # "remove" /\ ~(at.kind = "update" /\ J.play = 0) => cause' = cause
  BY DEF GivenUp
<1>2. "refused" \in Cause /\ "abandoned" \in Cause /\ cause \in [Watch -> SUBSET Cause]
  BY DEF Cause, Shape
<1>3. \A w \in DOMAIN at.jobs : w \in Watch
  BY HandFacts
<1>4. CASE at.kind = "remove"
  BY <1>1, <1>2, <1>3, <1>4 DEF Blame
<1>5. CASE at.kind = "update" /\ J.play = 0
  BY <1>1, <1>2, <1>3, <1>5 DEF Blame
<1>6. CASE at.kind # "remove" /\ ~(at.kind = "update" /\ J.play = 0)
  BY <1>1, <1>2, <1>6
<1> QED BY <1>4, <1>5, <1>6

\* A delivery that ends with the provider's plays as they were.
LEMMA PushUndone ==
  ASSUME Shape, NEW w \in DOMAIN at.jobs, InvOf(w), Left(w), at.kind = "push", plays' = plays,
         UpdateRests(w), RemoveRests(w), sync'[w].status # "none", sync'[w].play = sync[w].play,
         Waits("push", w)' => queue'["push", w].day = at.jobs[w].day,
         Calm(w)' /\ provider \in {"trakt", "publicmetadb"} /\ Waits("push", w)' /\ queue'["push", w].attempts = 0 =>
            Of(w) = {},
         sync'[w].status = "succeeded" => Waits("push", w)'
  PROVE  InvOf(w)'
<1>1. OnePlay(w) /\ InHand("push", w)
  BY InHandFacts DEF InvOf
<1>2. Of(w)' = Of(w)
  BY DEF Of
<1>3. Calm(w)' => /\ \A p, q \in Of(w)' : p = q
                  /\ provider # "simkl" => \A p \in Of(w)' : p.day = at.jobs[w].day
  BY <1>1, <1>2 DEF OnePlay, PushIsFirst, Left
<1> QED BY <1>2, <1>3, PushLeaves

LEMMA UpdateUndone ==
  ASSUME Shape, NEW w \in DOMAIN at.jobs, InvOf(w), Left(w), at.kind = "update", plays' = plays,
         at.step # "settle" \/ "resent" \in cause'[w],
         PushRests(w), RemoveRests(w), sync'[w].status # "none",
         \/ UpdateRests(w)
         \/ /\ ~Waits("update", w) /\ Waits("update", w)' /\ queue'["update", w].day = at.jobs[w].day
            /\ queue'["update", w].was = at.jobs[w].was /\ queue'["update", w].play = at.jobs[w].play,
         ~Waits("update", w) => sync'[w].play = sync[w].play,
         sync'[w].play = sync[w].play \/ sync'[w].play # 0,
         Calm(w)' /\ provider = "trakt" /\ ~Waits("update", w)' => at.jobs[w].play # 0,
         sync'[w].status = "succeeded" => Waits("update", w)'
  PROVE  InvOf(w)'
<1>1. OnePlay(w) /\ InHand("update", w)
  BY InHandFacts DEF InvOf
<1>2. Of(w)' = Of(w) /\ (Calm(w)' => Calm(w))
  BY DEF Of, Left
<1>3. Calm(w)' => \A p, q \in Of(w)' : p = q
  BY <1>1, <1>2 DEF OnePlay
<1>4. Calm(w)' /\ provider \in {"trakt", "publicmetadb"} => at.step # "settle"
  BY DEF Calm, Doubling, Left
<1>5. Calm(w)' /\ provider \in {"trakt", "publicmetadb"} =>
        /\ ~Waits("update", w) /\ sync'[w].play = sync[w].play /\ at.jobs[w].play \in {0, sync[w].play}
        /\ \/ sync'[w].play = 0
           \/ Of(w)' = {}
           \/ \E p \in plays' : p.id = sync'[w].play
  BY <1>1, <1>2, <1>4 DEF OnePlay, KnowsPlay, Stored
<1>6. Calm(w)' /\ provider = "trakt" /\ at.jobs[w].play = 0 =>
         \A p \in Of(w)' : p.day \in {at.jobs[w].was, at.jobs[w].day}
  BY <1>1, <1>2, <1>4 DEF OnePlay, KnowsDay
<1>7. Calm(w)' /\ provider = "trakt" /\ sync'[w].play = 0 /\ ~Waits("update", w)' => Of(w)' = {}
  BY <1>5
<1> QED BY <1>3, <1>5, <1>6, <1>7, UpdateLeaves

LEMMA RemoveUndone ==
  ASSUME Shape, NEW w \in DOMAIN at.jobs, InvOf(w), Left(w), at.kind = "remove", plays' = plays,
         PushRests(w), UpdateRests(w), sync'[w] = sync[w],
         Heard(w)' => \/ at.step # "remove"
                      \/ Of(w) = {}
                      \/ Waits("remove", w)' /\ queue'["remove", w].play = at.jobs[w].play
  PROVE  InvOf(w)'
<1>1. Cleared(w) /\ ~Waits("remove", w)
  BY InHandFacts DEF InvOf
<1>2. Of(w)' = Of(w)
  BY DEF Of
<1>3. Cleared(w)'
  <2> SUFFICES ASSUME (watch[w].state = "gone")', Heard(w)', Of(w) # {} PROVE Cleared(w)'
    BY <1>2 DEF Cleared
  <2>1. at.step = "remove" /\ at.found = at.jobs[w].play /\ Takes(w, at.found)
    BY <1>1 DEF Cleared, Left
  <2>2. Waits("remove", w)' /\ queue'["remove", w].play = at.found
    BY <2>1
  <2>3. Takes(w, queue["remove", w].play)'
    BY <1>2, <2>1, <2>2 DEF Takes, Left
  <2> QED BY <2>2, <2>3 DEF Cleared
<1> QED BY <1>2, <1>3, RemoveLeaves

LEMMA FewerAttempts ==
  \A n \in 1 .. MaxAttempts : n - 0 # 0 /\ (n - 1 = 0 => n = 1)
BY Bounds

LEMMA UnsentKeeps ==
  ASSUME IInv, Unsent
  PROVE  IInv'
<1>1. /\ at.step \in {"check", "remove", "add", "move"} /\ Fails /\ plays' = plays /\ made' = made
      /\ cause' = IF \E w \in DOMAIN at.jobs : Exhausted(w) THEN GivenUp ELSE cause
  BY DEF Unsent
<1>2. Shape /\ at # NoDelivery /\ PlaysOK
  BY <1>1, NothingHeld DEF IInv, Shape
<1>3. /\ at' = NoDelivery /\ provider' = provider /\ watch' = watch /\ events' \in 0 .. MaxEvents
      /\ QueueOK' /\ sync' \in [Watch -> [status : Status, play : Id]]
      /\ \A w \in Watch : w \notin DOMAIN at.jobs => SameRows(w)
      /\ \A w \in DOMAIN at.jobs : Failed(w)
  BY <1>1, <1>2, FailsFacts
<1>4. /\ cause' \in [Watch -> SUBSET Cause]
      /\ \A w \in Watch : cause[w] \subseteq cause'[w] /\ (w \notin DOMAIN at.jobs => cause'[w] = cause[w])
      /\ (\E w \in DOMAIN at.jobs : Exhausted(w)) =>
            /\ at.kind = "remove" => \A w \in DOMAIN at.jobs : "refused" \in cause'[w]
            /\ at.kind = "update" /\ J.play = 0 => \A w \in DOMAIN at.jobs : "abandoned" \in cause'[w]
  BY <1>1, <1>2, GivenUpFacts DEF Shape
<1>5. Shape'
  <2>1. PlaysOK'
    BY <1>1, <1>2, <1>3 DEF PlaysOK
  <2> QED BY <1>2, <1>3, <1>4, <2>1, NothingOK DEF Shape
<1>6. \A w \in Watch : w \notin DOMAIN at.jobs => SameRows(w) /\ SamePlays(w)
  BY <1>1, <1>3, <1>4 DEF SamePlays, Of
<1>7. \A w \in Watch : w \in DOMAIN at.jobs => InvOf(w)'
  <2> SUFFICES ASSUME NEW w \in Watch, w \in DOMAIN at.jobs PROVE InvOf(w)'
    OBVIOUS
  <2>1. InvOf(w) /\ Lifecycle(w) /\ OnePlay(w)
    BY DEF IInv, InvOf
  <2>2. Left(w) /\ Failed(w)
    BY <1>3, <1>4, Leaves
  <2>3. /\ at.kind \in {"push", "update", "remove"}
        /\ InHand("push", w) <=> at.kind = "push"
        /\ sync[w].status = "none" => at.kind = "remove"
        /\ at.jobs[w].attempts \in 1 .. MaxAttempts
    BY <1>2, <2>1, InHandFacts, HandFacts
  <2>4. at.kind # "remove" => Live(w)
    BY <2>1, <2>3 DEF Lifecycle, Live
  <2>5. ASSUME at.kind = "push" PROVE InvOf(w)'
    <3>1. ~Waits("push", w)
      BY <2>1, <2>3, <2>5 DEF Lifecycle
    <3>2. /\ UpdateRests(w) /\ RemoveRests(w) /\ sync'[w].status # "none" /\ sync'[w].play = sync[w].play
          /\ sync'[w].status # "succeeded"
      BY <2>2, <2>3, <2>4, <2>5, <3>1 DEF Failed, Returned
    <3>3. Waits("push", w)' => queue'["push", w].day = at.jobs[w].day /\ queue'["push", w].attempts = at.jobs[w].attempts - 0
      BY <2>2, <2>5, <3>1 DEF Failed, Returned
    <3>4. Waits("push", w)' => queue'["push", w].attempts # 0
      BY <2>3, <3>3, FewerAttempts
    <3> QED BY <1>1, <1>2, <2>1, <2>2, <2>5, <3>2, <3>3, <3>4, PushUndone
  <2>6. ASSUME at.kind = "update" PROVE InvOf(w)'
    <3>1. /\ PushRests(w) /\ RemoveRests(w) /\ sync'[w].status # "none"
          /\ ~Waits("update", w) => sync'[w].play = sync[w].play
          /\ sync'[w].play = sync[w].play \/ sync'[w].play # 0
          /\ \/ UpdateRests(w)
             \/ /\ ~Waits("update", w) /\ Waits("update", w)' /\ queue'["update", w].day = at.jobs[w].day
                /\ queue'["update", w].was = at.jobs[w].was /\ queue'["update", w].play = at.jobs[w].play
          /\ sync'[w].status = "succeeded" => Waits("update", w)
          /\ ~Exhausted(w) => Waits("update", w)'
      BY <2>2, <2>3, <2>4, <2>6 DEF Failed, Returned, Again
    <3>2. sync'[w].status = "succeeded" => Waits("update", w)'
      BY <3>1 DEF UpdateRests
    <3>3. J = at.jobs[w]
      BY <1>2, <2>6, AloneOrBatch
    <3>4. Calm(w)' /\ provider = "trakt" /\ ~Waits("update", w)' => at.jobs[w].play # 0
      BY <1>3, <1>4, <2>6, <3>1, <3>3 DEF Calm, Doubling
    <3> QED BY <1>1, <1>2, <2>1, <2>2, <2>6, <3>1, <3>2, <3>4, UpdateUndone
  <2>7. ASSUME at.kind = "remove" PROVE InvOf(w)'
    <3>1. PushRests(w) /\ UpdateRests(w) /\ sync'[w] = sync[w] /\ ~Waits("remove", w)
          /\ (~Exhausted(w) => Waits("remove", w)')
          /\ (Waits("remove", w)' => queue'["remove", w].play = at.jobs[w].play)
      BY <1>2, <2>1, <2>2, <2>7, InHandFacts DEF Failed, Returned, Again
    <3>2. Heard(w)' => ~Exhausted(w)
      BY <1>4, <2>7 DEF Heard
    <3> QED BY <1>1, <1>2, <2>1, <2>2, <2>7, <3>1, <3>2, RemoveUndone
  <2> QED BY <2>3, <2>5, <2>6, <2>7
<1> QED BY <1>3, <1>5, <1>6, <1>7, NothingOK, InHandOrElse

LEMMA RefusedKeeps ==
  ASSUME IInv, Refused
  PROVE  IInv'
<1> DEFINE status == [w \in DOMAIN at.jobs |-> "failed_permanent"]
<1>1. /\ at.step \in {"check", "remove", "add", "move"} /\ sync' = SyncAfter(status) /\ at' = NoDelivery
      /\ cause' = IF Gone THEN cause ELSE GivenUp
      /\ provider' = provider /\ watch' = watch /\ queue' = queue /\ plays' = plays /\ made' = made
  BY DEF Refused
<1>2. Shape /\ at # NoDelivery /\ PlaysOK
  BY <1>1, NothingHeld DEF IInv, Shape
<1>3. events' \in 0 .. MaxEvents
  <2>1. CASE events' = events
    BY <1>2, <2>1 DEF Shape
  <2>2. CASE Event
    BY <1>2, <2>2, EventFacts
  <2> QED BY <2>1, <2>2 DEF Refused
<1>4. /\ sync' \in [Watch -> [status : Status, play : Id]]
      /\ \A w \in Watch : w \notin DOMAIN at.jobs \/ at.kind = "remove" \/ ~Live(w) => sync'[w] = sync[w]
      /\ \A w \in DOMAIN at.jobs : at.kind # "remove" /\ Live(w) =>
               sync'[w].status = "failed_permanent" /\ sync'[w].play = sync[w].play
  <2>1. \A w \in DOMAIN at.jobs : status[w] \in Status /\ status[w] = "failed_permanent"
    BY DEF Status
  <2> HIDE DEF status
  <2> QED BY <1>1, <1>2, <2>1, SyncFacts
<1>5. /\ cause' \in [Watch -> SUBSET Cause]
      /\ \A w \in Watch : cause[w] \subseteq cause'[w] /\ (w \notin DOMAIN at.jobs => cause'[w] = cause[w])
      /\ ~Gone => /\ at.kind = "remove" => \A w \in DOMAIN at.jobs : "refused" \in cause'[w]
                  /\ at.kind = "update" /\ J.play = 0 => \A w \in DOMAIN at.jobs : "abandoned" \in cause'[w]
  BY <1>1, <1>2, GivenUpFacts DEF Shape
<1>6. Shape'
  <2>1. QueueOK' /\ PlaysOK'
    BY <1>1, <1>2 DEF Shape, QueueOK, Waits, PlaysOK
  <2> QED BY <1>1, <1>2, <1>3, <1>4, <1>5, <2>1, NothingOK DEF Shape
<1>7. \A w \in Watch : w \notin DOMAIN at.jobs => SameRows(w) /\ SamePlays(w)
  BY <1>1, <1>4, <1>5 DEF SameRows, SamePlays, Of
<1>8. \A w \in Watch : w \in DOMAIN at.jobs => InvOf(w)'
  <2> SUFFICES ASSUME NEW w \in Watch, w \in DOMAIN at.jobs PROVE InvOf(w)'
    OBVIOUS
  <2>1. InvOf(w) /\ Lifecycle(w) /\ Cleared(w)
    BY DEF IInv, InvOf
  <2>2. Left(w) /\ PushRests(w) /\ UpdateRests(w) /\ RemoveRests(w) /\ Of(w)' = Of(w)
    BY <1>1, <1>5, Leaves DEF PushRests, UpdateRests, RemoveRests, Waits, Of
  <2>3. /\ at.kind \in {"push", "update", "remove"}
        /\ InHand("push", w) <=> at.kind = "push"
        /\ sync[w].status = "none" => at.kind = "remove"
    BY <1>2, <2>1, InHandFacts
  <2>4. at.kind # "remove" => Live(w)
    BY <2>1, <2>3 DEF Lifecycle, Live
  <2>5. at.kind # "remove" => /\ sync'[w].status # "none" /\ sync'[w].status # "succeeded"
                              /\ sync'[w].play = sync[w].play
    BY <1>4, <2>4
  <2>6. ASSUME at.kind = "push" PROVE InvOf(w)'
    <3>1. ~Waits("push", w)'
      BY <2>1, <2>2, <2>3, <2>6 DEF Lifecycle, PushRests
    <3> QED BY <1>1, <1>2, <2>1, <2>2, <2>5, <2>6, <3>1, PushUndone
  <2>7. ASSUME at.kind = "update" PROVE InvOf(w)'
    <3>1. J = at.jobs[w]
      BY <1>2, <2>7, AloneOrBatch
    <3>2. Calm(w)' /\ provider = "trakt" => at.jobs[w].play # 0
      BY <1>1, <1>5, <2>7, <3>1 DEF Calm, Doubling, Gone
    <3> QED BY <1>1, <1>2, <2>1, <2>2, <2>5, <2>7, <3>2, UpdateUndone
  <2>8. ASSUME at.kind = "remove" PROVE InvOf(w)'
    <3>1. Heard(w)' => Gone
      BY <1>5, <2>8 DEF Heard
    <3>2. Gone /\ Heard(w) => Of(w) = {}
      <4>1. watch[w].state = "gone" /\ ~Waits("remove", w)
        BY <1>2, <2>1, <2>8, InHandFacts
      <4> QED BY <2>1, <4>1 DEF Cleared, Gone, Takes, Of
    <3> QED BY <1>1, <1>2, <1>4, <2>1, <2>2, <2>8, <3>1, <3>2, RemoveUndone DEF Left
  <2> QED BY <2>3, <2>6, <2>7, <2>8
<1> QED BY <1>1, <1>6, <1>7, <1>8, NothingOK, InHandOrElse

LEMMA CrashBlames ==
  ASSUME Shape, at # NoDelivery, DeliveryCrash
  PROVE  /\ cause' \in [Watch -> SUBSET Cause]
         /\ \A w \in Watch : cause[w] \subseteq cause'[w] /\ (w \notin DOMAIN at.jobs => cause'[w] = cause[w])
         /\ at.step = "settle" /\ at.kind = "update" => \A w \in DOMAIN at.jobs : "resent" \in cause'[w]
         /\ at.step = "settle" /\ at.kind = "push" =>
               \A w \in DOMAIN at.jobs : at.jobs[w].attempts = 1 => "forgotten" \in cause'[w]
<1> DEFINE first == {w \in DOMAIN at.jobs : at.jobs[w].attempts = 1}
<1>1. /\ at.step # "settle" => cause' = cause
      /\ at.step = "settle" /\ at.kind = "update" => cause' = Blame(DOMAIN at.jobs, "resent")
      /\ at.step = "settle" /\ at.kind = "push" => cause' = Blame(first, "forgotten")
      /\ at.step = "settle" /\ at.kind # "update" /\ at.kind # "push" => cause' = cause
  BY DEF DeliveryCrash
<1>2. "resent" \in Cause /\ "forgotten" \in Cause /\ cause \in [Watch -> SUBSET Cause]
  BY DEF Cause, Shape
<1>3. \A w \in DOMAIN at.jobs : w \in Watch
  BY HandFacts
<1>4. CASE at.step = "settle" /\ at.kind = "update"
  BY <1>1, <1>2, <1>3, <1>4 DEF Blame
<1>5. CASE at.step = "settle" /\ at.kind = "push"
  BY <1>1, <1>2, <1>3, <1>5 DEF Blame
<1>6. CASE ~(at.step = "settle" /\ at.kind \in {"push", "update"})
  BY <1>1, <1>2, <1>6
<1> QED BY <1>4, <1>5, <1>6

LEMMA DeliveryCrashKeeps ==
  ASSUME IInv, DeliveryCrash
  PROVE  IInv'
<1>1. /\ at # NoDelivery /\ Event /\ queue' = Requeued(DOMAIN at.jobs, 1) /\ at' = NoDelivery
      /\ UNCHANGED <<provider, watch, sync, plays, made>>
  BY DEF DeliveryCrash
<1>2. Shape /\ PlaysOK /\ events' \in 0 .. MaxEvents
  BY <1>1, EventFacts DEF IInv, Shape
<1>3. /\ QueueOK'
      /\ \A w \in Watch : w \notin DOMAIN at.jobs => \A k \in Kind : queue'[k, w] = queue[k, w]
      /\ \A w \in DOMAIN at.jobs : Returned(w, 1) /\ Again(w)
  BY <1>1, <1>2, ReturnedFacts
<1>4. /\ cause' \in [Watch -> SUBSET Cause]
      /\ \A w \in Watch : cause[w] \subseteq cause'[w] /\ (w \notin DOMAIN at.jobs => cause'[w] = cause[w])
      /\ at.step = "settle" /\ at.kind = "update" => \A w \in DOMAIN at.jobs : "resent" \in cause'[w]
      /\ at.step = "settle" /\ at.kind = "push" =>
            \A w \in DOMAIN at.jobs : at.jobs[w].attempts = 1 => "forgotten" \in cause'[w]
  BY <1>1, <1>2, CrashBlames
<1>5. Shape'
  <2>1. PlaysOK'
    BY <1>1, <1>2 DEF PlaysOK
  <2> QED BY <1>1, <1>2, <1>3, <1>4, <2>1, NothingOK DEF Shape
<1>6. \A w \in Watch : w \notin DOMAIN at.jobs => SameRows(w) /\ SamePlays(w)
  BY <1>1, <1>3, <1>4 DEF SameRows, SamePlays, Of
<1>7. \A w \in Watch : w \in DOMAIN at.jobs => InvOf(w)'
  <2> SUFFICES ASSUME NEW w \in Watch, w \in DOMAIN at.jobs PROVE InvOf(w)'
    OBVIOUS
  <2>1. InvOf(w) /\ Lifecycle(w) /\ OnePlay(w) /\ Cleared(w)
    BY DEF IInv, InvOf
  <2>2. Left(w) /\ Returned(w, 1) /\ Again(w) /\ plays' = plays /\ sync'[w] = sync[w] /\ provider' = provider
    BY <1>1, <1>3, <1>4, Leaves
  <2>3. /\ at.kind \in {"push", "update", "remove"}
        /\ InHand("push", w) <=> at.kind = "push"
        /\ InHand("update", w) <=> at.kind = "update"
        /\ sync[w].status = "none" => at.kind = "remove"
        /\ at.jobs[w].attempts \in 1 .. MaxAttempts
    BY <1>2, <2>1, InHandFacts, HandFacts
  <2>5. ASSUME at.kind = "push" PROVE InvOf(w)'
    <3>1. ~Waits("push", w)
      BY <2>1, <2>3, <2>5 DEF Lifecycle
    <3>2. /\ UpdateRests(w) /\ RemoveRests(w) /\ Waits("push", w)'
          /\ queue'["push", w].day = at.jobs[w].day /\ queue'["push", w].attempts = at.jobs[w].attempts - 1
      BY <2>2, <2>5, <3>1 DEF Returned, Again
    <3>3. queue'["push", w].attempts = 0 => at.jobs[w].attempts = 1
      BY <2>3, <3>2, FewerAttempts
    <3>4. Calm(w)' /\ provider \in {"trakt", "publicmetadb"} /\ queue'["push", w].attempts = 0 => Of(w) = {}
      <4>1. CASE at.step = "settle"
        BY <1>4, <2>2, <2>5, <3>3, <4>1 DEF Calm, Doubling
      <4>2. CASE at.step # "settle"
        BY <2>1, <2>2, <2>3, <2>5, <3>3, <4>2 DEF OnePlay, LooksAgain, Left
      <4> QED BY <4>1, <4>2
    <3> QED BY <1>2, <2>1, <2>2, <2>3, <2>5, <3>2, <3>4, PushUndone
  <2>6. ASSUME at.kind = "update" PROVE InvOf(w)'
    <3>1. /\ PushRests(w) /\ RemoveRests(w) /\ Waits("update", w)'
          /\ \/ UpdateRests(w)
             \/ /\ ~Waits("update", w) /\ Waits("update", w)' /\ queue'["update", w].day = at.jobs[w].day
                /\ queue'["update", w].was = at.jobs[w].was /\ queue'["update", w].play = at.jobs[w].play
      BY <2>2, <2>6 DEF Returned, Again
    <3>2. at.step # "settle" \/ "resent" \in cause'[w]
      BY <1>4, <2>6
    <3> QED BY <1>2, <2>1, <2>2, <2>3, <2>6, <3>1, <3>2, UpdateUndone
  <2>7. ASSUME at.kind = "remove" PROVE InvOf(w)'
    <3>1. PushRests(w) /\ UpdateRests(w) /\ Waits("remove", w)' /\ queue'["remove", w].play = at.jobs[w].play
      BY <1>2, <2>1, <2>2, <2>7, InHandFacts DEF Returned, Again
    <3> QED BY <1>2, <2>1, <2>2, <2>7, <3>1, RemoveUndone
  <2> QED BY <2>3, <2>5, <2>6, <2>7
<1> QED BY <1>1, <1>5, <1>6, <1>7, NothingOK, InHandOrElse

-----------------------------------------------------------------------------
(* What a request does to the plays.                                       *)

\* Whom a request disturbs.
Swept(S, also) ==
    /\ cause' \in [Watch -> SUBSET Cause]
    /\ \A w \in Watch : cause[w] \subseteq cause'[w]
    /\ \A w \in Watch : w \in S /\ w \notin DOMAIN at.jobs => "swept" \in cause'[w]
    /\ \A w \in Watch : w \in DOMAIN at.jobs => also \subseteq cause'[w]
    /\ \A w \in Watch : w \in DOMAIN at.jobs /\ ~(S \subseteq DOMAIN at.jobs) => "mistook" \in cause'[w]

LEMMA SweepFacts ==
  ASSUME Shape, NEW S, NEW also \in SUBSET Cause, cause' = Sweep(S, also)
  PROVE  Swept(S, also)
<1>1. cause \in [Watch -> SUBSET Cause] /\ "swept" \in Cause /\ "mistook" \in Cause
  BY DEF Shape, Cause
<1>2. \A w \in Watch : cause'[w] = cause[w]
                     \cup (IF w \in S \ DOMAIN at.jobs THEN {"swept"} ELSE {})
                     \cup (IF w \in DOMAIN at.jobs
                            THEN also \cup IF S \subseteq DOMAIN at.jobs THEN {} ELSE {"mistook"}
                            ELSE {})
  BY DEF Sweep
<1>3. cause' \in [Watch -> SUBSET Cause]
  BY <1>1 DEF Sweep
<1> QED BY <1>2, <1>3 DEF Swept

\* Plays are taken away.
LEMMA RemovalFacts ==
  ASSUME Shape, NEW P \in SUBSET plays, plays' = plays \ P, made' = made, provider' = provider,
         NEW also \in SUBSET Cause, Swept(Sharers(P), also)
  PROVE  /\ PlaysOK'
         /\ \A w \in Watch : Of(w)' \subseteq Of(w)
         /\ \A w \in Watch : w \notin DOMAIN at.jobs => SamePlays(w)
<1>1. PlaysOK'
  BY DEF Shape, PlaysOK
<1>2. \A w \in Watch : Of(w)' \subseteq Of(w)
  BY DEF Of
<1>3. ASSUME NEW w \in Watch, w \notin DOMAIN at.jobs PROVE SamePlays(w)
  <2>1. w \notin Sharers(P) => Of(w)' = Of(w) /\ \A p \in plays : p.id = sync[w].play => p \in plays'
    BY DEF Sharers, Of
  <2>2. Of(w)' \subseteq Of(w)
    BY DEF Of
  <2> QED BY <1>3, <2>1, <2>2 DEF SamePlays, Swept
<1> QED BY <1>1, <1>2, <1>3

LEMMA ConflictKeeps ==
  ASSUME IInv, NEW p \in plays, Conflict(p)
  PROVE  IInv'
<1>1. /\ at.step = "add" /\ at.kind = "push" /\ provider = "publicmetadb" /\ plays' = plays \ {p}
      /\ cause' = Sweep(Sharers({p}), {})
      /\ UNCHANGED <<provider, watch, sync, queue, at, made, events>>
  BY DEF Conflict
<1>2. Shape
  BY DEF IInv
<1>3. Swept(Sharers({p}), {})
  BY <1>1, <1>2, SweepFacts
<1>4. /\ PlaysOK'
      /\ \A w \in Watch : Of(w)' \subseteq Of(w)
      /\ \A w \in Watch : w \notin DOMAIN at.jobs => SamePlays(w)
  BY <1>1, <1>2, <1>3, RemovalFacts
<1>5. Shape'
  <2>1. QueueOK' /\ HandOK'
    BY <1>1, <1>2 DEF Shape, QueueOK, Waits, HandOK, Steps
  <2> QED BY <1>1, <1>2, <1>3, <1>4, <2>1 DEF Shape, Swept
<1>6. \A w \in Watch : w \notin DOMAIN at.jobs => SameRows(w) /\ SamePlays(w)
  BY <1>1, <1>4 DEF SameRows
<1>7. \A w \in Watch : w \in DOMAIN at.jobs => InvOf(w)'
  <2> SUFFICES ASSUME NEW w \in Watch, w \in DOMAIN at.jobs PROVE InvOf(w)'
    OBVIOUS
  <2>1. InvOf(w) /\ Lifecycle(w) /\ OnePlay(w) /\ Tracked(w)
    BY DEF IInv, InvOf
  <2>2. /\ InHand("push", w) /\ ~InHand("update", w) /\ ~InHand("remove", w) /\ sync[w].status # "none"
    BY <1>1, <1>2, <2>1, InHandFacts
  <2>3. Live(w) /\ watch[w].state = "live" /\ watch[w].day \in Day
    BY <2>1, <2>2 DEF Lifecycle, Live
  <2>4. Lifecycle(w)' /\ Carried(w)
    BY <1>1, <1>2, <1>3, <2>1, <2>3, Onward DEF Swept
  <2>5. OnePlay(w)'
    <3>1. Of(w)' \subseteq Of(w)
      BY <1>4
    <3>2. PushIsFirst(w) => PushIsFirst(w)' /\ sync[w].play = 0
      BY <1>1, <2>2, <2>4, <3>1 DEF PushIsFirst, Carried, Pushes
    <3>3. LooksAgain(w) => LooksAgain(w)'
      BY <1>1, <2>2, <2>4, <3>1 DEF LooksAgain, Carried
    <3>4. KnowsPlay(w) /\ sync[w].play = 0 => KnowsPlay(w)'
      BY <1>1, <2>2, <2>4 DEF KnowsPlay, Carried
    <3> QED BY <1>1, <2>1, <2>4, <3>1, <3>2, <3>3, <3>4 DEF OnePlay, Carried
  <2>6. Tracked(w)'
    BY <1>1, <2>1, <2>2, <2>4 DEF Tracked, Carried, Pushes
  <2>7. Cleared(w)'
    BY <1>1, <2>3 DEF Cleared
  <2> QED BY <2>4, <2>5, <2>6, <2>7 DEF InvOf
<1> QED BY <1>1, <1>5, <1>6, <1>7, InHandOrElse

\* A watch in hand gets a play, or the one play SIMKL keeps is another watch's.
Added(w) ==
    \/ provider = "simkl" /\ "swept" \in cause'[w]
    \/ \E p \in plays' : /\ p.of = w /\ p.day = at.jobs[w].day /\ Of(w)' \subseteq Of(w) \cup {p}
                         /\ Cardinality(DOMAIN at.jobs) = 1 => p.id = made'

LEMMA NewIdFacts ==
  ASSUME Shape, at # NoDelivery, NEW id \in NewIds, made' = made + Cardinality(DOMAIN at.jobs), made' <= MaxPlays
  PROVE  /\ made' \in Id /\ made <= made'
         /\ \A w \in DOMAIN at.jobs : id[w] \in Id \ {0} /\ id[w] <= made' /\ id[w] > made
         /\ \A v, w \in DOMAIN at.jobs : v # w => id[v] # id[w]
         /\ Cardinality(DOMAIN at.jobs) = 1 => \A w \in DOMAIN at.jobs : id[w] = made'
<1> DEFINE n == Cardinality(DOMAIN at.jobs)
<1>1. n \in Nat
  <2>1. \A w \in DOMAIN at.jobs : w \in Watch
    BY HandFacts
  <2>2. IsFiniteSet(DOMAIN at.jobs)
    BY <2>1, DataAssumption, FS_Subset
  <2> QED BY <2>2, FS_CardinalityType
<1>2. made \in 0 .. MaxPlays /\ made' = made + n
  BY DEF Shape, PlaysOK, Id
<1>3. \A w \in DOMAIN at.jobs : id[w] \in made + 1 .. made + n
  BY DEF NewIds
<1>4. \A v, w \in DOMAIN at.jobs : v # w => id[v] # id[w]
  BY DEF NewIds
<1> HIDE DEF n
<1>5. made' \in 0 .. MaxPlays /\ made <= made'
  BY <1>1, <1>2, Bounds
<1>6. \A x \in made + 1 .. made + n : x \in 0 .. MaxPlays /\ x # 0 /\ x <= made' /\ x > made /\ (n = 1 => x = made')
  BY <1>1, <1>2, <1>5, Bounds
<1>7. made' \in Id /\ \A w \in DOMAIN at.jobs : id[w] \in Id \ {0}
  BY <1>3, <1>5, <1>6 DEF Id
<1>8. \A w \in DOMAIN at.jobs : id[w] <= made' /\ id[w] > made /\ (n = 1 => id[w] = made')
  BY <1>3, <1>6
<1> QED BY <1>4, <1>5, <1>7, <1>8 DEF n

LEMMA AddFacts ==
  ASSUME Shape, at # NoDelivery, provider' = provider, NEW also \in SUBSET Cause, AddEffect(also)
  PROVE  /\ PlaysOK' /\ cause' \in [Watch -> SUBSET Cause]
         /\ \A w \in Watch : cause[w] \subseteq cause'[w]
         /\ \A w \in Watch : w \notin DOMAIN at.jobs => SamePlays(w)
         /\ \A w \in DOMAIN at.jobs : also \subseteq cause'[w] /\ Added(w)
<1>1. made' = made + Cardinality(DOMAIN at.jobs) /\ made' <= MaxPlays
  BY DEF AddEffect
<1> DEFINE new(id, w) == [id |-> id[w], of |-> w, day |-> at.jobs[w].day]
<1> DEFINE all(id) == {new(id, w) : w \in DOMAIN at.jobs}
<1>2. PICK id \in NewIds :
          IF provider = "simkl"
          THEN \E p \in all(id) : /\ plays' = {p}
                                  /\ cause' = Sweep(Sharers(plays), also \cup IF all(id) = {p} THEN {} ELSE {"swept"})
          ELSE plays' = plays \cup all(id) /\ cause' = Sweep({}, also)
  BY DEF AddEffect
<1>3. /\ made' \in Id /\ made <= made'
      /\ \A w \in DOMAIN at.jobs : id[w] \in Id \ {0} /\ id[w] <= made' /\ id[w] > made
      /\ \A v, w \in DOMAIN at.jobs : v # w => id[v] # id[w]
      /\ Cardinality(DOMAIN at.jobs) = 1 => \A w \in DOMAIN at.jobs : id[w] = made'
  BY <1>1, NewIdFacts
<1>4. \A w \in DOMAIN at.jobs : w \in Watch /\ at.jobs[w].day \in Day
  BY HandFacts
<1>5. /\ plays \subseteq Play /\ made \in Id /\ \A p \in plays : p.id <= made
      /\ \A p, q \in plays : p.id = q.id => p = q
      /\ made \in Nat /\ made' \in Nat /\ \A p \in plays : p.id \in Nat
      /\ \A w \in DOMAIN at.jobs : id[w] \in Nat
  <2>1. Id \subseteq Nat
    BY Bounds DEF Id
  <2> QED BY <1>3, <2>1 DEF Shape, PlaysOK, Play
<1>6. \A w \in DOMAIN at.jobs : /\ new(id, w) \in Play /\ new(id, w).id = id[w] /\ new(id, w).of = w
                                /\ new(id, w).day = at.jobs[w].day
  BY <1>3, <1>4 DEF Play
<1>7. "swept" \in Cause
  BY DEF Cause
<1>8. ASSUME provider = "simkl"
      PROVE  /\ PlaysOK' /\ cause' \in [Watch -> SUBSET Cause]
             /\ \A w \in Watch : cause[w] \subseteq cause'[w]
             /\ \A w \in Watch : w \notin DOMAIN at.jobs => SamePlays(w)
             /\ \A w \in DOMAIN at.jobs : also \subseteq cause'[w] /\ Added(w)
  <2>1. PICK v \in DOMAIN at.jobs :
          /\ plays' = {new(id, v)}
          /\ cause' = Sweep(Sharers(plays), also \cup IF all(id) = {new(id, v)} THEN {} ELSE {"swept"})
    BY <1>2, <1>8
  <2>2. Swept(Sharers(plays), also \cup IF all(id) = {new(id, v)} THEN {} ELSE {"swept"})
    BY <1>7, <2>1, SweepFacts
  <2>3. \A w \in DOMAIN at.jobs : w # v => all(id) # {new(id, v)}
    BY <1>6
  <2> HIDE DEF new, all
  <2>4. PlaysOK'
    BY <1>3, <1>6, <2>1 DEF PlaysOK
  <2>5. ASSUME NEW w \in Watch, w \notin DOMAIN at.jobs PROVE SamePlays(w)
    <3>1. Of(w)' = {}
      BY <1>6, <2>1, <2>5 DEF Of
    <3>2. w \notin Sharers(plays) => Of(w) = {} /\ \A p \in plays : p.id # sync[w].play
      BY DEF Sharers, Of
    <3> QED BY <2>2, <2>5, <3>1, <3>2 DEF SamePlays, Swept
  <2>6. ASSUME NEW w \in DOMAIN at.jobs PROVE Added(w)
    <3>1. CASE w = v
      <4>1. Of(w)' \subseteq {new(id, v)}
        BY <2>1 DEF Of
      <4> QED BY <1>3, <1>6, <2>1, <3>1, <4>1 DEF Added
    <3>2. CASE w # v
      <4>1. "swept" \in cause'[w]
        BY <1>4, <2>2, <2>3, <3>2 DEF Swept
      <4> QED BY <1>8, <4>1 DEF Added
    <3> QED BY <3>1, <3>2
  <2>7. \A w \in DOMAIN at.jobs : also \subseteq cause'[w]
    BY <1>4, <2>2 DEF Swept
  <2> QED BY <2>2, <2>4, <2>5, <2>6, <2>7 DEF Swept
<1>9. ASSUME provider # "simkl"
      PROVE  /\ PlaysOK' /\ cause' \in [Watch -> SUBSET Cause]
             /\ \A w \in Watch : cause[w] \subseteq cause'[w]
             /\ \A w \in Watch : w \notin DOMAIN at.jobs => SamePlays(w)
             /\ \A w \in DOMAIN at.jobs : also \subseteq cause'[w] /\ Added(w)
  <2>1. plays' = plays \cup all(id) /\ cause' = Sweep({}, also)
    BY <1>2, <1>9
  <2>2. Swept({}, also)
    BY <2>1, SweepFacts
  <2>3. \A p \in plays' : p \in plays \/ \E w \in DOMAIN at.jobs : p = new(id, w)
    BY <2>1
  <2>4. \A w \in DOMAIN at.jobs : new(id, w) \in plays'
    BY <2>1
  <2>5. plays \subseteq plays'
    BY <2>1
  <2> HIDE DEF new, all
  <2>6. PlaysOK'
    <3>1. plays' \subseteq Play
      BY <1>5, <1>6, <2>3
    <3>2. \A p \in plays' : p.id <= made'
      BY <1>3, <1>5, <1>6, <2>3
    <3>3. \A p \in plays, w \in DOMAIN at.jobs : p.id # new(id, w).id
      BY <1>3, <1>5, <1>6
    <3>4. \A p, q \in plays' : p.id = q.id => p = q
      BY <1>3, <1>5, <1>6, <2>3, <3>3
    <3> QED BY <1>3, <1>9, <3>1, <3>2, <3>4 DEF PlaysOK
  <2>7. ASSUME NEW w \in Watch, w \notin DOMAIN at.jobs PROVE SamePlays(w)
    <3>1. Of(w)' = Of(w)
      BY <1>6, <2>3, <2>5, <2>7 DEF Of
    <3> QED BY <2>2, <2>5, <3>1 DEF SamePlays, Swept
  <2>8. ASSUME NEW w \in DOMAIN at.jobs PROVE Added(w)
    <3>1. Of(w)' \subseteq Of(w) \cup {new(id, w)}
      BY <1>6, <2>3 DEF Of
    <3> QED BY <1>3, <1>6, <2>4, <3>1 DEF Added
  <2>9. \A w \in DOMAIN at.jobs : also \subseteq cause'[w]
    BY <1>4, <2>2 DEF Swept
  <2> QED BY <2>2, <2>6, <2>7, <2>8, <2>9 DEF Swept
<1> QED BY <1>8, <1>9

\* An entry gets another day.
LEMMA MoveFacts ==
  ASSUME Shape, at # NoDelivery, at.step = "move", provider' = provider, NEW also \in SUBSET Cause, MoveEffect(also)
  PROVE  /\ PlaysOK' /\ cause' \in [Watch -> SUBSET Cause]
         /\ \A w \in Watch : cause[w] \subseteq cause'[w]
         /\ \A w \in Watch : w \notin DOMAIN at.jobs => SamePlays(w)
         /\ \A w \in Watch : (\A p, q \in Of(w) : p = q) => \A p, q \in Of(w)' : p = q
         /\ \A p \in plays : p.id = J.play => \E q \in plays' : q.id = J.play /\ q.day = J.day
<1>1. W \in Watch /\ DOMAIN at.jobs = {W} /\ J = at.jobs[W] /\ J.day \in Day
  BY Single, HandFacts
<1> DEFINE moved(p) == IF p.id = J.play THEN [p EXCEPT !.day = J.day] ELSE p
<1> DEFINE P == {p \in plays : p.id = J.play}
<1>2. /\ plays' = {moved(p) : p \in plays} /\ made' = made
      /\ cause' = Sweep(Sharers(P), also)
  BY DEF MoveEffect
<1>3. Swept(Sharers(P), also)
  BY <1>2, SweepFacts
<1>4. /\ plays \subseteq Play /\ made \in Id /\ \A p \in plays : p.id <= made
      /\ \A p, q \in plays : p.id = q.id => p = q
      /\ provider = "simkl" => \A p, q \in plays : p = q
  BY DEF Shape, PlaysOK
<1>5. \A p \in plays : /\ moved(p) \in Play /\ moved(p).id = p.id /\ moved(p).of = p.of
                       /\ (p.id = J.play => moved(p).day = J.day) /\ (p.id # J.play => moved(p) = p)
  BY <1>1, <1>4 DEF Play
<1>6. /\ \A q \in plays' : \E p \in plays : q = moved(p)
      /\ \A p \in plays : moved(p) \in plays'
  BY <1>2
<1> HIDE DEF moved
<1>7. PlaysOK'
  <2>1. plays' \subseteq Play
    BY <1>5, <1>6
  <2>2. \A q \in plays' : q.id <= made
    BY <1>4, <1>5, <1>6
  <2>3. \A q, r \in plays' : q.id = r.id => q = r
    BY <1>4, <1>5, <1>6
  <2>4. provider = "simkl" => \A q, r \in plays' : q = r
    BY <1>4, <1>6
  <2> QED BY <1>2, <1>4, <2>1, <2>2, <2>3, <2>4 DEF PlaysOK
<1>8. ASSUME NEW w \in Watch, w \notin DOMAIN at.jobs PROVE SamePlays(w)
  <2>1. ASSUME w \notin Sharers(P) PROVE Of(w)' = Of(w) /\ \A p \in plays : p.id = sync[w].play => p \in plays'
    <3>1. \A p \in plays : p.of = w \/ p.id = sync[w].play => p.id # J.play
      BY <2>1 DEF Sharers
    <3>2. \A p \in plays : p.id = sync[w].play => p \in plays'
      BY <1>5, <1>6, <3>1
    <3>3. Of(w)' = Of(w)
      BY <1>5, <1>6, <3>1 DEF Of
    <3> QED BY <3>2, <3>3
  <2>2. Of(w) = {} => Of(w)' = {}
    BY <1>5, <1>6 DEF Of
  <2> QED BY <1>3, <1>8, <2>1, <2>2 DEF SamePlays, Swept
<1>9. ASSUME NEW w \in Watch, \A p, q \in Of(w) : p = q PROVE \A p, q \in Of(w)' : p = q
  BY <1>5, <1>6, <1>9 DEF Of
<1>10. \A p \in plays : p.id = J.play => \E q \in plays' : q.id = J.play /\ q.day = J.day
  BY <1>5, <1>6
<1> QED BY <1>3, <1>7, <1>8, <1>9, <1>10 DEF Swept

\* A removal that took its watch's only play, or all it stands for, has left none.
LEMMA RemoveFacts ==
  ASSUME Shape, at # NoDelivery, at.step = "remove", provider' = provider, NEW also \in SUBSET Cause, RemoveEffect(also)
  PROVE  /\ PlaysOK' /\ Swept(Sharers(Removed), also)
         /\ \A w \in Watch : Of(w)' \subseteq Of(w)
         /\ \A w \in Watch : w \notin DOMAIN at.jobs => SamePlays(w)
         /\ \A w \in Watch : at.found = 0 \/ (\A p \in Of(w) : p.id = at.found) => Of(w)' = {}
         /\ \A w \in DOMAIN at.jobs :
               "mistook" \notin cause'[w] /\ at.found # 0 /\ (Of(w) = {} \/ Stored(at.found))
               /\ (\A p, q \in Of(w) : p = q) => Of(w)' = {}
<1>1. plays' = plays \ Removed /\ made' = made /\ cause' = Sweep(Sharers(Removed), also)
  BY DEF RemoveEffect
<1>2. Removed \subseteq plays
  BY DEF Removed
<1>3. Swept(Sharers(Removed), also)
  BY <1>1, SweepFacts
<1>4. /\ PlaysOK'
      /\ \A w \in Watch : Of(w)' \subseteq Of(w)
      /\ \A w \in Watch : w \notin DOMAIN at.jobs => SamePlays(w)
  BY <1>1, <1>2, <1>3, RemovalFacts
<1>5. \A w \in Watch : at.found = 0 \/ (\A p \in Of(w) : p.id = at.found) => Of(w)' = {}
  BY <1>1 DEF Removed, Of
<1>6. W \in Watch /\ DOMAIN at.jobs = {W}
  BY Single
<1>7. ASSUME NEW w \in DOMAIN at.jobs, "mistook" \notin cause'[w], at.found # 0,
             Of(w) = {} \/ Stored(at.found), \A p, q \in Of(w) : p = q
      PROVE  Of(w)' = {}
  <2>1. CASE Of(w) = {}
    BY <1>1, <2>1 DEF Of
  <2>2. CASE Stored(at.found)
    <3>1. PICK p \in plays : p.id = at.found
      BY <2>2 DEF Stored
    <3>2. p \in Removed /\ p.of \in Watch
      BY <3>1, <1>7 DEF Removed, Shape, PlaysOK, Play
    <3>3. p.of \in Sharers(Removed)
      BY <3>2 DEF Sharers
    <3>4. p.of = w
      BY <1>3, <1>6, <1>7, <3>3 DEF Swept
    <3>5. Of(w) = {p}
      BY <1>7, <3>1, <3>4 DEF Of
    <3> QED BY <1>1, <3>2, <3>5 DEF Of
  <2> QED BY <1>7, <2>1, <2>2
<1> QED BY <1>3, <1>4, <1>5, <1>7

LEMMA EffectFacts ==
  ASSUME Shape, at # NoDelivery, provider' = provider, NEW also \in SUBSET Cause, Effect(also)
  PROVE  /\ PlaysOK' /\ cause' \in [Watch -> SUBSET Cause]
         /\ \A w \in Watch : cause[w] \subseteq cause'[w]
         /\ \A w \in Watch : w \notin DOMAIN at.jobs => SamePlays(w)
         /\ \A w \in DOMAIN at.jobs : also \subseteq cause'[w]
         /\ at.step \in {"remove", "add", "move"}
         /\ at.step = "remove" => RemoveEffect(also) /\ Swept(Sharers(Removed), also)
         /\ at.step = "add" => AddEffect(also)
         /\ at.step = "move" => MoveEffect(also) /\ ~Gone
<1>1. \A w \in DOMAIN at.jobs : w \in Watch
  BY HandFacts
<1>2. CASE at.step = "remove"
  <2>1. RemoveEffect(also)
    BY <1>2 DEF Effect
  <2> QED BY <1>1, <1>2, <2>1, RemoveFacts DEF Swept
<1>3. CASE at.step = "add"
  <2>1. AddEffect(also)
    BY <1>3 DEF Effect
  <2> QED BY <1>3, <2>1, AddFacts
<1>4. CASE at.step = "move"
  <2>1. MoveEffect(also) /\ ~Gone
    BY <1>4 DEF Effect
  <2>2. \A w \in DOMAIN at.jobs : also \subseteq cause'[w]
    <3>1. cause' = Sweep(Sharers({p \in plays : p.id = J.play}), also)
      BY <2>1 DEF MoveEffect
    <3>2. Swept(Sharers({p \in plays : p.id = J.play}), also)
      BY <3>1, SweepFacts
    <3> QED BY <1>1, <3>2 DEF Swept
  <2> QED BY <1>4, <2>1, <2>2, MoveFacts
<1> QED BY <1>2, <1>3, <1>4 DEF Effect

LEMMA UnansweredKeeps ==
  ASSUME IInv, Unanswered
  PROVE  IInv'
<1> DEFINE also == IF at.kind = "update" /\ at.step = "add" THEN {"resent"} ELSE {}
<1>1. Effect(also) /\ Fails
  BY DEF Unanswered
<1>2. also \in SUBSET Cause /\ (at.kind = "update" /\ at.step = "add" => "resent" \in also)
  BY DEF Cause
<1> HIDE DEF also
<1>3. Shape /\ at # NoDelivery
  BY <1>1, NothingHeld DEF IInv, Effect
<1>4. /\ at' = NoDelivery /\ provider' = provider /\ watch' = watch /\ events' \in 0 .. MaxEvents
      /\ QueueOK' /\ sync' \in [Watch -> [status : Status, play : Id]]
      /\ \A w \in Watch : w \notin DOMAIN at.jobs => SameRows(w)
      /\ \A w \in DOMAIN at.jobs : Failed(w)
  BY <1>1, <1>3, FailsFacts
<1>5. /\ PlaysOK' /\ cause' \in [Watch -> SUBSET Cause]
      /\ \A w \in Watch : cause[w] \subseteq cause'[w]
      /\ \A w \in Watch : w \notin DOMAIN at.jobs => SamePlays(w)
      /\ \A w \in DOMAIN at.jobs : also \subseteq cause'[w]
      /\ at.step \in {"remove", "add", "move"}
      /\ at.step = "remove" => RemoveEffect(also)
      /\ at.step = "add" => AddEffect(also)
      /\ at.step = "move" => MoveEffect(also)
  BY <1>1, <1>2, <1>3, <1>4, EffectFacts
<1>6. Shape'
  BY <1>3, <1>4, <1>5, NothingOK DEF Shape
<1>7. \A w \in Watch : w \in DOMAIN at.jobs => InvOf(w)'
  <2> SUFFICES ASSUME NEW w \in Watch, w \in DOMAIN at.jobs PROVE InvOf(w)'
    OBVIOUS
  <2>1. InvOf(w) /\ Lifecycle(w) /\ OnePlay(w) /\ Cleared(w)
    BY DEF IInv, InvOf
  <2>2. Left(w) /\ Failed(w)
    BY <1>4, <1>5, Leaves
  <2>3. /\ at.kind \in {"push", "update", "remove"}
        /\ InHand("push", w) <=> at.kind = "push"
        /\ InHand("update", w) <=> at.kind = "update"
        /\ sync[w].status = "none" => at.kind = "remove"
        /\ at.jobs[w].attempts \in 1 .. MaxAttempts
        /\ at.step \in Steps(at.kind, at.jobs[w])
    BY <1>3, <2>1, InHandFacts, HandFacts
  <2>4. at.kind # "remove" => Live(w)
    BY <2>1, <2>3 DEF Lifecycle, Live
  <2>5. at.step = "remove" =>
          /\ Of(w)' \subseteq Of(w)
          /\ at.found = 0 \/ (\A p \in Of(w) : p.id = at.found) => Of(w)' = {}
          /\ "mistook" \notin cause'[w] /\ at.found # 0 /\ (Of(w) = {} \/ Stored(at.found))
             /\ (\A p, q \in Of(w) : p = q) => Of(w)' = {}
    BY <1>2, <1>3, <1>4, <1>5, RemoveFacts
  <2>6. ASSUME at.kind = "push" PROVE InvOf(w)'
    <3>1. ~Waits("push", w) /\ at.step = "add"
      BY <1>5, <2>1, <2>3, <2>6 DEF Lifecycle, Steps
    <3>2. /\ UpdateRests(w) /\ RemoveRests(w) /\ sync'[w].status # "none" /\ sync'[w].play = sync[w].play
          /\ sync'[w].status # "succeeded"
      BY <2>2, <2>3, <2>4, <2>6, <3>1 DEF Failed, Returned
    <3>3. Waits("push", w)' => queue'["push", w].day = at.jobs[w].day /\ queue'["push", w].attempts = at.jobs[w].attempts - 0
      BY <2>2, <2>6, <3>1 DEF Failed, Returned
    <3>4. Waits("push", w)' => queue'["push", w].attempts # 0
      BY <2>3, <3>3, FewerAttempts
    <3>5. Added(w)
      BY <1>2, <1>3, <1>4, <1>5, <3>1, AddFacts
    <3>6. Calm(w)' /\ provider # "simkl" => Of(w) = {}
      BY <2>1, <2>2, <2>3, <2>6, <3>1 DEF OnePlay, PushIsFirst, Left
    <3>7. Calm(w)' /\ provider # "simkl" => \A p \in Of(w)' : p.day = at.jobs[w].day /\ \A q \in Of(w)' : p = q
      BY <3>5, <3>6 DEF Added
    <3>8. provider = "simkl" => \A p, q \in Of(w)' : p = q
      BY <1>4, <1>5 DEF PlaysOK, Of
    <3> QED BY <1>3, <2>1, <2>2, <2>6, <3>2, <3>3, <3>4, <3>7, <3>8, PushLeaves
  <2>7. ASSUME at.kind = "update" PROVE InvOf(w)'
    <3>1. /\ PushRests(w) /\ RemoveRests(w) /\ sync'[w].status # "none"
          /\ ~Waits("update", w) => sync'[w].play = sync[w].play
          /\ sync'[w].play = sync[w].play \/ sync'[w].play # 0
          /\ \/ UpdateRests(w)
             \/ /\ ~Waits("update", w) /\ Waits("update", w)' /\ queue'["update", w].day = at.jobs[w].day
                /\ queue'["update", w].was = at.jobs[w].was /\ queue'["update", w].play = at.jobs[w].play
          /\ sync'[w].status = "succeeded" => Waits("update", w)
      BY <2>2, <2>3, <2>4, <2>7 DEF Failed, Returned
    <3>2. sync'[w].status = "succeeded" => Waits("update", w)'
      BY <3>1 DEF UpdateRests
    <3>3. at.step = "move" => provider = "letterboxd" /\ ((\A p, q \in Of(w) : p = q) => \A p, q \in Of(w)' : p = q)
      BY <1>2, <1>3, <1>4, <1>5, <2>3, <2>7, MoveFacts DEF Steps
    <3>4. at.step = "add" => provider # "letterboxd" /\ "resent" \in cause'[w]
      BY <1>2, <1>5, <2>3, <2>7 DEF Steps
    <3>5. at.step = "remove" => provider \in {"trakt", "publicmetadb"}
      BY <1>3, <2>3, <2>7, ProviderAssumption DEF Steps, Shape
    <3>6. Calm(w)' => at.step # "add" /\ \A p, q \in Of(w) : p = q
      BY <1>4, <2>1, <2>2, <3>4 DEF Calm, Doubling, OnePlay, Left
    <3>7. Calm(w)' /\ at.step = "remove" => Of(w)' = {}
      <4>1. Calm(w)' /\ at.step = "remove" => "mistook" \notin cause'[w]
        BY <1>4, <3>5 DEF Calm, Doubling
      <4>2. Calm(w)' /\ at.step = "remove" => at.found # 0 /\ (Of(w) = {} \/ Stored(at.found))
        BY <2>1, <2>2, <2>3, <2>7, <3>5 DEF OnePlay, KnowsPlay, Left
      <4> QED BY <2>5, <3>6, <4>1, <4>2
    <3>8. Calm(w)' => \A p, q \in Of(w)' : p = q
      BY <1>5, <3>3, <3>6, <3>7
    <3>9. Calm(w)' /\ provider \in {"trakt", "publicmetadb"} => Of(w)' = {} /\ ~Waits("update", w)
      BY <1>5, <2>1, <2>2, <2>3, <2>7, <3>3, <3>6, <3>7 DEF OnePlay, KnowsPlay, Left
    <3> QED BY <1>3, <2>1, <2>2, <2>7, <3>1, <3>2, <3>8, <3>9, UpdateLeaves
  <2>8. ASSUME at.kind = "remove" PROVE InvOf(w)'
    <3>1. PushRests(w) /\ UpdateRests(w) /\ sync'[w] = sync[w] /\ ~Waits("remove", w) /\ at.step = "remove"
      BY <1>3, <1>5, <2>1, <2>2, <2>3, <2>8, InHandFacts DEF Failed, Returned, Steps
    <3>2. Heard(w)' => Of(w)' = {}
      <4>1. Heard(w)' /\ watch[w].state = "gone" => Of(w) = {} \/ Takes(w, at.found)
        BY <2>1, <2>2, <3>1 DEF Cleared, Left
      <4>2. watch[w].state = "gone"
        BY <1>3, <2>1, <2>8, InHandFacts
      <4>3. Of(w)' \subseteq Of(w)
        BY <2>5, <3>1
      <4> QED BY <2>5, <3>1, <4>1, <4>2, <4>3 DEF Takes
    <3>3. Cleared(w)'
      BY <3>2 DEF Cleared
    <3> QED BY <1>3, <2>1, <2>2, <2>5, <2>8, <3>1, <3>3, RemoveLeaves
  <2> QED BY <2>3, <2>6, <2>7, <2>8
<1> QED BY <1>4, <1>5, <1>6, <1>7, NothingOK, InHandOrElse

\* The answer's place in the delivery.
LEMMA AnsweredFacts ==
  ASSUME Shape, Answered
  PROVE  /\ at # NoDelivery /\ HandOK' /\ at'.kind = at.kind /\ at'.jobs = at.jobs /\ at'.found = at.found
         /\ at.step \in {"remove", "add", "move"}
         /\ at.step = "remove" => at'.made = at.made /\ at'.step = IF at.kind = "update" THEN "add" ELSE "settle"
         /\ at.step = "add" => /\ at'.step = "settle"
                               /\ at'.made = IF Cardinality(DOMAIN at.jobs) = 1 THEN made' ELSE 0
         /\ at.step = "move" => at'.step = "settle" /\ at'.made = J.play
<1> DEFINE step == IF at.step = "remove" /\ at.kind = "update" THEN "add" ELSE "settle"
<1> DEFINE one == Cardinality(DOMAIN at.jobs) = 1
<1> DEFINE mine == IF at.step = "add" /\ one THEN made' ELSE IF at.step = "move" THEN J.play ELSE at.made
<1>1. at.step \in {"remove", "add", "move"} /\ at # NoDelivery /\ at \in Deliveries /\ provider' = provider
  BY NothingHeld DEF Answered, Effect, Shape, HandOK
<1>2. at' = CASE at.step = "remove" /\ at.kind = "update" -> [at EXCEPT !.step = "add"]
               [] at.step = "add" /\ one -> [at EXCEPT !.step = "settle", !.made = made']
               [] at.step = "move" -> [at EXCEPT !.step = "settle", !.made = J.play]
               [] OTHER -> [at EXCEPT !.step = "settle"]
  BY DEF Answered
<1>3. at' = [at EXCEPT !.step = step, !.found = at.found, !.made = mine]
  BY <1>1, <1>2 DEF Deliveries
<1>4. \/ (\E w \in Watch : DOMAIN at.jobs = {w}) /\ one
      \/ ~one /\ at.kind = "push" /\ at.step = "add" /\ at.made = 0
  <2>1. CASE \E w \in Watch : DOMAIN at.jobs = {w}
    BY <2>1, FS_Singleton
  <2>2. CASE ~\E w \in Watch : DOMAIN at.jobs = {w}
    <3>1. \A v \in DOMAIN at.jobs : v \in Watch
      BY HandFacts
    <3>2. IsFiniteSet(DOMAIN at.jobs)
      BY <3>1, DataAssumption, FS_Subset
    <3>3. ~one
      BY <3>1, <3>2, <2>2, FS_Singleton
    <3> QED BY <1>1, <2>2, <3>3 DEF Shape, HandOK
  <2> QED BY <2>1, <2>2
<1>5. made' \in Id /\ at.made \in Id /\ at.found \in Id
  <2>1. {} \in SUBSET Cause /\ Effect({})
    BY DEF Answered
  <2>2. PlaysOK'
    BY <1>1, <2>1, EffectFacts
  <2> QED BY <1>1, <2>2 DEF PlaysOK, Deliveries
<1>6. at.step = "move" => J.play \in Id
  <2> SUFFICES ASSUME at.step = "move" PROVE J.play \in Id
    OBVIOUS
  <2>1. W \in DOMAIN at.jobs /\ J = at.jobs[W]
    BY Single
  <2> QED BY <2>1, HandFacts DEF Job
<1>7. /\ step \in Step /\ step # "move" /\ mine \in Id
      /\ \A w \in DOMAIN at.jobs : step \in Steps(at.kind, at.jobs[w])
      /\ (\E w \in Watch : DOMAIN at.jobs = {w}) \/ (step \in {"add", "settle"} /\ mine = 0)
  <2>1. \A w \in DOMAIN at.jobs : at.step \in Steps(at.kind, at.jobs[w]) /\ at.kind \in {"push", "update", "remove"}
    BY HandFacts, KindFacts
  <2>2. \A w \in DOMAIN at.jobs : step \in Steps(at.kind, at.jobs[w])
    BY <2>1 DEF Steps
  <2> QED BY <1>4, <1>5, <1>6, <2>2 DEF Step
<1>8. /\ at.step = "remove" => mine = at.made /\ step = IF at.kind = "update" THEN "add" ELSE "settle"
      /\ at.step = "add" => step = "settle" /\ mine = IF one THEN made' ELSE 0
      /\ at.step = "move" => step = "settle" /\ mine = J.play
  BY <1>4
<1> HIDE DEF step, mine, one
<1>9. PICK s \in Step, f \in Id, m \in Id : s = step /\ f = at.found /\ m = mine
  BY <1>5, <1>7
<1>10. /\ HandOK' /\ at'.kind = at.kind /\ at'.jobs = at.jobs
       /\ at'.step = s /\ at'.found = f /\ at'.made = m
  <2>1. at' = [at EXCEPT !.step = s, !.found = f, !.made = m]
    BY <1>3, <1>9
  <2>2. /\ s # "move"
        /\ \A w \in DOMAIN at.jobs : s \in Steps(at.kind, at.jobs[w])
        /\ (\E w \in Watch : DOMAIN at.jobs = {w}) \/ (s \in {"add", "settle"} /\ m = 0)
    BY <1>7, <1>9
  <2>3. at # NoDelivery /\ provider' = provider
    BY <1>1
  <2> QED BY <2>1, <2>2, <2>3, GoesOn
<1> QED BY <1>1, <1>8, <1>9, <1>10 DEF one

LEMMA AnsweredKeeps ==
  ASSUME IInv, Answered
  PROVE  IInv'
<1>1. Effect({}) /\ {} \in SUBSET Cause /\ UNCHANGED <<provider, watch, sync, queue, events>>
  BY DEF Answered
<1>2. Shape
  BY DEF IInv
<1>3. /\ at # NoDelivery /\ HandOK' /\ at'.kind = at.kind /\ at'.jobs = at.jobs /\ at'.found = at.found
      /\ at.step \in {"remove", "add", "move"}
      /\ at.step = "remove" => at'.made = at.made /\ at'.step = IF at.kind = "update" THEN "add" ELSE "settle"
      /\ at.step = "add" => /\ at'.step = "settle"
                            /\ at'.made = IF Cardinality(DOMAIN at.jobs) = 1 THEN made' ELSE 0
      /\ at.step = "move" => at'.step = "settle" /\ at'.made = J.play
  BY <1>2, AnsweredFacts
<1>4. /\ PlaysOK' /\ cause' \in [Watch -> SUBSET Cause]
      /\ \A w \in Watch : cause[w] \subseteq cause'[w]
      /\ \A w \in Watch : w \notin DOMAIN at.jobs => SamePlays(w)
      /\ at.step = "remove" => RemoveEffect({})
      /\ at.step = "add" => AddEffect({})
      /\ at.step = "move" => MoveEffect({}) /\ ~Gone
  BY <1>1, <1>2, <1>3, EffectFacts
<1>5. Shape'
  <2>1. QueueOK'
    BY <1>1, <1>2 DEF Shape, QueueOK, Waits
  <2> QED BY <1>1, <1>2, <1>3, <1>4, <2>1 DEF Shape
<1>6. \A w \in Watch : w \notin DOMAIN at.jobs => SameRows(w) /\ SamePlays(w)
  BY <1>1, <1>4 DEF SameRows
<1>7. \A w \in Watch : w \in DOMAIN at.jobs => InvOf(w)'
  <2> SUFFICES ASSUME NEW w \in Watch, w \in DOMAIN at.jobs PROVE InvOf(w)'
    OBVIOUS
  <2>1. InvOf(w) /\ Lifecycle(w) /\ OnePlay(w) /\ Tracked(w) /\ Cleared(w)
    BY DEF IInv, InvOf
  <2>2. /\ at.kind \in {"push", "update", "remove"}
        /\ InHand("push", w) <=> at.kind = "push"
        /\ InHand("update", w) <=> at.kind = "update"
        /\ InHand("remove", w) <=> at.kind = "remove"
        /\ sync[w].status = "none" => at.kind = "remove"
        /\ at.kind = "remove" => watch[w].state = "gone" /\ ~Live(w) /\ ~Waits("remove", w)
        /\ at.step \in Steps(at.kind, at.jobs[w])
        /\ at.step = "move" => at.found = at.jobs[w].play
    BY <1>2, <2>1, InHandFacts, HandFacts
  <2>3. at.kind # "remove" => Live(w) /\ watch[w].state = "live"
    BY <2>1, <2>2 DEF Lifecycle, Live
  <2>4. Lifecycle(w)' /\ Carried(w)
    <3>1. Live(w) => watch'[w].day \in Day
      BY <1>1, <2>1 DEF Lifecycle
    <3> QED BY <1>1, <1>2, <1>3, <1>4, <2>1, <3>1, Onward
  <2>5. ASSUME at.step = "remove" PROVE InvOf(w)'
    <3>1. /\ Of(w)' \subseteq Of(w)
          /\ at.found = 0 \/ (\A p \in Of(w) : p.id = at.found) => Of(w)' = {}
          /\ "mistook" \notin cause'[w] /\ at.found # 0 /\ (Of(w) = {} \/ Stored(at.found))
             /\ (\A p, q \in Of(w) : p = q) => Of(w)' = {}
      BY <1>1, <1>2, <1>3, <1>4, <2>5, RemoveFacts
    <3>2. at.kind # "push" /\ (at.kind = "update" => provider \in {"trakt", "publicmetadb"})
      BY <1>2, <2>2, <2>5, ProviderAssumption DEF Steps, Shape
    <3>3. Calm(w)' /\ at.kind = "update" => Of(w)' = {}
      <4>1. Calm(w)' /\ at.kind = "update" => "mistook" \notin cause'[w]
        BY <1>1, <3>2 DEF Calm, Doubling
      <4>2. Calm(w)' /\ at.kind = "update" =>
              at.found # 0 /\ (Of(w) = {} \/ Stored(at.found)) /\ \A p, q \in Of(w) : p = q
        BY <2>1, <2>2, <2>4, <2>5, <3>2 DEF OnePlay, KnowsPlay, Carried
      <4> QED BY <3>1, <4>1, <4>2
    <3>4. OnePlay(w)'
      <4>1. PushIsFirst(w) => PushIsFirst(w)'
        BY <2>2, <2>4, <3>1, <3>2 DEF PushIsFirst, Carried
      <4>2. LooksAgain(w) => LooksAgain(w)'
        BY <2>2, <2>4, <3>1, <3>2 DEF LooksAgain, Carried
      <4>3. at.kind = "update" /\ Of(w)' = {} /\ KnowsPlay(w) => KnowsPlay(w)'
        BY <1>3, <2>2, <2>4, <2>5 DEF KnowsPlay, Carried
      <4>4. at.kind = "remove" => sync[w].play = 0 /\ ~Waits("update", w) /\ ~InHand("update", w)
        BY <2>1, <2>2 DEF Lifecycle, Live, Updates
      <4>5. at.kind = "remove" => KnowsPlay(w)'
        BY <2>4, <4>4 DEF KnowsPlay, Carried
      <4>6. KnowsDay(w) => KnowsDay(w)'
        BY <1>1, <2>2, <2>4, <2>5, <3>1, <3>2 DEF KnowsDay, Carried
      <4> QED BY <2>1, <2>2, <2>4, <3>1, <3>2, <3>3, <4>1, <4>2, <4>3, <4>5, <4>6 DEF OnePlay, Carried
    <3>5. Tracked(w)'
      BY <1>1, <1>3, <2>1, <2>2, <2>4, <2>5, <3>2 DEF Tracked, Carried, Updates
    <3>6. Cleared(w)'
      <4>1. at.kind = "update" => Cleared(w)'
        BY <1>1, <2>3 DEF Cleared
      <4>2. at.kind = "remove" /\ Heard(w)' => Of(w)' = {}
        <5>1. at.kind = "remove" /\ Heard(w)' => Of(w) = {} \/ Takes(w, at.found)
          BY <2>1, <2>2, <2>4 DEF Cleared, Carried
        <5> QED BY <3>1, <5>1 DEF Takes
      <4> QED BY <2>2, <3>2, <4>1, <4>2 DEF Cleared
    <3> QED BY <2>4, <3>4, <3>5, <3>6 DEF InvOf
  <2>6. ASSUME at.step = "add" PROVE InvOf(w)'
    <3>1. at.kind \in {"push", "update"} /\ (at.kind = "update" => provider # "letterboxd")
      BY <2>2, <2>6 DEF Steps
    <3>2. at.kind = "update" => Cardinality(DOMAIN at.jobs) = 1
      BY <1>2, AloneOrBatch
    <3>3. Added(w)
      BY <1>1, <1>2, <1>3, <1>4, <2>6, AddFacts
    <3>4. at'.step = "settle" /\ at'.made = IF Cardinality(DOMAIN at.jobs) = 1 THEN made' ELSE 0
      BY <1>3, <2>6
    <3>5. OnePlay(w)'
      <4>1. SUFFICES ASSUME Calm(w)' PROVE OnePlay(w)'
        BY DEF OnePlay
      <4>2. CASE provider = "simkl"
        <5>1. \A p, q \in Of(w)' : p = q
          BY <1>1, <1>4, <4>2 DEF PlaysOK, Of
        <5> QED BY <1>1, <4>2, <5>1 DEF OnePlay
      <4>3. CASE provider # "simkl"
        <5>1. PICK p \in plays' : /\ p.of = w /\ p.day = at.jobs[w].day /\ Of(w)' \subseteq Of(w) \cup {p}
                                  /\ Cardinality(DOMAIN at.jobs) = 1 => p.id = made'
          BY <3>3, <4>3 DEF Added
        <5>2. /\ PushIsFirst(w) /\ provider \in {"letterboxd", "trakt", "publicmetadb"}
              /\ provider \in {"trakt", "publicmetadb"} => LooksAgain(w) /\ KnowsPlay(w)
              /\ provider = "trakt" => KnowsDay(w)
          BY <1>2, <2>1, <2>4, <4>1, <4>3, ProviderAssumption DEF OnePlay, Carried, Shape
        <5>3. Of(w) = {}
          BY <2>2, <2>6, <3>1, <5>2 DEF PushIsFirst, KnowsPlay
        <5>4. Of(w)' \subseteq {p} /\ p.id # 0
          BY <1>4, <5>1, <5>3 DEF PlaysOK, Play
        <5>5. at.kind = "update" => ~Waits("push", w) /\ ~Waits("update", w) /\ ~InHand("push", w)
          BY <2>2, <3>1, <5>2 DEF KnowsPlay
        <5>6. at.kind = "push" => sync[w].play = 0 /\ ~Waits("push", w) /\ ~InHand("update", w)
          BY <2>1, <2>2, <5>2 DEF PushIsFirst, Pushes, Lifecycle
        <5>7. at'.made # 0 => Stored(at.made)'
          BY <3>4, <5>1 DEF Stored
        <5>8. at.kind = "update" => at'.made # 0
          BY <3>2, <3>4, <5>1, <5>4
        <5>9. PushIsFirst(w)'
          BY <2>4, <3>1, <3>4, <5>1, <5>2, <5>4, <5>5, <5>6 DEF PushIsFirst, Carried
        <5>10. LooksAgain(w)'
          BY <2>4, <3>1, <3>4, <5>5, <5>6, <5>7 DEF LooksAgain, Carried
        <5>11. provider \in {"trakt", "publicmetadb"} => KnowsPlay(w)'
          BY <2>2, <2>4, <3>1, <3>4, <5>2, <5>5, <5>6, <5>7, <5>8 DEF KnowsPlay, Carried
        <5>12. provider = "trakt" => KnowsDay(w)'
          BY <1>1, <2>2, <2>4, <3>1, <3>4, <5>1, <5>2, <5>4, <5>5, <5>6 DEF KnowsDay, Carried, Updates
        <5> QED BY <2>4, <5>4, <5>9, <5>10, <5>11, <5>12 DEF OnePlay, Carried
      <4> QED BY <4>2, <4>3
    <3>6. Tracked(w)'
      <4>1. SUFFICES ASSUME Live(w)', Traceable(w)' PROVE Tracked(w)'
        BY DEF Tracked
      <4>2. Traceable(w) /\ Live(w) /\ "swept" \notin cause'[w]
        BY <2>4, <4>1 DEF Carried, Traceable
      <4>3. ~Waits("update", w) => There(w, at.made)'
        BY <1>1, <2>1, <2>2, <3>1, <3>3, <4>2 DEF Tracked, Added, There, Held
      <4>4. Pushes(w)' \/ Updates(w)'
        BY <2>2, <2>4, <3>1 DEF Carried, Pushes, Updates
      <4> QED BY <1>1, <2>1, <2>4, <4>2, <4>3, <4>4 DEF Tracked, Carried
    <3>7. Cleared(w)'
      BY <1>1, <2>3, <3>1 DEF Cleared
    <3> QED BY <2>4, <3>5, <3>6, <3>7 DEF InvOf
  <2>7. ASSUME at.step = "move" PROVE InvOf(w)'
    <3>1. at.kind = "update" /\ provider = "letterboxd" /\ J = at.jobs[w]
      <4>1. at.kind = "update" /\ provider = "letterboxd"
        BY <2>2, <2>7 DEF Steps
      <4> QED BY <1>2, <4>1, AloneOrBatch
    <3>2. /\ (\A p, q \in Of(w) : p = q) => \A p, q \in Of(w)' : p = q
          /\ \A p \in plays : p.id = J.play => \E q \in plays' : q.id = J.play /\ q.day = J.day
      BY <1>1, <1>2, <1>3, <1>4, <2>7, MoveFacts
    <3>3. at'.step = "settle" /\ at'.made = at.jobs[w].play
      BY <1>3, <2>7, <3>1
    <3>4. OnePlay(w)'
      <4>1. PushIsFirst(w) => ~Waits("push", w)
        BY <2>1, <2>2, <3>1 DEF PushIsFirst, Pushes, Lifecycle, Updates
      <4>2. PushIsFirst(w) => PushIsFirst(w)'
        BY <2>2, <2>4, <3>1, <4>1 DEF PushIsFirst, Carried
      <4> QED BY <1>1, <2>1, <2>4, <3>1, <3>2, <4>2 DEF OnePlay, Carried
    <3>5. Tracked(w)'
      <4>1. \E q \in plays' : q.id = at.jobs[w].play /\ q.day = at.jobs[w].day
        BY <1>4, <2>2, <2>7, <3>1, <3>2 DEF Gone
      <4>2. at.jobs[w].day = watch'[w].day => There(w, at.made)'
        BY <3>3, <4>1 DEF There
      <4> QED BY <1>1, <2>1, <2>2, <2>4, <3>1, <3>3, <4>2 DEF Tracked, Carried, Updates, Held
    <3>6. Cleared(w)'
      BY <1>1, <2>3, <3>1 DEF Cleared
    <3> QED BY <2>4, <3>4, <3>5, <3>6 DEF InvOf
  <2> QED BY <1>3, <2>5, <2>6, <2>7
<1> QED BY <1>3, <1>5, <1>6, <1>7, InHandOrElse

-----------------------------------------------------------------------------
(* The theorems.                                                           *)

LEMMA InitHolds == DeliveryInit => IInv
<1> SUFFICES ASSUME DeliveryInit PROVE IInv
  OBVIOUS
<1>1. /\ provider \in Provider
      /\ watch = [w \in Watch |-> [state |-> "new", day |-> 0]]
      /\ sync = [w \in Watch |-> NoSync]
      /\ queue = [k \in Kind \X Watch |-> NoJob]
      /\ at = NoDelivery /\ plays = {} /\ made = 0
      /\ cause = [w \in Watch |-> {}] /\ events = 0
  BY DEF DeliveryInit
<1>2. NoJob \in Job /\ 0 \in Id /\ 0 \in 0 .. MaxEvents
  BY Bounds DEF NoJob, Job, Id
<1>3. \A kind \in Kind, w \in Watch : ~Waits(kind, w)
  BY <1>1 DEF Waits
<1>4. \A kind, w : ~InHand(kind, w)
  BY <1>1, NothingInHand
<1>5. Shape
  <2>1. QueueOK
    BY <1>1, <1>2, <1>3 DEF QueueOK
  <2>2. HandOK
    BY <1>1 DEF HandOK
  <2>3. PlaysOK
    BY <1>1, <1>2 DEF PlaysOK
  <2>4. sync \in [Watch -> [status : Status, play : Id]]
    BY <1>1, <1>2 DEF NoSync, Status
  <2>5. /\ watch \in [Watch -> [state : {"new", "live", "gone"}, day : Day \cup {0}]]
        /\ cause \in [Watch -> SUBSET Cause]
    BY <1>1
  <2> QED BY <1>1, <1>2, <2>1, <2>2, <2>3, <2>4, <2>5 DEF Shape
<1>6. ASSUME NEW w \in Watch PROVE InvOf(w)
  <2>1. /\ watch[w].state = "new" /\ sync[w].status = "none" /\ sync[w].play = 0 /\ Of(w) = {}
        /\ ~Pushes(w) /\ ~Updates(w) /\ ~Removes(w)
    BY <1>1, <1>3, <1>4, KindFacts DEF Of, NoSync, Pushes, Updates, Removes
  <2>2. Lifecycle(w)
    BY <2>1 DEF Lifecycle, Live, Removes, Pushes
  <2>3. OnePlay(w)
    BY <2>1 DEF OnePlay, PushIsFirst, LooksAgain, KnowsPlay, KnowsDay, Pushes, Updates
  <2>4. Tracked(w) /\ Cleared(w)
    BY <2>1 DEF Tracked, Cleared, Live
  <2> QED BY <2>2, <2>3, <2>4 DEF InvOf
<1> QED BY <1>5, <1>6 DEF IInv

LEMMA Stutters == IInv /\ UNCHANGED deliveryVars => IInv'
<1> SUFFICES ASSUME IInv, UNCHANGED deliveryVars PROVE IInv'
  OBVIOUS
<1>1. /\ provider' = provider /\ watch' = watch /\ sync' = sync /\ queue' = queue /\ at' = at /\ plays' = plays
      /\ made' = made /\ cause' = cause /\ events' = events
  BY DEF deliveryVars
<1>2. QueueOK'
  BY <1>1 DEF IInv, Shape, QueueOK, Waits
<1>3. Shape'
  BY <1>1, <1>2, ShapeAside DEF IInv, Shape
<1>4. \A w \in Watch : InvOf(w)'
  BY <1>1, Aside DEF IInv, SameRows
<1> QED BY <1>3, <1>4 DEF IInv

LEMMA NextKeeps == IInv /\ DeliveryNext => IInv'
<1> SUFFICES ASSUME IInv, DeliveryNext PROVE IInv'
  OBVIOUS
<1>1. CASE \E w \in Watch : FanOut(w) \/ Resync(w) \/ Delete(w)
  BY <1>1, FanOutKeeps, ResyncKeeps, DeleteKeeps
<1>2. CASE \E w \in Watch, d \in Day : Add(w, d) \/ Edit(w, d)
  BY <1>2, AddKeeps, EditKeeps
<1>3. CASE \E kind \in Kind, w \in Watch : Begin(kind, w)
  BY <1>3, BeginKeeps
<1>4. CASE \E S \in SUBSET Watch : BeginBatch(S)
  BY <1>4, BeginBatchKeeps
<1>5. CASE \E p \in plays : CheckFinds(p) \/ Conflict(p)
  BY <1>5, CheckFindsKeeps, ConflictKeeps
<1>6. CASE CheckFindsNone \/ CheckIgnored
  BY <1>6, CheckFindsNoneKeeps, CheckIgnoredKeeps
<1>7. CASE Answered \/ Unanswered \/ Unsent
  BY <1>7, AnsweredKeeps, UnansweredKeeps, UnsentKeeps
<1>8. CASE Refused \/ Settle \/ DeliveryCrash
  BY <1>8, RefusedKeeps, SettleKeeps, DeliveryCrashKeeps
<1> QED BY <1>1, <1>2, <1>3, <1>4, <1>5, <1>6, <1>7, <1>8 DEF DeliveryNext

LEMMA DeliveryInvariant == DeliverySpec => []IInv
<1>1. DeliveryInit => IInv
  BY InitHolds
<1>2. IInv /\ [DeliveryNext]_deliveryVars => IInv'
  BY NextKeeps, Stutters
<1> QED BY <1>1, <1>2, PTL DEF DeliverySpec

LEMMA TypesFollow == IInv => DeliveryTypeOK
<1> SUFFICES ASSUME IInv PROVE DeliveryTypeOK
  OBVIOUS
<1>1. Shape
  BY DEF IInv
<1>2. CASE at = NoDelivery
  <2>1. 0 \in Id
    BY Bounds DEF Id
  <2> QED BY <1>1, <1>2, <2>1 DEF NoDelivery, DeliveryTypeOK, Shape, QueueOK, PlaysOK
<1>3. CASE at # NoDelivery
  <2>1. at \in Deliveries
    BY <1>1, <1>3 DEF Shape, HandOK
  <2>2. \A w \in DOMAIN at.jobs : w \in Watch /\ at.jobs[w] \in Job
    BY <1>1, HandFacts
  <2> QED BY <1>1, <2>1, <2>2 DEF Deliveries, Step, DeliveryTypeOK, Shape, QueueOK, PlaysOK
<1> QED BY <1>2, <1>3

LEMMA PropertyFollows == IInv => ProviderMirrorsHistory
<1> SUFFICES ASSUME IInv PROVE ProviderMirrorsHistory
  OBVIOUS
<1>1. OnePlayPerWatch
  <2> SUFFICES ASSUME NEW w \in Watch, Calm(w) PROVE ~(Cardinality(Of(w)) > 1)
    BY DEF OnePlayPerWatch, Calm, Doubling
  <2>1. \A p, q \in Of(w) : p = q
    BY DEF IInv, InvOf, OnePlay
  <2>2. CASE Of(w) = {}
    <3>1. Cardinality(Of(w)) = 0
      BY <2>2, FS_EmptySet
    <3> QED BY <3>1
  <2>3. CASE Of(w) # {}
    <3>1. PICK p : Of(w) = {p}
      BY <2>1, <2>3
    <3>2. Cardinality(Of(w)) = 1
      BY <3>1, FS_Singleton
    <3> QED BY <3>2
  <2> QED BY <2>2, <2>3
<1>2. SucceededMeansThere
  <2> SUFFICES ASSUME NEW w \in Watch, Live(w), sync[w].status = "succeeded", Quiet(w), Traceable(w)
      PROVE \E p \in plays : (p.of = w \/ p.id = sync[w].play) /\ p.day = watch[w].day
    BY DEF SucceededMeansThere, Traceable
  <2>1. ~Pushes(w) /\ ~Updates(w)
    BY KindFacts DEF Quiet, Pushes, Updates
  <2> QED BY <2>1 DEF IInv, InvOf, Tracked, There, Updates
<1>3. DeletedLeavesNothing
  <2> SUFFICES ASSUME NEW w \in Watch, watch[w].state = "gone", Quiet(w), Heard(w) PROVE Of(w) = {}
    BY DEF DeletedLeavesNothing, Heard
  <2> QED BY KindFacts DEF IInv, InvOf, Cleared, Quiet
<1> QED BY <1>1, <1>2, <1>3 DEF ProviderMirrorsHistory

\* The deliveries keep the types of their state.
THEOREM DeliveryTypes == DeliverySpec => []DeliveryTypeOK
<1>1. IInv => DeliveryTypeOK
  BY TypesFollow
<1> QED BY <1>1, DeliveryInvariant, PTL

\* Whatever the user, the worker and the provider do, a watch has at most one play at the
\* provider, a succeeded one is there on its day, and a deleted one leaves none, unless it
\* met one of the gaps that are listed: there are no others.
THEOREM DeliveriesMirrorHistory == DeliverySpec => []ProviderMirrorsHistory
<1>1. IInv => ProviderMirrorsHistory
  BY PropertyFollows
<1> QED BY <1>1, DeliveryInvariant, PTL
=============================================================================
