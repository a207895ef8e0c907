------------------------------ MODULE MCOutbox ------------------------------
(***************************************************************************)
(* Outbox on three kinds of targets, one of them in every behaviour:       *)
(*   update - update_history, push_rating: a watch's newest payload wins   *)
(*   plays  - push_watched: never replaced while in flight, may go in one  *)
(*            batch; one payload                                           *)
(*   rating - the independent rating of a watch state entry                *)
(* The constants of the configuration are those of the updates: a provider *)
(* that limits requests, no worker outlives its claim and no transaction   *)
(* of a worker commits inside a client's, without which an update may be   *)
(* lost (see outbox_lost).                                                 *)
(***************************************************************************)
EXTENDS Outbox, TLC

CONSTANTS update, first, second, rating

VARIABLE used   \* the kind of the behaviour: its targets

Plays == {first, second}

\* Nothing crashes, but transactions overlap.
Pushes == INSTANCE Outbox WITH MaxAttempts <- 1, Limited <- FALSE, MaxDisruptions <- 0,
                               ClientOverlap <- TRUE
\* Workers outlive their claims, too.
Ratings == INSTANCE Outbox WITH MaxAttempts <- 1, Limited <- FALSE, MaxDisruptions <- 1,
                                SlowWorkers <- TRUE, ClientOverlap <- TRUE

MCInit == used \in {{update}, Plays, {rating}} /\ Init

OneTarget == \A c \in Client : tx'[c].key \in used \cup {NoKey}
OnePayload == \A c \in Client, k \in Plays :
                  tx'[c].payload # NoPayload => wanted[k] \in {NoPayload, tx'[c].payload}

\* A play is queued again only while it waits.
OneJobEach == \A c \in Client : \A i, j \in Job :
                  jobs[j].target \in Plays /\ draft'[c][i].target = jobs[j].target => i = j

MCNext == /\ \/ used = {update} /\ Next
             \/ used = Plays /\ Pushes!Next /\ OnePayload /\ OneJobEach
             \/ used = {rating} /\ Ratings!Next
          /\ OneTarget /\ UNCHANGED used

MCSpec == MCInit /\ [][MCNext]_<<vars, used>>

\* Workers, clients, payloads and plays are interchangeable: no operator orders them, and
\* CHOOSE only picks job ids.
Symmetric == Permutations(Worker) \cup Permutations(Client) \cup Permutations(Payload)
             \cup Permutations(Plays)

=============================================================================
