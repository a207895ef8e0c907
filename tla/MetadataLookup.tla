--------------------------- MODULE MetadataLookup ---------------------------
(***************************************************************************)
(* The queue of metadata lookups: a request of a user (api/routes_metadata)*)
(* is claimed by a worker with others (jobs/metadata_lookup.py), which     *)
(* asks the providers of each, one request after another, and stores what  *)
(* each provider answers as it answers.  A request whose worker stopped is *)
(* claimed again after five minutes; so is one whose worker is slow.       *)
(* Requests are numbered in the order they are made.                       *)
(***************************************************************************)
EXTENDS Integers, Sequences, FiniteSets, SequencesExt, FiniteSetsExt

CONSTANTS
    LookupWorkers, LookupProviders,
    MaxLookups,
    LookupBatch,        \* how many are claimed at once
    KindOf,             \* _classify_query: "imdb", "tmdb" or "title"
    Capable,            \* Capable[p]: the kinds p can look up, by its capabilities and scopes
    MaxFound,           \* bound: candidates of one answer
    MaxLookupFaults,    \* bound: crashes, errors and shutdowns
    MaxSlow             \* bound: claims of what is still worked on

LookupRequests == 1 .. MaxLookups

ASSUME LookupAssumption ==
    /\ MaxLookups \in Nat /\ LookupBatch \in Nat \ {0} /\ MaxFound \in Nat
    /\ MaxLookupFaults \in Nat /\ MaxSlow \in Nat
    /\ KindOf \in [LookupRequests -> {"imdb", "tmdb", "title"}]
    /\ Capable \in [LookupProviders -> SUBSET {"imdb", "tmdb", "title"}]

VARIABLES
    lookups,   \* the requests
    answers,   \* their candidates: [run, rank]
    work,      \* per worker: the batch it claimed, the first being processed
    runs,      \* history: how often the processing of a request began
    overtaken, \* history: requests that were claimed while a worker held them
    lookupFaults, slow

lookupVars == <<lookups, answers, work, runs, overtaken, lookupFaults, slow>>

MaxRuns == 1 + MaxLookupFaults + MaxSlow
Candidates == [run : 1 .. MaxRuns, rank : 1 .. (1 + Cardinality(LookupProviders)) * MaxFound]
AtRest == [queue |-> <<>>, step |-> "next", run |-> 0, asked |-> {}, rank |-> 1, doomed |-> {}]

LookupTypeOK ==
    /\ lookups \in [LookupRequests -> [status : {"none", "pending", "in_progress", "completed", "failed"},
                                  stale : BOOLEAN, named : BOOLEAN]]
    /\ answers \in [LookupRequests -> SUBSET Candidates]
    /\ \A w \in LookupWorkers :
          /\ Len(work[w].queue) <= LookupBatch
          /\ Range(work[w].queue) \subseteq LookupRequests
          /\ work[w].step \in {"next", "asking"}
          /\ work[w].run \in 0 .. MaxRuns
          /\ work[w].asked \subseteq LookupProviders
          /\ work[w].rank \in 1 .. 1 + (1 + Cardinality(LookupProviders)) * MaxFound
          /\ work[w].doomed \subseteq Candidates
    /\ runs \in [LookupRequests -> 0 .. MaxRuns]
    /\ overtaken \subseteq LookupRequests
    /\ lookupFaults \in 0 .. MaxLookupFaults /\ slow \in 0 .. MaxSlow

LookupInit ==
    /\ lookups = [l \in LookupRequests |-> [status |-> "none", stale |-> FALSE, named |-> FALSE]]
    /\ answers = [l \in LookupRequests |-> {}]
    /\ work = [w \in LookupWorkers |-> AtRest]
    /\ runs = [l \in LookupRequests |-> 0]
    /\ overtaken = {} /\ lookupFaults = 0 /\ slow = 0

-----------------------------------------------------------------------------

WorkedOn(l) == \E w \in LookupWorkers : l \in Range(work[w].queue)

\* create_lookup.
CreateLookup(l) ==
    /\ lookups[l].status = "none"
    /\ \A k \in 1 .. l - 1 : lookups[k].status # "none"
    /\ lookups' = [lookups EXCEPT ![l].status = "pending"]
    /\ UNCHANGED <<answers, work, runs, overtaken, lookupFaults, slow>>

\* Five minutes pass without a write to the request.
Stale(l) ==
    /\ lookups[l].status = "in_progress" /\ ~lookups[l].stale
    /\ IF WorkedOn(l) THEN slow < MaxSlow /\ slow' = slow + 1 ELSE UNCHANGED slow
    /\ lookups' = [lookups EXCEPT ![l].stale = TRUE]
    /\ UNCHANGED <<answers, work, runs, overtaken, lookupFaults>>

Claimable(l) == lookups[l].status = "pending" \/ (lookups[l].status = "in_progress" /\ lookups[l].stale)

\* In the order of their requests, and as many as fit or there are.
Oldest(claimed) ==
    /\ \A i, j \in DOMAIN claimed : i < j => claimed[i] < claimed[j]
    /\ \A l \in LookupRequests : (Claimable(l) /\ l \notin Range(claimed)) =>
          Len(claimed) = LookupBatch /\ \A i \in DOMAIN claimed : claimed[i] < l

\* _claim_pending_requests: the oldest, locked rows skipped, all with one time stamp.
ClaimLookups(w) ==
    /\ work[w] = AtRest
    /\ \E n \in 1 .. LookupBatch : \E claimed \in [1 .. n -> {l \in LookupRequests : Claimable(l)}] :
        /\ Oldest(claimed)
        /\ lookups' = [l \in LookupRequests |->
               IF l \in Range(claimed) THEN [lookups[l] EXCEPT !.status = "in_progress", !.stale = FALSE]
               ELSE lookups[l]]
        /\ overtaken' = overtaken \cup {l \in Range(claimed) : WorkedOn(l)}
        /\ work' = [work EXCEPT ![w] = [AtRest EXCEPT !.queue = claimed]]
        /\ UNCHANGED <<answers, runs, lookupFaults, slow>>

\* A commit: the old candidates it deletes, the new ones, and the names of the providers asked,
\* which touch updated_at when they are not those of the attempt before.
CommitAnswers(l, doomed, new) ==
    /\ answers' = [answers EXCEPT ![l] = (@ \ doomed) \cup new]
    /\ \E stale \in {FALSE} \cup (IF lookups[l].named THEN {lookups[l].stale} ELSE {}) :
          lookups' = [lookups EXCEPT ![l].stale = stale, ![l].named = TRUE]

Numbered(run, rank, n) == [run : {run}, rank : rank .. rank + n - 1]

\* delete(MetadataLookupCandidate): executed at the start, in effect with the next commit.
Doomed(l) == answers[l]

\* _process_request: the local candidates are stored at once; then every provider is asked.
BeginLookup(w, local, enabled) ==
    LET l == Head(work[w].queue)
        run == runs[l] + 1
    IN  /\ work[w].step = "next" /\ work[w].queue # <<>>
        /\ local > 0 \/ enabled # {}
        \* The rows another transaction deletes are locked.
        /\ \A v \in LookupWorkers \ {w} :
              Head(work[v].queue \o <<0>>) = l => work[v].doomed \cap answers[l] = {}
        /\ runs' = [runs EXCEPT ![l] = run]
        /\ work' = [work EXCEPT ![w].step = "asking", ![w].run = run, ![w].asked = enabled,
                                ![w].rank = local + 1, ![w].doomed = IF local > 0 THEN {} ELSE Doomed(l)]
        /\ IF local > 0 THEN CommitAnswers(l, Doomed(l), Numbered(run, 1, local))
           ELSE UNCHANGED <<answers, lookups>>
        /\ UNCHANGED <<overtaken, lookupFaults, slow>>

\* MetadataLookupEngine.lookup: the strategy for the kind of query, and what the provider answers it;
\* an error is no candidate, and details never add or drop one.
Answers(p, kind) ==
    IF kind \notin Capable[p] THEN {0} ELSE 0 .. (IF kind = "tmdb" THEN 1 ELSE MaxFound)

\* The provider that answers next.
TakeAnswer(w, p) ==
    LET l == Head(work[w].queue)
    IN  /\ work[w].step = "asking" /\ p \in work[w].asked
        /\ \E n \in Answers(p, KindOf[l]) :
              /\ work' = [work EXCEPT ![w].asked = @ \ {p}, ![w].rank = @ + n,
                                      ![w].doomed = IF n > 0 THEN {} ELSE @]
              /\ IF n > 0 THEN CommitAnswers(l, work[w].doomed, Numbered(work[w].run, work[w].rank, n))
                 ELSE UNCHANGED <<answers, lookups>>
        /\ UNCHANGED <<runs, overtaken, lookupFaults, slow>>

\* The last write to a request; the worker goes on to the next of its batch.
Close(w, status) ==
    LET l == Head(work[w].queue)
    IN  /\ lookups' = [lookups EXCEPT ![l].status = status, ![l].stale = FALSE,
                                      ![l].named = @ \/ work[w].step = "asking"]
        /\ answers' = [answers EXCEPT ![l] = @ \ work[w].doomed]
        /\ work' = [work EXCEPT ![w] = [AtRest EXCEPT !.queue = Tail(work[w].queue)]]
        /\ UNCHANGED <<runs, overtaken, slow>>

Finish(w) ==
    /\ work[w].step = "asking" /\ work[w].asked = {}
    /\ Close(w, IF work[w].rank = 1 THEN "failed" ELSE "completed")
    /\ UNCHANGED lookupFaults

\* _mark_failed before anything was asked: no provider is enabled and nothing is known locally,
\* or one could not be loaded.
Refuse(w) ==
    /\ work[w].step = "next" /\ work[w].queue # <<>>
    /\ Close(w, "failed")
    /\ UNCHANGED lookupFaults

\* The worker dies; or a write fails, and so does that of the failure: what was not committed
\* is rolled back and the batch is left as it is.
Abandon(w) ==
    /\ lookupFaults < MaxLookupFaults /\ work[w] # AtRest
    /\ lookupFaults' = lookupFaults + 1
    /\ work' = [work EXCEPT ![w] = AtRest]
    /\ UNCHANGED <<lookups, answers, runs, overtaken, slow>>

\* process_metadata_lookups_once is stopped between two requests of a batch.
Shutdown(w) ==
    /\ lookupFaults < MaxLookupFaults /\ work[w].step = "next" /\ work[w].queue # <<>>
    /\ lookupFaults' = lookupFaults + 1
    /\ lookups' = [l \in LookupRequests |->
           IF l \in Range(work[w].queue) THEN [lookups[l] EXCEPT !.status = "pending"] ELSE lookups[l]]
    /\ work' = [work EXCEPT ![w] = AtRest]
    /\ UNCHANGED <<answers, runs, overtaken, slow>>

LookupStep(w) ==
    \/ ClaimLookups(w) \/ Finish(w) \/ Refuse(w)
    \/ \E local \in 0 .. MaxFound, enabled \in SUBSET LookupProviders : BeginLookup(w, local, enabled)
    \/ \E p \in LookupProviders : TakeAnswer(w, p)

LookupNext ==
    \/ \E l \in LookupRequests : CreateLookup(l) \/ Stale(l)
    \/ \E w \in LookupWorkers : LookupStep(w) \/ Abandon(w) \/ Shutdown(w)

LookupSpec == LookupInit /\ [][LookupNext]_lookupVars

\* The workers loop, and time passes.
LookupFairSpec ==
    /\ LookupSpec
    /\ \A w \in LookupWorkers : WF_lookupVars(LookupStep(w))
    /\ \A l \in LookupRequests : WF_lookupVars(Stale(l))

-----------------------------------------------------------------------------
\* CompletedIsOneAnswer: what a user chooses from is the answer of one attempt, whole and in order,
\* unless two workers were at it at once: what an attempt that died has stored is gone.
CompletedIsOneAnswer ==
    \A l \in LookupRequests \ overtaken : lookups[l].status = "completed" =>
        /\ answers[l] # {}
        /\ {c.run : c \in answers[l]} = {runs[l]}
        /\ {c.rank : c \in answers[l]} = 1 .. Cardinality(answers[l])

\* EveryLookupEnds: a request is answered or refused, whatever worker stops or is slow; the page
\* that made it polls until then.
EveryLookupEnds ==
    \A l \in LookupRequests :
        lookups[l].status \in {"pending", "in_progress"} ~> lookups[l].status \in {"completed", "failed"}
=============================================================================
