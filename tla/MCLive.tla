------------------------------- MODULE MCLive -------------------------------
(***************************************************************************)
(* What the background work of the program must come to, for TLC: the sum  *)
(* of eight systems that run beside each other.  They do not interact, so  *)
(* in a behaviour one of them moves and the others stay as they begin.     *)
(***************************************************************************)
EXTENDS ScheduledLease, Sequences, FiniteSets, TLC

CONSTANTS l1, l2, l3, p1, p2, p3

VARIABLES
    which,   \* the system that moves
    \* Outbox
    jobs, wanted, remote, live, sync, importing, loaded, draft, outboxAt, sends, tx, disruptions,
    \* WatchStatePull
    db, version, snapshot, pullLock, pullAt, statement, read, verify, built, tries, since, shown,
    was, failures,
    \* TokenRefresh
    valid, row, rowLock, tokenAt, copy, grants, tokenFaults, unsound,
    \* ImportRuns
    clock, cfg, job, lapsed, request, mergeJob, imported, ended, covered, requested, importFaults,
    raced, overdue,
    \* ExternalCatalog
    source, catalogs, task, catalogFaults,
    \* MetadataLookup
    lookups, answers, work, runs, overtaken, lookupFaults, slow,
    \* WatchStatePush
    time, allowed, receipts, batch, entries, watches, item, posted, erased, counted

\* A loop per process.
Spread == (l1 :> p1) @@ (l2 :> p2) @@ (l3 :> p3)

\* One worker and one client; the payload of one target changes.
Outbox == INSTANCE Outbox WITH
    pc <- outboxAt, Worker <- {"w"}, Client <- {"c"}, Key <- {"list"}, SuccessorKey <- {"list"},
    WatchKey <- {}, EntryKey <- {}, BatchKey <- {}, Payload <- {"p1", "p2"},
    NoKey <- "no key", NoPayload <- "no payload", MaxJobs <- 2, MaxAttempts <- 1,
    ClaimLimit <- 1, BatchSize <- 2, MaxDisruptions <- 1,
    Limited <- FALSE, SlowWorkers <- FALSE, ClientOverlap <- TRUE

Transactions == {{"entries", "watches"}, {"watchlist", "catalog"}}

\* Two devices; a push writes an entry and the history, an import of the watchlist also the
\* catalog.
Pull == INSTANCE WatchStatePull WITH
    lock <- pullLock, pc <- pullAt, k <- statement, Client <- {"c1", "c2"}, Value <- {0, 1},
    Transaction <- Transactions,
    Tries <- 2, MaxWrites <- 2, MaxFailures <- 1
MaxTotal == 1   \* bound: commits in all, each of which changes what it writes
FewWrites ==
    /\ version'["user"] + version'["date"] <= MaxTotal
    /\ version' # version =>
          \E T \in Transactions \cup {{"date"}} : \A t \in Pull!Table : t \in T <=> db'[t] # db[t]

Tokens == INSTANCE TokenRefresh WITH
    lock <- rowLock, at <- tokenAt, faults <- tokenFaults,
    Workers <- {"w1", "w2"}, None <- "none", MaxToken <- 3, MaxFaults <- 1

\* Two loops and a request; one provider.
Imports == INSTANCE ImportRuns WITH
    faults <- importFaults, Workers <- {"w1", "w2"}, Clients <- {"r"},
    Queues <- {<<"trakt">>}, Settings <- {}, MaxStamp <- 20, MaxRequests <- 2, MaxFaults <- 1

Catalogs == INSTANCE ExternalCatalog WITH
    faults <- catalogFaults, Catalogs <- {"c1", "c2"}, Requests <- {"r"}, MaxListing <- 2, MaxFaults <- 3

\* Two workers that claim both of two requests at once.
Lookups == INSTANCE MetadataLookup WITH
    LookupWorkers <- {"w1", "w2"}, LookupProviders <- {"p"}, MaxLookups <- 2, LookupBatch <- 2,
    KindOf <- <<"title", "tmdb">>, Capable <- [p \in {"p"} |-> {"imdb", "tmdb", "title"}],
    MaxFound <- 1, MaxLookupFaults <- 1, MaxSlow <- 0

\* Three marks of an episode and of a video whose episode is found later, one by one.
Receipts == INSTANCE WatchStatePush WITH
    Episodes <- {"e"}, Absolute <- {"a"}, Show <- "show", NoEpisode <- "none", Kinds <- {"played"},
    Limit <- 1, MaxTime <- 1, MaxReceipts <- 3, MaxEdits <- 1, MaxClashes <- 1

ASSUME Catalogs!BoundAssumption
ASSUME Lookups!LookupAssumption
ASSUME Receipts!KindsAssumption /\ Receipts!ReceiptsAssumption

outboxVars == <<jobs, wanted, remote, live, sync, importing, loaded, draft, outboxAt, sends,
    tx, disruptions>>
pullVars == <<db, version, snapshot, pullLock, pullAt, statement, read, verify, built, tries,
    since, shown, was, failures>>
tokenVars == <<valid, row, rowLock, tokenAt, copy, grants, tokenFaults, unsound>>
importVars == <<clock, cfg, job, lapsed, request, mergeJob, imported, ended, covered, requested,
    importFaults, raced, overdue>>
catalogVars == <<source, catalogs, task, catalogFaults>>
lookupVars == <<lookups, answers, work, runs, overtaken, lookupFaults, slow>>
receiptVars == <<time, allowed, receipts, batch, entries, watches, item, posted, erased, counted>>
all == <<which, vars, outboxVars, pullVars, tokenVars, importVars, catalogVars, lookupVars,
         receiptVars>>

MCInit ==
    /\ which \in {"lease", "outbox", "pull", "tokens", "imports", "catalogs", "lookups", "receipts"}
    /\ Init /\ Outbox!Init /\ Pull!Init /\ Tokens!TokenInit /\ Imports!ImportInit /\ Catalogs!Init /\ Lookups!LookupInit
    /\ Receipts!PushInit
    /\ db = [t \in Pull!Table |-> 0]

Only(system) ==
    /\ which = system /\ UNCHANGED which
    /\ IF system = "lease" THEN TRUE ELSE UNCHANGED vars
    /\ IF system = "outbox" THEN TRUE ELSE UNCHANGED outboxVars
    /\ IF system = "pull" THEN TRUE ELSE UNCHANGED pullVars
    /\ IF system = "tokens" THEN TRUE ELSE UNCHANGED tokenVars
    /\ IF system = "imports" THEN TRUE ELSE UNCHANGED importVars
    /\ IF system = "catalogs" THEN TRUE ELSE UNCHANGED catalogVars
    /\ IF system = "lookups" THEN TRUE ELSE UNCHANGED lookupVars
    /\ IF system = "receipts" THEN TRUE ELSE UNCHANGED receiptVars

MCNext ==
    \/ Only("lease") /\ Next
    \/ Only("outbox") /\ Outbox!Next
    \/ Only("pull") /\ Pull!Next /\ FewWrites
    \/ Only("tokens") /\ Tokens!TokenNext
    \/ Only("imports") /\ Imports!ImportNext
    \/ Only("catalogs") /\ Catalogs!Next
    \/ Only("lookups") /\ Lookups!LookupNext
    \/ Only("receipts") /\ Receipts!PushNext

\* The fairness each module states.  Only actions of the system that moves are ever enabled, so
\* a union of one action of each system is fair as each of them is.
Union(A, B, C, D, E, F, G, H) ==
    /\ UNCHANGED which
    /\ \/ which = "lease" /\ A
       \/ which = "outbox" /\ B
       \/ which = "pull" /\ C
       \/ which = "tokens" /\ D
       \/ which = "imports" /\ E
       \/ which = "catalogs" /\ F
       \/ which = "lookups" /\ G
       \/ which = "receipts" /\ H
moving ==
    CASE which = "lease" -> vars
      [] which = "outbox" -> outboxVars
      [] which = "pull" -> pullVars
      [] which = "tokens" -> tokenVars
      [] which = "imports" -> importVars
      [] which = "catalogs" -> catalogVars
      [] which = "lookups" -> lookupVars
      [] which = "receipts" -> receiptVars
Ends(l) == Complete(l) \/ Fail(l)
Asks(w) == Tokens!Rotate(w) \/ Tokens!Rejected(w)
HasRow(w) == Tokens!Lock(w) \/ Tokens!Save(w) \/ Tokens!LockToExpire(w)
Claims(kind) == \E w \in {"w1", "w2"} : Imports!Claim(w, kind)

WeakFairness ==
    /\ WF_moving(Union(Tick, Outbox!Retire("w"), Pull!Pull("c1"), Tokens!Want("w1"),
                       Claims("quick"), Catalogs!StartJob, Lookups!LookupStep("w1"), Receipts!Drain({})))
    /\ WF_moving(Union(Claim(l1), Outbox!Respond("w"), Pull!Pull("c2"), Tokens!Want("w2"),
                       Claims("all"), Catalogs!Step("job"), Lookups!LookupStep("w2"), Receipts!DrainNext))
    /\ WF_moving(Union(Claim(l2), Outbox!Commit("w"), FALSE, Asks("w1"),
                       Imports!Lapse("quick"), Catalogs!Step("r"), Lookups!Stale(1), FALSE))
    /\ WF_moving(Union(Claim(l3), Outbox!EnqueueCommit("c"), FALSE, Asks("w2"),
                       Imports!Lapse("all"), Catalogs!Recover("c1"), Lookups!Stale(2), FALSE))
    /\ WF_moving(Union(Ends(l1), Outbox!ImportEnd, FALSE, Tokens!ExpireToken("w1"),
                       Imports!ProcessRun("w1"), Catalogs!Recover("c2"), FALSE, FALSE))
    /\ WF_moving(Union(Ends(l2), Outbox!Age(1), FALSE, Tokens!ExpireToken("w2"),
                       Imports!ProcessRun("w2"), FALSE, FALSE, FALSE))
    /\ WF_moving(Union(Ends(l3), Outbox!Age(2), FALSE, FALSE, Imports!Commit("r"), FALSE, FALSE, FALSE))
    /\ WF_moving(Union(FALSE, Outbox!Elapse(1), FALSE, FALSE, Imports!MergeStart, FALSE, FALSE, FALSE))
    /\ WF_moving(Union(FALSE, Outbox!Elapse(2), FALSE, FALSE, Imports!MergeEnd, FALSE, FALSE, FALSE))
StrongFairness ==
    /\ SF_moving(Union(FALSE, Outbox!Claim("w") \/ Outbox!Begin("w"), FALSE, HasRow("w1"),
                       FALSE, FALSE, FALSE, FALSE))
    /\ SF_moving(Union(FALSE, Outbox!Answer("w"), FALSE, HasRow("w2"), FALSE, FALSE, FALSE, FALSE))

MCSpec == MCInit /\ [][MCNext]_all /\ WeakFairness /\ StrongFairness

\* RunsAgain of the jobs, and ClientsCatchUp and CatalogsCatchUp with OneListing.
LeaseRunsAgain == []<>(which = "lease" => running # {})
ClientsCatchUp == <>[](which = "pull" => \A c \in {"c1", "c2"} : shown[c] = Pull!Payload(db))
CatalogsCatchUp ==
    /\ []Catalogs!OneListing
    /\ <>[](which = "catalogs" => \A c \in {"c1", "c2"} : catalogs[c].enabled => Catalogs!Current(c))

EveryJobSettles == Outbox!EveryJobSettles
EveryImportIsServed == Imports!EveryImportIsServed

\* EveryoneServed, EveryLookupEnds and EveryMarkSettles: a worker that needs a token, a user who
\* looks a title up and a device that reports a play all get their answer.
Waits(n) ==
    \/ which = "tokens" /\ n < 3 /\ tokenAt[<<"w1", "w2">>[n]] \notin {"idle", "have"}
    \/ which = "lookups" /\ n < 3 /\ lookups[n].status \in {"pending", "in_progress"}
    \/ which = "receipts" /\ n \in Receipts!ToProcess
Answered(n) ==
    \/ which = "tokens" /\ n < 3 /\ tokenAt[<<"w1", "w2">>[n]] = "idle"
    \/ which = "lookups" /\ n < 3 /\ lookups[n].status \in {"completed", "failed"}
    \/ /\ which = "receipts"
       /\ n \notin Receipts!ToProcess \/ receipts[n].stuck \/ Cardinality(Receipts!StuckReceipts) >= 1
EveryoneServed == \A n \in 1 .. 3 : Waits(n) ~> Answered(n)
=============================================================================
