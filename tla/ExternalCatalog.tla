-------------------------- MODULE ExternalCatalog --------------------------
(***************************************************************************)
(* The external catalogs of the Stremio addon: core/external_catalog.py,   *)
(* jobs/external_catalog_refresh.py and the requests on them in            *)
(* api/routes_stremio_addon.py.  A refresh fetches the listing of another  *)
(* addon or of a list, deletes the items kept here and inserts the new     *)
(* ones in one transaction.  The job goes through all catalogs every few   *)
(* hours in one session; a user's request refreshes one meanwhile.         *)
(*                                                                         *)
(* One worker runs the job (ScheduledLease.tla).  The pages of a listing   *)
(* are Listing.tla's matter, and the titles items are linked to            *)
(* MediaIdentity.tla's.                                                    *)
(***************************************************************************)
EXTENDS Integers, Sequences, FiniteSets, SequencesExt

CONSTANTS
    Catalogs,
    Requests,  \* sessions of users' requests
    MaxListing, \* bound: versions of a listing
    MaxFaults  \* bound: requests, edits and crashes

BoundAssumption == MaxListing \in Nat /\ MaxFaults \in Nat /\ "job" \notin Requests

VARIABLES
    source,   \* per catalog: the version of the listing at its source, 0 being empty, and whether it answers
    catalogs, \* the rows: enabled, the items as <<session, version>>, and last_refresh_error
    task,     \* what the job and the requests are at
    faults

vars == <<source, catalogs, task, faults>>

Tasks == {"job"} \cup Requests
NoCatalog == [enabled |-> FALSE]
Idle == [left |-> <<>>]
There(c) == catalogs[c] # NoCatalog
Items == Tasks \X (1 .. MaxListing)

TypeOK ==
    /\ source \in [Catalogs -> [up : BOOLEAN, version : 0 .. MaxListing]]
    /\ \A c \in Catalogs : There(c) => catalogs[c] \in [enabled : BOOLEAN, items : SUBSET Items, error : BOOLEAN]
    /\ \A t \in Tasks : task[t] # Idle =>
          /\ task[t].left \in Seq(Catalogs) /\ task[t].create \in BOOLEAN /\ task[t].expired \in BOOLEAN
          /\ task[t].step \in {"fetch", "clear", "insert", "fail"} /\ task[t].got \in 0 .. MaxListing
          /\ task[t].seen \subseteq Items /\ task[t].errors \subseteq Catalogs

Init ==
    /\ source = [c \in Catalogs |-> [up |-> TRUE, version |-> 1]]
    /\ catalogs = [c \in Catalogs |-> NoCatalog]
    /\ task = [t \in Tasks |-> Idle] /\ faults = 0

Fault == faults < MaxFaults /\ faults' = faults + 1

-----------------------------------------------------------------------------
(* The sources and the user.                                               *)

Change(c) ==
    /\ source[c].version < MaxListing
    /\ \E v \in {0, source[c].version + 1} : source' = [source EXCEPT ![c].version = v]
    /\ Fault /\ UNCHANGED <<catalogs, task>>

Outage(c) == source[c].up /\ Fault /\ source' = [source EXCEPT ![c].up = FALSE] /\ UNCHANGED <<catalogs, task>>
Recover(c) == ~source[c].up /\ source' = [source EXCEPT ![c].up = TRUE] /\ UNCHANGED <<catalogs, task, faults>>

Toggle(c) ==
    /\ There(c) /\ Fault
    /\ catalogs' = [catalogs EXCEPT ![c].enabled = ~@] /\ UNCHANGED <<source, task>>

\* Its items go with it.
Delete(c) == There(c) /\ Fault /\ catalogs' = [catalogs EXCEPT ![c] = NoCatalog] /\ UNCHANGED <<source, task>>

\* The catalogs with an error, as the session read them: only a changed column is written.
Errors == {c \in Catalogs : There(c) /\ catalogs[c].error}

Started(left, create) ==
    [left |-> left, create |-> create, expired |-> FALSE, step |-> "fetch", got |-> 0, seen |-> {}, errors |-> Errors]

Create(r, c) ==
    /\ task[r] = Idle /\ ~There(c) /\ Fault
    /\ task' = [task EXCEPT ![r] = Started(<<c>>, TRUE)] /\ UNCHANGED <<source, catalogs>>

Request(r, c) ==
    /\ task[r] = Idle /\ There(c) /\ Fault
    /\ task' = [task EXCEPT ![r] = Started(<<c>>, FALSE)] /\ UNCHANGED <<source, catalogs>>

\* Mutant: catalogs with an error are left to the user.
DueUnlessError == {c \in Catalogs : catalogs[c].enabled /\ c \notin Errors}

Due == {c \in Catalogs : catalogs[c].enabled}

\* In the order of updated_at, which any step may have changed.
StartJob ==
    /\ task["job"] = Idle /\ Due # {}
    /\ \E left \in SetToSeqs(Due) : task' = [task EXCEPT !["job"] = Started(left, FALSE)]
    /\ UNCHANGED <<source, catalogs, faults>>

-----------------------------------------------------------------------------
(* A refresh.                                                              *)

At(t, step) == task[t] # Idle /\ task[t].step = step
Cat(t) == Head(task[t].left)
To(t, step) == task' = [task EXCEPT ![t].step = step]

\* A rollback expires all rows of a session, and reading them again is an error.
Fetch(t) ==
    /\ At(t, "fetch")
    /\ IF source[Cat(t)].up /\ ~task[t].expired
       THEN task' = [task EXCEPT ![t].step = "clear", ![t].got = source[Cat(t)].version]
       ELSE To(t, "fail")
    /\ UNCHANGED <<source, catalogs, faults>>

\* The DELETE, of the items it sees.
Clear(t) ==
    /\ At(t, "clear")
    /\ task' = [task EXCEPT ![t].step = "insert",
                            ![t].seen = IF There(Cat(t)) THEN catalogs[Cat(t)].items ELSE {}]
    /\ UNCHANGED <<source, catalogs, faults>>

\* Positions and ids are: items another session inserted meanwhile are in the way.
Clashes(t) == task[t].got # 0 /\ catalogs[Cat(t)].items \ task[t].seen # {}

Next1(t) == IF Len(task[t].left) = 1 THEN Idle ELSE [task[t] EXCEPT !.left = Tail(@), !.step = "fetch"]

\* The flush and the commit.
Insert(t) ==
    LET c == Cat(t)
        new == IF task[t].got = 0 THEN {} ELSE {<<t, task[t].got>>}
    IN  /\ At(t, "insert") /\ UNCHANGED <<source, faults>>
        /\ \/ /\ task[t].create /\ ~There(c)
              /\ catalogs' = [catalogs EXCEPT ![c] = [enabled |-> TRUE, items |-> new, error |-> FALSE]]
              /\ task' = [task EXCEPT ![t] = Idle]
           \/ /\ There(c) /\ ~task[t].create /\ ~Clashes(t)
              /\ catalogs' = [catalogs EXCEPT ![c].items = (@ \ task[t].seen) \cup new,
                                              ![c].error = @ /\ c \notin task[t].errors]
              /\ task' = [task EXCEPT ![t] = Next1(t)]
           \/ /\ IF There(c) THEN task[t].create \/ Clashes(t) ELSE ~task[t].create
              /\ To(t, "fail") /\ UNCHANGED catalogs

\* The rollback, and the error is written; the job ends if the catalog is gone.
Failed(t) ==
    LET c == Cat(t)
    IN  /\ At(t, "fail") /\ UNCHANGED <<source, faults>>
        /\ IF task[t].create \/ ~There(c)
           THEN task' = [task EXCEPT ![t] = Idle] /\ UNCHANGED catalogs
           ELSE /\ catalogs' = [catalogs EXCEPT ![c].error = TRUE]
                /\ task' = [task EXCEPT ![t] = IF Next1(t) = Idle THEN Idle ELSE [Next1(t) EXCEPT !.expired = TRUE]]

Crash(t) == task[t] # Idle /\ Fault /\ task' = [task EXCEPT ![t] = Idle] /\ UNCHANGED <<source, catalogs>>

Step(t) == Fetch(t) \/ Clear(t) \/ Insert(t) \/ Failed(t)

Next ==
    \/ \E c \in Catalogs : Change(c) \/ Outage(c) \/ Recover(c) \/ Toggle(c) \/ Delete(c)
    \/ \E r \in Requests, c \in Catalogs : Create(r, c) \/ Request(r, c)
    \/ StartJob \/ \E t \in Tasks : Step(t) \/ Crash(t)

Spec == Init /\ [][Next]_vars

\* The worker polls for the job, and calls return.
FairSpec ==
    /\ Spec /\ WF_vars(StartJob) /\ \A t \in Tasks : WF_vars(Step(t))
    /\ \A c \in Catalogs : WF_vars(Recover(c))

-----------------------------------------------------------------------------
(* OneListing: the items of a catalog are those of one fetch, never a mix  *)
(* of what two refreshes at the same time inserted.                        *)
OneListing == \A c \in Catalogs : There(c) => Cardinality(catalogs[c].items) <= 1

(* CatalogsCatchUp: once the sources are quiet, an enabled catalog comes   *)
(* to show its listing and no error, whatever outage, clash or rolled back *)
(* session it was marked with.                                             *)
Current(c) ==
    /\ ~catalogs[c].error
    /\ {i[2] : i \in catalogs[c].items} = {source[c].version} \ {0}
CatalogsCatchUp == \A c \in Catalogs : <>[](catalogs[c].enabled => Current(c))
=============================================================================
