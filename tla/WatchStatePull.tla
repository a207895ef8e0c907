--------------------------- MODULE WatchStatePull ---------------------------
(***************************************************************************)
(* Version-gated pulls of a user's watch state (core/watch_state_pull.py)  *)
(* while imports, edits and jobs write the tables the answer is made of.   *)
(*                                                                         *)
(* Database triggers count the committed changes of the user's tables and  *)
(* of the catalog; the two counters and the date are the version of the    *)
(* state (db/watch_state_triggers.py).  A pull reads the version, and the  *)
(* cached snapshot if it is of that version; otherwise it locks the user   *)
(* and builds a new one.  Every read is a statement of its own that sees   *)
(* what is committed then (READ COMMITTED), and no writer waits for the    *)
(* user's lock, so anything may be written between two of them.            *)
(***************************************************************************)
EXTENDS Naturals, Sequences

CONSTANTS
    Client,        \* devices that pull, each one pull at a time
    Value,         \* contents of a table
    Transaction,   \* the sets of tables that a transaction may change
    Tries,         \* how often a pull tries to build the snapshot (3 in the code)
    MaxWrites,     \* bound: committed changes, and changes of the date, of each kind
    MaxFailures    \* bound: pulls that fail or whose answer is lost

\* The tables with a per-user trigger, joined with those of the catalog; the date is when
\* an episode counts as released.
UserTable == {"entries", "watches", "watchlist"}
Table == UserTable \cup {"catalog", "date"}

ASSUME TransactionAssumption == Transaction \subseteq (SUBSET (Table \ {"date"})) \ {{}}
ASSUME ValueAssumption == Value # {}
ASSUME BoundAssumption == MaxWrites \in Nat /\ MaxFailures \in Nat
ASSUME TriesAssumption == Tries \in Nat \ {0}

None == "none"
ASSUME ClientAssumption == None \notin Client
Nothing == <<>>   \* no version, no answer

\* The statements of _build_complete_snapshot, in order, and what each one reads.
Part == {"entries", "watches", "next", "watchlist"}
Statement == <<"entries", "watches", "next", "watchlist">>
Reads ==
    [entries   |-> {"entries", "catalog"},
     watches   |-> {"watches", "catalog"},
     next      |-> {"watches", "catalog", "date"},
     watchlist |-> {"watchlist", "catalog"}]

\* _version reads the user's revision, the catalog's and the clock, in this order.
Counter == {"user", "catalog", "date"}
Clock == <<"user", "catalog", "date">>
Version == [Counter -> 0 .. MaxWrites]

VARIABLES
    db,        \* committed contents of the tables
    version,   \* WatchStateRevision, WatchStateCatalogRevision and the date
    snapshot,  \* WatchStateSnapshot of the user
    lock,      \* the pull that holds the user's row lock
    pc, k,     \* the statement each pull is at
    read,      \* the version it read, before building or to compare with the cache
    verify,    \* the version it read after building
    built,     \* the parts it has read
    tries,
    since,     \* the version the client holds
    shown,     \* and the state it was given with it
    was,       \* history: the state as it was at each version
    failures

database == <<db, version, was>>
reading == <<read, verify, built, tries>>
client == <<since, shown>>
vars == <<database, snapshot, lock, pc, k, reading, client, failures>>

\* A part of the payload, as a function of what its statement reads.
Read(p, tables) == [t \in Reads[p] |-> tables[t]]
Payload(tables) == [p \in Part |-> Read(p, tables)]

Contents == [Table -> Value]
NoPart == [p \in Part |-> Nothing]
NoPayload == [version |-> Nothing, payload |-> NoPart]
Zero == [c \in Counter |-> 0]

PartOf(p) == [Reads[p] -> Value] \cup {Nothing}
Payloads == {b \in [Part -> UNION {PartOf(p) : p \in Part}] : \A p \in Part : b[p] \in PartOf(p)}

TypeOK ==
    /\ db \in Contents
    /\ version \in Version
    /\ snapshot = NoPayload \/ snapshot \in [version : Version, payload : Payloads]
    /\ lock \in Client \cup {None}
    /\ pc \in [Client -> {"idle", "check", "cache", "lock", "version", "build", "verify", "publish", "answer"}]
    /\ k \in [Client -> 1 .. 4]
    /\ read \in [Client -> Version] /\ verify \in [Client -> Version]
    /\ built \in [Client -> Payloads] /\ shown \in [Client -> Payloads]
    /\ tries \in [Client -> 0 .. Tries - 1]
    /\ since \in [Client -> Version \cup {Nothing}]
    /\ failures \in 0 .. MaxFailures

\* Nothing is cached, nobody holds a version, and every pull is about to do the same.
InitAt(label) ==
    /\ db \in {[t \in Table |-> v] : v \in Value}
    /\ version = Zero
    /\ snapshot = NoPayload /\ lock = None
    /\ pc = [c \in Client |-> label] /\ k = [c \in Client |-> 1]
    /\ read = [c \in Client |-> Zero] /\ verify = [c \in Client |-> Zero]
    /\ built = [c \in Client |-> NoPart] /\ tries = [c \in Client |-> 0]
    /\ since = [c \in Client |-> Nothing] /\ shown = [c \in Client |-> NoPart]
    /\ was = [v \in {Zero} |-> Payload(db)]
    /\ failures = 0

Init == InitAt("idle")

(***************************************************************************)
(* Writers.                                                                *)
(***************************************************************************)

\* What the triggers count, and the date.
Bumped(T) ==
    {c \in Counter : \/ c = "user" /\ T \cap UserTable # {}
                     \/ c = "catalog" /\ "catalog" \in T
                     \/ c = "date" /\ "date" \in T}

\* A transaction that changes the tables T commits, or the date changes.
Write(T) ==
    /\ \A c \in Counter : version[c] < MaxWrites
    /\ db' \in Contents /\ \A t \in Table \ T : db'[t] = db[t]
    /\ version' = [c \in Counter |-> IF c \in Bumped(T) THEN version[c] + 1 ELSE version[c]]
    /\ was' = [v \in DOMAIN was \cup {version'} |-> IF v = version' THEN Payload(db') ELSE was[v]]
    /\ UNCHANGED <<snapshot, lock, pc, k, reading, client, failures>>

(***************************************************************************)
(* A pull.                                                                 *)
(***************************************************************************)

Goto(c, label) == pc' = [pc EXCEPT ![c] = label] /\ k' = [k EXCEPT ![c] = 1]
Step(c, to, last) ==
    IF k[c] = last THEN Goto(c, to) ELSE k' = [k EXCEPT ![c] = @ + 1] /\ UNCHANGED pc

\* What a pull has read is gone with its transaction, or with the next try to build.
Forget(c) ==
    /\ read' = [read EXCEPT ![c] = Zero] /\ verify' = [verify EXCEPT ![c] = Zero]
    /\ built' = [built EXCEPT ![c] = NoPart]
End(c) ==
    /\ Goto(c, "idle") /\ Forget(c)
    /\ tries' = [tries EXCEPT ![c] = 0]

Start(c) ==
    /\ pc[c] = "idle"
    /\ Goto(c, "check")
    /\ UNCHANGED <<database, snapshot, lock, reading, client, failures>>

\* _version before the cache is looked at, and before building.
ReadVersion(c) ==
    /\ \/ pc[c] = "check" /\ Step(c, "cache", 3)
       \/ pc[c] = "version" /\ Step(c, "build", 3)
    /\ read' = [read EXCEPT ![c] = [@ EXCEPT ![Clock[k[c]]] = version[Clock[k[c]]]]]
    /\ UNCHANGED <<database, snapshot, lock, verify, built, tries, client, failures>>

\* The cached snapshot is of the version just read.
Fresh(c) == snapshot # NoPayload /\ snapshot.version = read[c]

UseCache(c) ==
    /\ pc[c] = "cache"
    /\ IF Fresh(c)
       THEN Goto(c, "answer") /\ built' = [built EXCEPT ![c] = snapshot.payload] /\ UNCHANGED <<read, verify>>
       ELSE Goto(c, "lock") /\ Forget(c)
    /\ UNCHANGED <<database, snapshot, lock, tries, client, failures>>

\* Mutant: builders do not wait for each other.
UnlockedAlways == TRUE
\* The builders of a user's snapshot take turns.
Unlocked == lock = None
Lock(c) ==
    /\ pc[c] = "lock" /\ Unlocked
    /\ lock' = c /\ Goto(c, "version")
    /\ UNCHANGED <<database, snapshot, reading, client, failures>>

Build(c) ==
    /\ pc[c] = "build"
    /\ built' = [built EXCEPT ![c] = [@ EXCEPT ![Statement[k[c]]] = Read(Statement[k[c]], db)]]
    /\ Step(c, "verify", 4)
    /\ UNCHANGED <<database, snapshot, lock, read, verify, tries, client, failures>>

\* Mutant: what was read first is taken for the version of the snapshot.
ConfirmedAlways(c, now) == TRUE
\* The version is the same after the build as before it.
Confirmed(c, now) == now = read[c]

Again(c) == tries[c] < Tries - 1

\* _version after the build, and the decision to keep the snapshot, to build it again or to
\* give up with 503, which ends the transaction.
Verify(c) ==
    LET now == [verify[c] EXCEPT ![Clock[k[c]]] = version[Clock[k[c]]]]
    IN /\ pc[c] = "verify"
       /\ CASE k[c] < 3 ->
                 /\ verify' = [verify EXCEPT ![c] = now]
                 /\ k' = [k EXCEPT ![c] = @ + 1] /\ UNCHANGED <<pc, lock, read, built, tries>>
            [] k[c] >= 3 /\ Confirmed(c, now) ->
                 /\ verify' = [verify EXCEPT ![c] = now]
                 /\ Goto(c, "publish") /\ UNCHANGED <<lock, read, built, tries>>
            [] k[c] >= 3 /\ ~Confirmed(c, now) /\ Again(c) ->
                 /\ Goto(c, "version") /\ Forget(c) /\ tries' = [tries EXCEPT ![c] = @ + 1]
                 /\ UNCHANGED lock
            [] OTHER ->
                 End(c) /\ lock' = None
       /\ UNCHANGED <<database, snapshot, client, failures>>

\* Mutant: the complete state is only sent with a client's first answer.
IncludedOnce(c) == since[c] = Nothing
\* The answer holds the complete state unless the client has that version.
Included(c) == since[c] # read[c]

\* The snapshot, if it was built, is committed; the answer reaches the client or is lost.
Answer(c) ==
    /\ \/ pc[c] = "answer" /\ UNCHANGED snapshot
       \/ pc[c] = "publish" /\ snapshot' = [version |-> read[c], payload |-> built[c]]
    /\ lock' = IF lock = c THEN None ELSE lock
    /\ \/ /\ shown' = [shown EXCEPT ![c] = IF Included(c) THEN built[c] ELSE @]
          /\ since' = [since EXCEPT ![c] = read[c]]
          /\ UNCHANGED failures
       \/ failures < MaxFailures /\ failures' = failures + 1 /\ UNCHANGED client
    /\ End(c)
    /\ UNCHANGED database

\* The connection or the process dies and the transaction is rolled back.
Fail(c) ==
    /\ pc[c] # "idle"
    /\ failures < MaxFailures /\ failures' = failures + 1
    /\ lock' = IF lock = c THEN None ELSE lock
    /\ End(c)
    /\ UNCHANGED <<database, snapshot, client>>

Pull(c) == Start(c) \/ ReadVersion(c) \/ UseCache(c) \/ Lock(c) \/ Build(c) \/ Verify(c) \/ Answer(c)

Next ==
    \/ \E T \in Transaction \cup {{"date"}} : Write(T)
    \/ \E c \in Client : Pull(c) \/ Fail(c)

Spec == Init /\ [][Next]_vars

\* Clients poll, and their requests are served.
Fairness == \A c \in Client : WF_vars(Pull(c))
FairSpec == Spec /\ Fairness

(***************************************************************************)
(* Properties.                                                             *)
(***************************************************************************)

\* "Pulls supply complete snapshots": what a client holds is exactly the state of the
\* version it holds, never a mixture of two and never a state it was not told of.
ClientsHoldTheirVersion ==
    \A c \in Client : since[c] # Nothing => since[c] \in DOMAIN was /\ shown[c] = was[since[c]]

\* The cached snapshot is never replaced by one of an older version: a slow builder must
\* not undo what another process has built since.
SnapshotNeverOlder ==
    [][snapshot # NoPayload => \A n \in Counter : snapshot'.version[n] >= snapshot.version[n]]_vars

\* Once nothing is written any more, every client comes to hold the state of the database.
ClientsCatchUp == <>[](\A c \in Client : shown[c] = Payload(db))

=============================================================================
