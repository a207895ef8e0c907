-------------------------- MODULE WatchStateProofs --------------------------
(***************************************************************************)
(* Proofs about WatchStatePull and WatchStatePush, for every set of        *)
(* clients, values, transactions, videos and events, and every number of   *)
(* tries, writes, failures, receipts and edits.                            *)
(*                                                                         *)
(* Pull.  A counter only grows, and every write raises one.  So a version  *)
(* that is found again after the build was the version of the whole build, *)
(* even though its counters are read one after the other, before and       *)
(* after: the user's counter was constant from its first reading to its    *)
(* second, the date's from its first to its second, and the build lies     *)
(* within all of these spans.                                              *)
(*                                                                         *)
(* Push.  An entry is only written by what is no older than it, in all the *)
(* categories an event feeds, so what was once taken is never newer than   *)
(* what is told.  What was taken stays taken: a receipt goes back to       *)
(* "pending" only for videos of which nothing was.  A watch that an event  *)
(* adds comes with the entry of its id, in the same transaction, and a     *)
(* clear takes the watches its entry stands for along.                     *)
(***************************************************************************)
EXTENDS WatchStatePull, WatchStatePush, FiniteSetTheorems, TLAPS


\* Where _version reads each counter.
Place == [user |-> 1, catalog |-> 2, date |-> 3]

Building == {"version", "build", "verify", "publish"}

\* The version is the newest one and stands for what the database holds.
History ==
    /\ version \in DOMAIN was /\ was[version] = Payload(db)
    /\ \A v \in DOMAIN was : v \in Version /\ \A n \in Counter : v[n] <= version[n]

\* The cached snapshot is the state at its version.
SnapshotTrue ==
    snapshot # NoPayload => snapshot.version \in DOMAIN was /\ snapshot.payload = was[snapshot.version]

\* There are three counters to read.
Placed(c) == pc[c] \in {"check", "version", "verify"} => k[c] \in 1 .. 3

\* What was read of the version is not ahead of it.
ReadPast(c) == \A n \in Counter : read[c][n] <= version[n]

\* While nothing changed since the version was read, the parts read so far are up to date.
PartsAgree(c) ==
    pc[c] = "build" /\ read[c] = version =>
        \A j \in 1 .. 4 : j < k[c] => built[c][Statement[j]] = Read(Statement[j], db)

\* A payload is true of the version read before it.
Sound(c) == read[c] \in DOMAIN was /\ built[c] = was[read[c]]

\* While the version is read again, the payload is sound unless a counter differs.
Agrees(c, n) == (IF Place[n] < k[c] THEN verify[c][n] ELSE version[n]) = read[c][n]
Confirming(c) == pc[c] = "verify" /\ (\A n \in Counter : Agrees(c, n)) => Sound(c)

\* What is published or answered is sound.
Answering(c) == pc[c] \in {"publish", "answer"} => Sound(c)

\* One pull builds at a time.
Turn(c) == lock = c <=> pc[c] \in Building

\* The builder reads no counter that is behind the cached snapshot.
Newer(c) ==
    pc[c] \in Building /\ snapshot # NoPayload =>
        \A n \in Counter : (pc[c] = "version" /\ Place[n] >= k[c]) \/ snapshot.version[n] <= read[c][n]

PullInv(c) ==
    /\ Placed(c) /\ ReadPast(c) /\ PartsAgree(c) /\ Confirming(c)
    /\ Answering(c) /\ Turn(c) /\ Newer(c)

Inv == TypeOK /\ History /\ SnapshotTrue /\ ClientsHoldTheirVersion /\ \A c \in Client : PullInv(c)

(***************************************************************************)
(* Data.                                                                   *)
(***************************************************************************)

LEMMA ReadsTables == \A p \in Part : Reads[p] \in SUBSET Table
  BY DEF Part, Reads, Table, UserTable

LEMMA StatementIsPart == /\ \A j \in 1 .. 4 : Statement[j] \in Part
                         /\ \A p \in Part : \E j \in 1 .. 4 : p = Statement[j]
  BY DEF Statement, Part

LEMMA ClockAndPlace == /\ \A i \in 1 .. 3 : Clock[i] \in Counter /\ Place[Clock[i]] = i
                       /\ \A n \in Counter : Place[n] \in 1 .. 3 /\ Clock[Place[n]] = n
  BY DEF Clock, Place, Counter

LEMMA ZeroIsVersion == Zero \in Version
  BY BoundAssumption DEF Zero, Version

LEMMA ReadType == ASSUME db \in Contents, NEW p \in Part PROVE Read(p, db) \in PartOf(p)
  BY ReadsTables DEF Contents, Read, PartOf

LEMMA NoPartIsPayload == NoPart \in Payloads
  BY DEF Payloads, NoPart, PartOf

\* Every write is counted.
LEMMA BumpedSomething ==
  ASSUME NEW T \in Transaction \cup {{"date"}} PROVE \E n \in Counter : n \in Bumped(T)
  BY TransactionAssumption DEF Bumped, Counter, UserTable, Table

(***************************************************************************)
(* Types.                                                                  *)
(***************************************************************************)

LEMMA PullTypeInit == Init => TypeOK /\ \A c \in Client : Placed(c)
<1> SUFFICES ASSUME Init PROVE TypeOK /\ \A c \in Client : Placed(c)
  OBVIOUS
<1>1. db \in Contents
  BY DEF Init, InitAt, Contents
<1> QED
  BY <1>1, ZeroIsVersion, NoPartIsPayload, TriesAssumption, BoundAssumption DEF Init, InitAt, TypeOK, Placed, NoPayload

LEMMA WriteType ==
  ASSUME TypeOK, NEW T \in Transaction \cup {{"date"}}, Write(T) PROVE TypeOK'
<1>1. version' \in Version
  BY BoundAssumption DEF TypeOK, Write, Version
<1> QED
  BY <1>1 DEF TypeOK, Write, reading, client

\* A pull that ends, or forgets what it read, keeps the types.
LEMMA ForgetType ==
  ASSUME TypeOK, NEW c \in Client, Forget(c)
  PROVE  /\ read' \in [Client -> Version] /\ verify' \in [Client -> Version]
         /\ built' \in [Client -> Payloads]
  BY ZeroIsVersion, NoPartIsPayload DEF TypeOK, Forget

LEMMA EndType ==
  ASSUME TypeOK, NEW c \in Client, End(c), \A d \in Client : Placed(d)
  PROVE  /\ read' \in [Client -> Version] /\ verify' \in [Client -> Version]
         /\ built' \in [Client -> Payloads]
         /\ tries' \in [Client -> 0 .. Tries - 1]
         /\ pc' = [pc EXCEPT ![c] = "idle"] /\ k' = [k EXCEPT ![c] = 1]
  BY ForgetType, TriesAssumption DEF TypeOK, End, Goto

LEMMA PullType ==
  ASSUME TypeOK, NEW c \in Client, Pull(c) \/ Fail(c), \A d \in Client : Placed(d)
  PROVE  TypeOK' /\ \A d \in Client : Placed(d)'
<1> USE DEF Goto, Step
<1>1. CASE Start(c)
  BY <1>1 DEF Start, TypeOK, Placed, database, reading, client
<1>2. CASE ReadVersion(c)
  <2>1. k[c] \in 1 .. 3 /\ Clock[k[c]] \in Counter
    BY <1>2, ClockAndPlace DEF ReadVersion, Placed
  <2>2. read' \in [Client -> Version]
    BY <1>2, <2>1 DEF ReadVersion, TypeOK, Version
  <2> QED
    BY <1>2, <2>1, <2>2 DEF ReadVersion, TypeOK, Placed, database, client
<1>3. CASE UseCache(c)
  <2>1. CASE Fresh(c)
    BY <1>3, <2>1 DEF UseCache, Fresh, TypeOK, Placed, database, client
  <2>2. CASE ~Fresh(c)
    BY <1>3, <2>2, ForgetType DEF UseCache, TypeOK, Placed, database, client
  <2> QED
    BY <2>1, <2>2
<1>4. CASE Lock(c)
  BY <1>4 DEF Lock, TypeOK, Placed, database, reading, client
<1>5. CASE Build(c)
  <2> DEFINE p == Statement[k[c]]
  <2>1. p \in Part /\ Read(p, db) \in PartOf(p)
    BY StatementIsPart, ReadType DEF TypeOK
  <2> HIDE DEF p
  <2>2. ASSUME NEW b \in Payloads PROVE [b EXCEPT ![p] = Read(p, db)] \in Payloads
    BY <2>1 DEF Payloads
  <2>3. built' = [built EXCEPT ![c] = [built[c] EXCEPT ![p] = Read(p, db)]]
    BY <1>5 DEF Build, p
  <2>4. built' \in [Client -> Payloads]
    BY <2>2, <2>3 DEF TypeOK
  <2> QED
    BY <1>5, <2>4 DEF Build, TypeOK, Placed, database, client
<1>6. CASE Verify(c)
  <2> DEFINE now == [verify[c] EXCEPT ![Clock[k[c]]] = version[Clock[k[c]]]]
  <2>1. k[c] \in 1 .. 3 /\ Clock[k[c]] \in Counter
    BY <1>6, ClockAndPlace DEF Verify, Placed
  <2>2. now \in Version
    BY <2>1 DEF TypeOK, Version
  <2> HIDE DEF now
  <2>3. CASE verify' = [verify EXCEPT ![c] = now] /\ k[c] < 3 /\ k' = [k EXCEPT ![c] = @ + 1] /\ UNCHANGED <<pc, lock, read, built, tries>>
    BY <1>6, <2>1, <2>2, <2>3 DEF Verify, TypeOK, Placed, database, client
  <2>4. CASE verify' = [verify EXCEPT ![c] = now] /\ Goto(c, "publish") /\ UNCHANGED <<lock, read, built, tries>>
    BY <1>6, <2>2, <2>4 DEF Verify, TypeOK, Placed, database, client
  <2>5. CASE Again(c) /\ Goto(c, "version") /\ Forget(c) /\ tries' = [tries EXCEPT ![c] = @ + 1] /\ UNCHANGED lock
    <3>1. tries' \in [Client -> 0 .. Tries - 1]
      BY <2>5, TriesAssumption DEF Again, TypeOK
    <3> QED
      BY <1>6, <2>5, <3>1, ForgetType DEF Verify, TypeOK, Placed, database, client
  <2>6. CASE End(c) /\ lock' = None
    BY <1>6, <2>6, EndType DEF Verify, TypeOK, Placed, database, client
  <2> QED
    BY <1>6, <2>1, <2>3, <2>4, <2>5, <2>6 DEF Verify, now
<1>7. CASE Answer(c)
  <2>1. shown' \in [Client -> Payloads]
    BY <1>7 DEF Answer, TypeOK, client
  <2>2. snapshot' = NoPayload \/ snapshot' \in [version : Version, payload : Payloads]
    BY <1>7 DEF Answer, TypeOK
  <2>3. since' \in [Client -> Version \cup {Nothing}] /\ failures' \in 0 .. MaxFailures
    BY <1>7, BoundAssumption DEF Answer, TypeOK, client
  <2> QED
    BY <1>7, <2>1, <2>2, <2>3, EndType DEF Answer, TypeOK, Placed, database
<1>8. CASE Fail(c)
  BY <1>8, EndType, BoundAssumption DEF Fail, TypeOK, Placed, database, client
<1> QED
  BY <1>1, <1>2, <1>3, <1>4, <1>5, <1>6, <1>7, <1>8 DEF Pull

(***************************************************************************)
(* The invariant.                                                          *)
(***************************************************************************)

LEMMA InvInit == Init => Inv
<1> SUFFICES ASSUME Init PROVE Inv
  OBVIOUS
<1>1. TypeOK /\ \A c \in Client : Placed(c)
  BY PullTypeInit
<1>2. History
  BY ZeroIsVersion DEF Init, InitAt, History, Zero
<1>3. ASSUME NEW c \in Client PROVE PullInv(c)
  BY <1>1, <1>3, ClientAssumption
     DEF Init, InitAt, PullInv, ReadPast, PartsAgree, Confirming, Answering, Turn, Newer, Building, Zero
<1> QED
  BY <1>1, <1>2, <1>3 DEF Inv, SnapshotTrue, ClientsHoldTheirVersion, Init, InitAt

\* A write leads to a version never seen before, and changes the state of no earlier one.
LEMMA WriteIsNew ==
  ASSUME Inv, NEW T \in Transaction \cup {{"date"}}, Write(T)
  PROVE  /\ \A n \in Counter : version[n] <= version'[n]
         /\ \A v \in Version : (\A n \in Counter : v[n] <= version[n]) => v # version'
         /\ History'
         /\ \A v \in DOMAIN was : v \in DOMAIN was' /\ was'[v] = was[v]
<1>1. version' = [n \in Counter |-> IF n \in Bumped(T) THEN version[n] + 1 ELSE version[n]]
  BY DEF Write
<1>2. version \in Version /\ version' \in Version
  BY WriteType DEF Inv, TypeOK
<1>3. \A n \in Counter : version[n] \in Nat /\ version[n] <= version'[n]
  BY <1>1, <1>2 DEF Version
<1>4. PICK n \in Counter : version'[n] = version[n] + 1
  BY <1>1, BumpedSomething
<1>5. ASSUME NEW v \in Version, \A i \in Counter : v[i] <= version[i] PROVE v # version'
  BY <1>3, <1>4, <1>5 DEF Version
<1>6. was' = [v \in DOMAIN was \cup {version'} |-> IF v = version' THEN Payload(db') ELSE was[v]]
  BY DEF Write
<1>7. \A v \in DOMAIN was : v \in DOMAIN was' /\ was'[v] = was[v]
  BY <1>5, <1>6 DEF Inv, History
<1>8. version' \in DOMAIN was' /\ was'[version'] = Payload(db')
  BY <1>6
<1>9. ASSUME NEW v \in DOMAIN was' PROVE v \in Version /\ \A i \in Counter : v[i] <= version'[i]
  <2>1. CASE v = version'
    BY <1>2, <1>3, <2>1 DEF Version
  <2>2. CASE v \in DOMAIN was
    BY <1>2, <1>3, <2>2 DEF Inv, History, Version
  <2> QED
    BY <1>6, <1>9, <2>1, <2>2
<1> QED
  BY <1>3, <1>5, <1>7, <1>8, <1>9 DEF History, Payload, Read

LEMMA WriteInv ==
  ASSUME Inv, NEW T \in Transaction \cup {{"date"}}, Write(T) PROVE Inv'
<1>1. /\ \A n \in Counter : version[n] <= version'[n]
      /\ \A v \in Version : (\A n \in Counter : v[n] <= version[n]) => v # version'
      /\ History'
      /\ \A v \in DOMAIN was : v \in DOMAIN was' /\ was'[v] = was[v]
  BY WriteIsNew
<1>2. UNCHANGED <<snapshot, lock, pc, k, read, verify, built, tries, since, shown>>
  BY DEF Write, reading, client
<1>3. TypeOK'
  BY WriteType DEF Inv
<1>4. SnapshotTrue' /\ ClientsHoldTheirVersion'
  BY <1>1, <1>2 DEF Inv, SnapshotTrue, ClientsHoldTheirVersion
<1>5. ASSUME NEW c \in Client PROVE PullInv(c)'
  <2> USE DEF PullInv
  <2>1. PullInv(c)
    BY DEF Inv
  <2>2. read[c] \in Version /\ version \in Version /\ version' \in Version
    BY <1>3 DEF Inv, TypeOK
  <2>3. Placed(c)' /\ Turn(c)' /\ Newer(c)'
    BY <1>2, <2>1 DEF Placed, Turn, Newer
  <2>4. ReadPast(c)'
    BY <1>1, <1>2, <2>1, <2>2 DEF ReadPast, Version
  <2>5. PartsAgree(c)'
    BY <1>1, <1>2, <2>1, <2>2 DEF PartsAgree, ReadPast
  <2>6. Sound(c) => Sound(c)'
    BY <1>1, <1>2 DEF Sound
  <2>7. Answering(c)'
    BY <1>2, <2>1, <2>6 DEF Answering
  <2>8. \A n \in Counter : Agrees(c, n)' => Agrees(c, n)
    BY <1>1, <1>2, <2>1, <2>2 DEF Agrees, ReadPast, Version
  <2>9. Confirming(c)'
    BY <1>2, <2>1, <2>6, <2>8 DEF Confirming
  <2> QED
    BY <2>3, <2>4, <2>5, <2>7, <2>9
<1> QED
  BY <1>1, <1>3, <1>4, <1>5 DEF Inv

\* A step of one pull changes nothing of another one.
Untouched(d) == /\ pc'[d] = pc[d] /\ k'[d] = k[d]
                /\ read'[d] = read[d] /\ verify'[d] = verify[d] /\ built'[d] = built[d]

LEMMA OthersUntouched ==
  ASSUME TypeOK, NEW c \in Client, Pull(c) \/ Fail(c), NEW d \in Client, d # c
  PROVE  Untouched(d)
<1> USE DEF TypeOK, Untouched, Goto, Step
<1>1. CASE Start(c)
  BY <1>1 DEF Start, reading
<1>2. CASE ReadVersion(c)
  BY <1>2 DEF ReadVersion
<1>3. CASE UseCache(c)
  BY <1>3 DEF UseCache, Forget
<1>4. CASE Lock(c)
  BY <1>4 DEF Lock, reading
<1>5. CASE Build(c)
  BY <1>5 DEF Build
<1>6. CASE Verify(c)
  BY <1>6 DEF Verify, End, Forget
<1>7. CASE Answer(c)
  BY <1>7 DEF Answer, End, Forget
<1>8. CASE Fail(c)
  BY <1>8 DEF Fail, End, Forget
<1> QED
  BY <1>1, <1>2, <1>3, <1>4, <1>5, <1>6, <1>7, <1>8 DEF Pull

\* The lock is taken when it is free and given back by its holder; only the holder publishes.
LEMMA LockAndSnapshot ==
  ASSUME Inv, NEW c \in Client, Pull(c) \/ Fail(c)
  PROVE  /\ UNCHANGED database
         /\ lock' = lock \/ (lock = None /\ lock' = c) \/ (lock = c /\ lock' = None)
         /\ UNCHANGED snapshot \/ (lock = c /\ snapshot' = [version |-> read[c], payload |-> built[c]] /\ pc[c] = "publish")
<1> Turn(c)
  BY DEF Inv, PullInv
<1>1. CASE Start(c)
  BY <1>1 DEF Start
<1>2. CASE ReadVersion(c)
  BY <1>2 DEF ReadVersion
<1>3. CASE UseCache(c)
  BY <1>3 DEF UseCache
<1>4. CASE Lock(c)
  BY <1>4 DEF Lock, Unlocked
<1>5. CASE Build(c)
  BY <1>5 DEF Build
<1>6. CASE Verify(c)
  BY <1>6 DEF Verify, Turn, Building
<1>7. CASE Answer(c)
  BY <1>7 DEF Answer, Turn, Building
<1>8. CASE Fail(c)
  BY <1>8 DEF Fail
<1> QED
  BY <1>1, <1>2, <1>3, <1>4, <1>5, <1>6, <1>7, <1>8 DEF Pull

\* The invariant of every other pull survives a step.
LEMMA OthersInv ==
  ASSUME Inv, NEW c \in Client, Pull(c) \/ Fail(c), NEW d \in Client, d # c
  PROVE  PullInv(d)'
<1>1. PullInv(d) /\ Turn(c) /\ TypeOK
  BY DEF Inv, PullInv
<1>2. Untouched(d)
  BY <1>1, OthersUntouched
<1>3. UNCHANGED <<db, version, was>>
  BY LockAndSnapshot DEF database
<1>4. Placed(d)' /\ ReadPast(d)' /\ Answering(d)' /\ Confirming(d)'
  BY <1>1, <1>2, <1>3 DEF PullInv, Untouched, Placed, ReadPast, Answering, Confirming, Sound, Agrees
<1>5. PartsAgree(d)'
  BY <1>1, <1>2, <1>3 DEF PullInv, Untouched, PartsAgree, Read
<1>6. Turn(d)'
  BY <1>1, <1>2, LockAndSnapshot, ClientAssumption DEF PullInv, Untouched, Turn
<1>7. Newer(d)'
  BY <1>1, <1>2, LockAndSnapshot DEF PullInv, Untouched, Newer, Turn
<1> QED
  BY <1>4, <1>5, <1>6, <1>7 DEF PullInv

\* The snapshot stays true, and so does what the clients were given.
LEMMA SnapshotStaysTrue ==
  ASSUME Inv, NEW c \in Client, Pull(c) \/ Fail(c)
  PROVE  SnapshotTrue' /\ History'
<1>1. UNCHANGED <<db, version, was>>
  BY LockAndSnapshot DEF database
<1>2. History'
  BY <1>1 DEF Inv, History, Payload, Read
<1>3. SnapshotTrue'
  BY <1>1, LockAndSnapshot DEF Inv, PullInv, Answering, Sound, SnapshotTrue
<1> QED
  BY <1>2, <1>3

LEMMA ClientsStayTrue ==
  ASSUME Inv, NEW c \in Client, Pull(c) \/ Fail(c)
  PROVE  ClientsHoldTheirVersion'
<1>1. UNCHANGED was
  BY LockAndSnapshot DEF database
<1>2. CASE UNCHANGED client
  BY <1>1, <1>2 DEF Inv, ClientsHoldTheirVersion, client
<1>3. CASE Answer(c)
  <2>1. Sound(c)
    BY <1>3 DEF Inv, PullInv, Answering, Answer
  <2>2. CASE /\ shown' = [shown EXCEPT ![c] = IF Included(c) THEN built[c] ELSE @]
             /\ since' = [since EXCEPT ![c] = read[c]]
    BY <1>1, <2>1, <2>2 DEF Inv, TypeOK, ClientsHoldTheirVersion, Sound, Included
  <2> QED
    BY <1>2, <1>3, <2>2 DEF Answer
<1> QED
  BY <1>2, <1>3 DEF Pull, Fail, Start, ReadVersion, UseCache, Lock, Build, Verify

\* A pull that reads the version, before the cache or before building.
LEMMA ReadVersionInv ==
  ASSUME Inv, NEW c \in Client, ReadVersion(c) PROVE PullInv(c)'
<1> DEFINE n == Clock[k[c]]
<1>1. PullInv(c) /\ TypeOK
  BY DEF Inv
<1>2. k[c] \in 1 .. 3 /\ n \in Counter /\ \A m \in Counter : Place[m] = k[c] => m = n
  BY <1>1, ClockAndPlace DEF PullInv, Placed, ReadVersion
<1> HIDE DEF n
<1>3. /\ read'[c] = [read[c] EXCEPT ![n] = version[n]]
      /\ UNCHANGED <<db, version, was, snapshot, lock, verify, built>>
  BY <1>1 DEF ReadVersion, n, TypeOK, database
<1>4. read[c] \in Version /\ version \in Version
  BY <1>1 DEF TypeOK
<1>5. ReadPast(c)'
  BY <1>1, <1>2, <1>3, <1>4 DEF PullInv, ReadPast, Version
<1>6. pc'[c] \in {"check", "version", "cache", "build"} /\ k'[c] \in 1 .. 3
      /\ (pc'[c] \in Building <=> pc[c] \in Building)
      /\ (pc'[c] = "build" => k'[c] = 1)
  BY <1>1, <1>2 DEF ReadVersion, Step, Goto, TypeOK, Building
<1>7. Placed(c)' /\ PartsAgree(c)' /\ Confirming(c)' /\ Answering(c)' /\ Turn(c)'
  BY <1>1, <1>3, <1>6 DEF PullInv, Placed, PartsAgree, Confirming, Answering, Turn
<1>8. Newer(c)'
  <2> SUFFICES ASSUME pc'[c] \in Building, snapshot # NoPayload, NEW m \in Counter
               PROVE  (pc'[c] = "version" /\ Place[m] >= k'[c]) \/ snapshot.version[m] <= read'[c][m]
    BY <1>3 DEF Newer
  <2>1. \A v \in DOMAIN was : v[m] <= version[m]
    BY DEF Inv, History
  <2>2. snapshot.version[m] <= version[m]
    BY <2>1 DEF Inv, SnapshotTrue
  <2>3. pc[c] = "version"
    BY <1>6 DEF ReadVersion, Building
  <2>4. Place[m] \in 1 .. 3
    BY ClockAndPlace
  <2>5. Place[m] >= k[c] \/ snapshot.version[m] <= read[c][m]
    BY <1>1, <2>3 DEF PullInv, Newer, Building
  <2>6. CASE m = n
    BY <1>2, <1>3, <1>4, <2>2, <2>6 DEF Version
  <2>7. CASE m # n
    <3>1. read'[c][m] = read[c][m] /\ Place[m] # k[c]
      BY <1>2, <1>3, <1>4, <2>7 DEF Version
    <3>2. CASE k[c] = 3
      BY <1>2, <2>4, <2>5, <3>1, <3>2
    <3>3. CASE k[c] # 3
      <4>1. pc'[c] = "version" /\ k'[c] = k[c] + 1
        BY <1>1, <2>3, <3>3 DEF ReadVersion, Step, TypeOK
      <4> QED
        BY <1>2, <2>4, <2>5, <3>1, <4>1
    <3> QED
      BY <3>2, <3>3
  <2> QED
    BY <2>6, <2>7
<1> QED
  BY <1>5, <1>7, <1>8 DEF PullInv

\* A pull that reads a part of the state.
LEMMA BuildInv ==
  ASSUME Inv, NEW c \in Client, Build(c) PROVE PullInv(c)'
<1> DEFINE p == Statement[k[c]]
<1>1. PullInv(c) /\ TypeOK /\ pc[c] = "build" /\ k[c] \in 1 .. 4
  BY DEF Inv, TypeOK, Build
<1>2. built'[c] = [built[c] EXCEPT ![p] = Read(p, db)] /\ p \in Part /\ built[c] \in Payloads /\ built'[c] \in Payloads
  BY <1>1, PullType, StatementIsPart DEF Build, TypeOK, Inv, PullInv, Pull
<1> HIDE DEF p
<1>3. UNCHANGED <<db, version, was, snapshot, lock, read, verify>>
  BY DEF Build, database
<1>4. ASSUME read[c] = version, NEW j \in 1 .. 4, j <= k[c]
      PROVE  built'[c][Statement[j]] = Read(Statement[j], db)
  <2>1. CASE j = k[c]
    BY <1>2, <2>1 DEF p, Payloads
  <2>2. CASE j # k[c]
    <3>1. built[c][Statement[j]] = Read(Statement[j], db)
      BY <1>1, <1>4, <2>2 DEF PullInv, PartsAgree
    <3> QED
      BY <1>2, <3>1, StatementIsPart DEF Payloads
  <2> QED
    BY <2>1, <2>2
<1>5. CASE k[c] # 4
  <2>1. pc'[c] = "build" /\ k'[c] = k[c] + 1
    BY <1>1, <1>5 DEF Build, Step, TypeOK
  <2>2. PartsAgree(c)'
    <3> SUFFICES ASSUME read[c] = version, NEW j \in 1 .. 4, j < k'[c]
                 PROVE  built'[c][Statement[j]] = Read(Statement[j], db)
      BY <1>3 DEF PartsAgree, Read
    <3> QED
      BY <1>1, <1>4, <2>1
  <2> QED
    BY <1>1, <1>3, <2>1, <2>2
       DEF PullInv, Placed, ReadPast, Confirming, Answering, Turn, Newer, Building
<1>6. CASE k[c] = 4
  <2>1. pc'[c] = "verify" /\ k'[c] = 1
    BY <1>1, <1>6 DEF Build, Step, Goto, TypeOK
  <2>2. ASSUME read[c] = version PROVE Sound(c)'
    <3>1. \A q \in Part : built'[c][q] = Read(q, db)
      BY <1>4, <1>6, <2>2, StatementIsPart
    <3>2. built'[c] = Payload(db)
      BY <1>2, <3>1 DEF Payloads, Payload
    <3> QED
      BY <1>3, <2>2, <3>2 DEF Sound, Inv, History
  <2>3. (\A n \in Counter : Agrees(c, n)') => read[c] = version
    <3> SUFFICES ASSUME \A n \in Counter : Agrees(c, n)' PROVE read[c] = version
      OBVIOUS
    <3>1. read[c] \in Version /\ version \in Version
      BY <1>1 DEF TypeOK
    <3>2. \A n \in Counter : ~(Place[n] < k'[c])
      BY <2>1, ClockAndPlace
    <3>3. \A n \in Counter : version[n] = read[c][n]
      BY <1>3, <3>2 DEF Agrees
    <3> QED
      BY <3>1, <3>3 DEF Version
  <2>4. Confirming(c)'
    BY <2>2, <2>3 DEF Confirming
  <2> QED
    BY <1>1, <1>3, <2>1, <2>4
       DEF PullInv, Placed, ReadPast, PartsAgree, Answering, Turn, Newer, Building
<1> QED
  BY <1>5, <1>6

\* A pull that reads the version again, and keeps what it built only if it is the same.
LEMMA VerifyInv ==
  ASSUME Inv, NEW c \in Client, Verify(c) PROVE PullInv(c)'
<1> DEFINE n == Clock[k[c]]
           now == [verify[c] EXCEPT ![n] = version[n]]
<1>1. PullInv(c) /\ TypeOK /\ pc[c] = "verify" /\ lock = c
  BY DEF Inv, PullInv, Turn, Building, Verify
<1>2. k[c] \in 1 .. 3 /\ n \in Counter /\ Place[n] = k[c] /\ \A m \in Counter : Place[m] = k[c] => m = n
  BY <1>1, ClockAndPlace DEF PullInv, Placed
<1>3. now \in Version /\ read[c] \in Version /\ version \in Version /\ verify[c] \in Version
  BY <1>1, <1>2 DEF TypeOK, Version
<1>4. UNCHANGED <<db, version, was, snapshot>>
  BY DEF Verify, database
<1>5. now[n] = version[n] /\ \A m \in Counter : m # n => now[m] = verify[c][m]
  BY <1>2, <1>3 DEF Version
<1> HIDE DEF n, now
<1>6. CASE /\ k[c] < 3 /\ verify' = [verify EXCEPT ![c] = now]
           /\ k' = [k EXCEPT ![c] = @ + 1] /\ UNCHANGED <<pc, lock, read, built, tries>>
  <2>1. k'[c] = k[c] + 1 /\ pc'[c] = "verify" /\ verify'[c] = now /\ read'[c] = read[c] /\ built'[c] = built[c]
    BY <1>1, <1>6 DEF TypeOK
  <2>2. ASSUME NEW m \in Counter, Agrees(c, m)' PROVE Agrees(c, m)
    <3>1. Place[m] \in 1 .. 3
      BY ClockAndPlace
    <3>2. CASE m = n
      BY <1>2, <1>4, <1>5, <2>1, <2>2, <3>2 DEF Agrees
    <3>3. CASE m # n
      <4>1. Place[m] # k[c]
        BY <1>2, <3>3
      <4>2. Place[m] < k'[c] <=> Place[m] < k[c]
        BY <1>2, <2>1, <3>1, <4>1
      <4> QED
        BY <1>4, <1>5, <2>1, <2>2, <3>3, <4>2 DEF Agrees
    <3> QED
      BY <3>2, <3>3
  <2>3. Confirming(c)'
    BY <1>1, <1>4, <2>1, <2>2 DEF PullInv, Confirming, Sound
  <2> QED
    BY <1>1, <1>2, <1>4, <1>6, <2>1, <2>3
       DEF PullInv, Placed, ReadPast, PartsAgree, Answering, Turn, Newer, Building
<1>7. CASE /\ k[c] >= 3 /\ Confirmed(c, now) /\ Goto(c, "publish")
           /\ UNCHANGED <<lock, read, built, tries>>
  <2>1. pc'[c] = "publish" /\ read'[c] = read[c] /\ built'[c] = built[c]
    BY <1>1, <1>7 DEF TypeOK, Goto
  <2>2. ASSUME NEW m \in Counter PROVE Agrees(c, m)
    <3>1. Place[m] \in 1 .. 3 /\ now[m] = read[c][m]
      BY <1>7, ClockAndPlace DEF Confirmed
    <3>2. CASE m = n
      BY <1>2, <1>5, <3>1, <3>2 DEF Agrees
    <3>3. CASE m # n
      BY <1>2, <1>5, <1>7, <3>1, <3>3 DEF Agrees
    <3> QED
      BY <3>2, <3>3
  <2>3. Sound(c)'
    BY <1>1, <1>4, <2>1, <2>2 DEF PullInv, Confirming, Sound
  <2> QED
    BY <1>1, <1>4, <1>7, <2>1, <2>3
       DEF PullInv, Placed, ReadPast, PartsAgree, Confirming, Answering, Turn, Newer, Building
<1>8. CASE Goto(c, "version") /\ Forget(c) /\ UNCHANGED lock
  <2>1. pc'[c] = "version" /\ k'[c] = 1 /\ read'[c] = Zero
    BY <1>1, <1>8 DEF TypeOK, Goto, Forget
  <2>2. \A m \in Counter : Place[m] >= 1 /\ Zero[m] <= version[m]
    BY <1>3, ClockAndPlace DEF Version, Zero
  <2> QED
    BY <1>1, <1>4, <1>8, <2>1, <2>2
       DEF PullInv, Placed, ReadPast, PartsAgree, Confirming, Answering, Turn, Newer, Building
<1>9. CASE End(c) /\ lock' = None
  <2>1. pc'[c] = "idle" /\ k'[c] = 1 /\ read'[c] = Zero
    BY <1>1, <1>9 DEF TypeOK, End, Goto, Forget
  <2>2. \A m \in Counter : Zero[m] <= version[m]
    BY <1>3 DEF Version, Zero
  <2> QED
    BY <1>4, <1>9, <2>1, <2>2, ClientAssumption
       DEF PullInv, Placed, ReadPast, PartsAgree, Confirming, Answering, Turn, Newer, Building
<1> QED
  BY <1>2, <1>6, <1>7, <1>8, <1>9 DEF Verify, n, now

\* The other steps of a pull.
LEMMA OtherStepsInv ==
  ASSUME Inv, NEW c \in Client,
         Start(c) \/ UseCache(c) \/ Lock(c) \/ Answer(c) \/ Fail(c)
  PROVE  PullInv(c)'
<1>1. PullInv(c) /\ TypeOK /\ version \in Version
  BY DEF Inv, TypeOK
<1>2. UNCHANGED <<db, version, was>>
  BY LockAndSnapshot DEF Pull, database
<1>3. \A m \in Counter : Zero[m] <= version[m] /\ Place[m] >= 1
  BY <1>1, ClockAndPlace DEF Version, Zero
<1> USE DEF PullInv, Placed, ReadPast, PartsAgree, Confirming, Answering, Turn, Newer, Building, Goto, TypeOK
<1>4. CASE Start(c)
  BY <1>1, <1>2, <1>4 DEF Start, reading
<1>5. CASE UseCache(c)
  <2>1. CASE Fresh(c)
    <3>1. Sound(c)'
      BY <1>1, <1>2, <1>5, <2>1 DEF UseCache, Fresh, Inv, SnapshotTrue, Sound
    <3> QED
      BY <1>1, <1>2, <1>5, <2>1, <3>1 DEF UseCache
  <2>2. CASE ~Fresh(c)
    BY <1>1, <1>2, <1>3, <1>5, <2>2 DEF UseCache, Forget
  <2> QED
    BY <2>1, <2>2
<1>6. CASE Lock(c)
  <2>1. pc'[c] = "version" /\ k'[c] = 1 /\ lock' = c /\ read' = read /\ snapshot' = snapshot
    BY <1>1, <1>6 DEF Lock, reading
  <2> QED
    BY <1>1, <1>2, <1>3, <2>1
<1>7. CASE Answer(c) \/ Fail(c)
  <2>1. pc'[c] = "idle" /\ k'[c] = 1 /\ read'[c] = Zero /\ lock' # c
    BY <1>1, <1>7, ClientAssumption DEF Answer, Fail, End, Forget
  <2> QED
    BY <1>2, <1>3, <2>1
<1> QED
  BY <1>4, <1>5, <1>6, <1>7

LEMMA InvStep == Inv /\ [Next]_vars => Inv'
<1> SUFFICES ASSUME Inv, [Next]_vars PROVE Inv'
  OBVIOUS
<1>1. ASSUME NEW T \in Transaction \cup {{"date"}}, Write(T) PROVE Inv'
  BY <1>1, WriteInv
<1>2. ASSUME NEW c \in Client, Pull(c) \/ Fail(c) PROVE Inv'
  <2>0. TypeOK /\ \A d \in Client : Placed(d)
    BY DEF Inv, PullInv
  <2>1. TypeOK'
    BY <1>2, <2>0, PullType
  <2>2. PullInv(c)'
    BY <1>2, ReadVersionInv, BuildInv, VerifyInv, OtherStepsInv DEF Pull
  <2>3. \A d \in Client : PullInv(d)'
    BY <1>2, <2>2, OthersInv
  <2> QED
    BY <1>2, <2>1, <2>3, SnapshotStaysTrue, ClientsStayTrue DEF Inv
<1>3. CASE UNCHANGED vars
  <2>1. UNCHANGED <<db, version, was, snapshot, lock, pc, k, read, verify, built, tries, since, shown, failures>>
    BY <1>3 DEF vars, database, reading, client
  <2>2. TypeOK' /\ SnapshotTrue' /\ ClientsHoldTheirVersion'
    BY <2>1 DEF Inv, TypeOK, SnapshotTrue, ClientsHoldTheirVersion
  <2>3. History'
    BY <2>1 DEF Inv, History, Payload, Read
  <2>4. ASSUME NEW c \in Client PROVE PullInv(c)'
    <3>1. PullInv(c)
      BY DEF Inv
    <3>2. Placed(c)' /\ ReadPast(c)' /\ Confirming(c)' /\ Answering(c)' /\ Turn(c)' /\ Newer(c)'
      BY <2>1, <3>1 DEF PullInv, Placed, ReadPast, Confirming, Agrees, Answering, Sound, Turn, Newer
    <3>3. PartsAgree(c)'
      BY <2>1, <3>1 DEF PullInv, PartsAgree, Read
    <3> QED
      BY <3>2, <3>3 DEF PullInv
  <2> QED
    BY <2>2, <2>3, <2>4 DEF Inv
<1> QED
  BY <1>1, <1>2, <1>3 DEF Next

(***************************************************************************)
(* Theorems.                                                               *)
(***************************************************************************)

LEMMA InvHolds == Spec => []Inv
  BY InvInit, InvStep, PTL DEF Spec

\* The tables, the snapshot and the position of every pull keep their types.
THEOREM PullTypeCorrect == Spec => []TypeOK
<1>1. Inv => TypeOK
  BY DEF Inv
<1> QED
  BY <1>1, InvHolds, PTL

\* What a client holds is the state of the version it holds: "check the revision around the
\* complete read" is enough, although the three counters and the four statements are read
\* one after the other and writers take no lock.
THEOREM ClientsHoldOneState == Spec => []ClientsHoldTheirVersion
<1>1. Inv => ClientsHoldTheirVersion
  BY DEF Inv
<1> QED
  BY <1>1, InvHolds, PTL

\* A builder reads the version under the lock that also covers its publication, so the
\* cached snapshot never goes back to an older version.
THEOREM SnapshotMovesForward == Spec => SnapshotNeverOlder
<1>1. ASSUME Inv, [Next]_vars
      PROVE  [snapshot # NoPayload => \A n \in Counter : snapshot'.version[n] >= snapshot.version[n]]_vars
  <2> SUFFICES ASSUME snapshot # NoPayload, NEW n \in Counter PROVE snapshot'.version[n] >= snapshot.version[n]
    OBVIOUS
  <2>1. snapshot.version \in Version
    BY <1>1 DEF Inv, TypeOK
  <2>2. snapshot.version[n] >= snapshot.version[n]
    BY <2>1 DEF Version
  <2>3. CASE UNCHANGED snapshot
    BY <2>2, <2>3
  <2>4. ASSUME NEW c \in Client, Pull(c) \/ Fail(c) PROVE snapshot'.version[n] >= snapshot.version[n]
    <3>1. CASE snapshot' = [version |-> read[c], payload |-> built[c]] /\ pc[c] = "publish"
      <4>1. Newer(c) /\ read[c] \in Version
        BY <1>1 DEF Inv, PullInv, TypeOK
      <4>2. snapshot.version[n] <= read[c][n]
        BY <3>1, <4>1 DEF Newer, Building
      <4> QED
        BY <2>1, <3>1, <4>1, <4>2 DEF Version
    <3> QED
      BY <1>1, <2>3, <2>4, <3>1, LockAndSnapshot
  <2>5. ASSUME NEW T \in Transaction \cup {{"date"}}, Write(T) PROVE UNCHANGED snapshot
    BY <2>5 DEF Write
  <2> QED
    BY <1>1, <2>3, <2>4, <2>5 DEF Next, vars
<1> QED
  BY <1>1, InvHolds, PTL DEF Spec, SnapshotNeverOlder

-----------------------------------------------------------------------------
(* Pushes. *)


Receipt ==
    [kind : Kinds, at : 1 .. MaxTime, videos : SUBSET Targets, stuck : BOOLEAN,
     status : {"pending", "applied", "superseded", "unresolved", "failed"},
     out : [Targets -> Outcomes], maps : [Absolute -> Episodes \cup {NoEpisode}]]
StateEntry == Entry \cup {NoStateEntry}
WatchedItem == [ep : Episodes, at : Time, by : 0 .. MaxReceipts, key : Videos]
ListItem ==
    [status : {"none", "added", "removed", "dropped", "in_progress"},
     links : SUBSET {"watchlist", "dropped", "other"}, manual : BOOLEAN]

\* Of which targets an event may be.
FitsKind(kind, vs) == (kind \in Drops \cup Lists => vs = {Show}) /\ (kind \in Marks \cup Playback => vs \subseteq Videos)

\* Receipts are numbered on; one that is stuck was never taken.
ReceiptOK(r) ==
    /\ r \in Receipt /\ r.at <= time /\ FitsKind(r.kind, r.videos)
    /\ r.stuck => \A t \in Targets : r.out[t] \in {"none", "pending"}
ReceiptsOK ==
    /\ receipts \in [ReceiptId -> Receipt \cup {NoReceipt}]
    /\ \A n \in Received : ReceiptOK(receipts[n])
    /\ Received = 1 .. Cardinality(Received)
    /\ batch \subseteq Received
CountsOK == time \in 1 .. MaxTime /\ allowed \in BOOLEAN /\ counted \in [edits : Nat, clashes : Nat] /\ posted \subseteq PushEvent

\* A mark is playback, too.
EntriesOK ==
    /\ entries \in [Categories -> [Targets -> StateEntry]]
    /\ \A c \in Categories, t \in Targets : entries[c][t].at <= time
    /\ \A t \in Targets : entries["watched"][t].at <= entries["playback"][t].at
HistoryOK == watches \subseteq WatchedItem /\ erased \subseteq Episodes
ItemOK == item \in ListItem /\ (item.status = "dropped" => "dropped" \in item.links)

\* An entry is that of a receipt that was taken, or none was.
EntriesStem ==
    counted.edits = 0 =>
        \A c \in Categories \ {"drop"}, t \in Targets :
            \/ TakenFor(c, t) = {} /\ entries[c][t] = NoStateEntry
            \/ \E n \in TakenFor(c, t) : receipts[n].at = entries[c][t].at /\ receipts[n].kind = entries[c][t].kind
TakenNotNewer == \A c \in Categories, t \in Targets : \A n \in TakenFor(c, t) : receipts[n].at <= entries[c][t].at

PushInv ==
    /\ ReceiptsOK /\ CountsOK /\ EntriesOK /\ HistoryOK /\ ItemOK
    /\ TakenNotNewer /\ EntriesStem
    /\ NothingSwallowed /\ OneWatchPerTime /\ ClearIsObeyed /\ OthersKeepTheShow

Kind == Marks \cup Playback \cup Drops \cup Lists \cup Ratings

\* An event that comes as news to its targets ts.
EventOK(e, ts) ==
    /\ e.kind \in Kind /\ e.at \in 1 .. MaxTime /\ e.at <= time /\ e.by \in 0 .. MaxReceipts
    /\ e.maps \in [Absolute -> Episodes \cup {NoEpisode}]
    /\ ts \subseteq Targets
    /\ e.kind \in Drops \cup Lists => ts \subseteq {Show}
    /\ e.kind \in Marks \cup Playback => ts \subseteq Videos
    /\ \A t \in ts : IsNews(CategoryOf(e.kind), t, e.at)

LEMMA KindsAre ==
  ASSUME NEW kind \in Kind
  PROVE  /\ CategoryOf(kind) \in Categories /\ CategoryOf(kind) \in Feeds(kind) /\ Feeds(kind) \subseteq Categories
         /\ kind \in Marks => CategoryOf(kind) = "watched" /\ Feeds(kind) = {"watched", "playback"}
         /\ kind \notin Marks => Feeds(kind) = {CategoryOf(kind)} /\ CategoryOf(kind) # "watched"
         /\ CategoryOf(kind) = "drop" <=> kind \in Drops
         /\ "watched" \in Feeds(kind) <=> kind \in Marks
         /\ "drop" \in Feeds(kind) <=> kind \in Drops
<1>1. CASE kind \in Marks
  <2>1. CategoryOf(kind) = "watched" /\ Feeds(kind) = {"watched", "playback"} /\ kind \notin Drops
    BY <1>1 DEF CategoryOf, Feeds, Marks, Playback, Drops, Lists, Ratings
  <2> QED
    BY <1>1, <2>1 DEF Categories
<1>2. ASSUME kind \notin Marks
      PROVE  Feeds(kind) = {CategoryOf(kind)}
  BY <1>2 DEF Feeds
<1>3. CASE kind \in Playback
  <2>1. CategoryOf(kind) = "playback" /\ kind \notin Drops /\ kind \notin Marks
    BY <1>3 DEF CategoryOf, Marks, Playback, Drops, Lists, Ratings
  <2> QED
    BY <1>2, <2>1 DEF Categories
<1>4. CASE kind \in Drops
  <2>1. CategoryOf(kind) = "drop" /\ kind \notin Marks
    BY <1>4 DEF CategoryOf, Marks, Playback, Drops, Lists, Ratings
  <2> QED
    BY <1>2, <1>4, <2>1 DEF Categories
<1>5. CASE kind \in Lists
  <2>1. CategoryOf(kind) = "watchlist" /\ kind \notin Drops /\ kind \notin Marks
    BY <1>5 DEF CategoryOf, Marks, Playback, Drops, Lists, Ratings
  <2> QED
    BY <1>2, <2>1 DEF Categories
<1>6. CASE kind \in Ratings
  <2>1. CategoryOf(kind) = "rating" /\ kind \notin Drops /\ kind \notin Marks
    BY <1>6 DEF CategoryOf, Marks, Playback, Drops, Lists, Ratings
  <2> QED
    BY <1>2, <2>1 DEF Categories
<1> QED
  BY <1>1, <1>3, <1>4, <1>5, <1>6 DEF Kind

LEMMA EntryIs ==
  ASSUME EntriesOK, NEW c \in Categories, NEW t \in Targets
  PROVE  /\ entries[c][t] \in StateEntry /\ entries[c][t].at \in Nat /\ entries[c][t].at <= time
         /\ entries[c][t].ep \in Episodes \cup {NoEpisode}
<1>1. entries[c][t] \in StateEntry /\ entries[c][t].at <= time
  BY DEF EntriesOK
<1>2. CASE entries[c][t] \in Entry
  BY <1>1, <1>2, ReceiptsAssumption DEF Entry, Time
<1>3. CASE entries[c][t] = NoStateEntry
  <2>1. NoStateEntry.at = 0 /\ NoStateEntry.ep = NoEpisode
    BY DEF NoStateEntry
  <2>2. entries[c][t].at = 0 /\ entries[c][t].ep = NoEpisode
    BY <1>3, <2>1
  <2> QED
    BY <1>1, <2>2
<1> QED
  BY <1>1, <1>2, <1>3 DEF StateEntry

LEMMA KnownIs ==
  ASSUME EntriesOK, NEW t \in Targets
  PROVE  KnownEpisode(t) \in Episodes \cup {NoEpisode}
<1> DEFINE known == {f \in {entries[c][t] : c \in {"watched", "playback", "rating"}} : f.ep # NoEpisode}
           newest == CHOOSE f \in known : \A g \in known : g.at <= f.at
<1>1. \A f \in known : f.at \in Nat /\ f.ep \in Episodes
  BY EntryIs DEF Categories
<1>2. ASSUME known # {}
      PROVE  \E f \in known : \A g \in known : g.at <= f.at
  <2> DEFINE x == entries["watched"][t]
             y == entries["playback"][t]
             z == entries["rating"][t]
  <2>1. /\ known \subseteq {x, y, z}
        /\ x.at \in Nat /\ y.at \in Nat /\ z.at \in Nat
    BY EntryIs DEF Categories
  <2> HIDE DEF known, x, y, z
  <2>2. \A f \in known : f = x \/ f = y \/ f = z
    BY <2>1
  <2> QED
    BY <1>2, <2>1, <2>2
<1>3. known # {} => newest \in known
  BY <1>2
<1>4. KnownEpisode(t) = IF known = {} THEN NoEpisode ELSE newest.ep
  BY DEF KnownEpisode
<1> HIDE DEF known, newest
<1> QED
  BY <1>1, <1>3, <1>4

LEMMA EpisodeIs ==
  ASSUME EntriesOK, NEW t \in Targets, NEW e, e.maps \in [Absolute -> Episodes \cup {NoEpisode}]
  PROVE  /\ EpisodeFor(e, t) \in Episodes \cup {NoEpisode}
         /\ t \in Episodes => EpisodeFor(e, t) = t
<1>1. CASE t \in Episodes
  <2>1. EpisodeFor(e, t) = t
    BY <1>1, VideosAssumption DEF EpisodeFor
  <2> QED
    BY <1>1, <2>1
<1>2. CASE t = Show
  <2>1. t \notin Episodes
    BY <1>2, VideosAssumption
  <2>2. EpisodeFor(e, t) = NoEpisode
    BY <1>2, VideosAssumption DEF EpisodeFor
  <2> QED
    BY <2>1, <2>2
<1>3. CASE t \in Absolute
  <2>1. t \notin Episodes /\ t # Show
    BY <1>3, VideosAssumption
  <2>2. EpisodeFor(e, t) = IF e.maps[t] # NoEpisode THEN e.maps[t] ELSE KnownEpisode(t)
    BY <1>3 DEF EpisodeFor
  <2>3. e.maps[t] \in Episodes \cup {NoEpisode}
    BY <1>3
  <2> QED
    BY <2>1, <2>2, <2>3, KnownIs
<1> QED
  BY <1>1, <1>2, <1>3 DEF Targets, Videos


\* Where an event is written.
Written(e, ts, c, t) == t \in ts /\ c \in Feeds(e.kind) /\ IsNews(c, t, e.at)
Undrops(e, ts, c, t) == c = "drop" /\ t = Show /\ Resumes(e, ts)

LEMMA AfterIs ==
  ASSUME EntriesOK, NEW e, NEW ts, EventOK(e, ts), NEW c \in Categories, NEW t \in Targets
  PROVE  /\ EntriesAfter(e, ts)[c][t] \in StateEntry
         /\ EntriesAfter(e, ts)[c][t].at \in Nat /\ EntriesAfter(e, ts)[c][t].at <= time
         /\ entries[c][t].at <= EntriesAfter(e, ts)[c][t].at
         /\ t \in ts /\ c \in Feeds(e.kind) => e.at <= EntriesAfter(e, ts)[c][t].at
         /\ Written(e, ts, c, t) =>
              /\ EntriesAfter(e, ts)[c][t].at = e.at /\ EntriesAfter(e, ts)[c][t].kind = e.kind
              /\ EntriesAfter(e, ts)[c][t].ep = IF t \in Absolute THEN EpisodeFor(e, t) ELSE NoEpisode
         /\ ~Written(e, ts, c, t) /\ Undrops(e, ts, c, t) => EntriesAfter(e, ts)[c][t].kind = "undropped"
         /\ ~Written(e, ts, c, t) /\ ~Undrops(e, ts, c, t) => EntriesAfter(e, ts)[c][t] = entries[c][t]
<1> DEFINE x == entries[c][t]
           y == EntriesAfter(e, ts)[c][t]
           ep == IF t \in Absolute THEN EpisodeFor(e, t) ELSE NoEpisode
           new == [at |-> e.at, kind |-> e.kind, ep |-> ep]
           undropped == [at |-> e.at, kind |-> "undropped", ep |-> NoEpisode]
<1>1. y = IF Written(e, ts, c, t) THEN new ELSE IF Undrops(e, ts, c, t) THEN undropped ELSE x
  BY DEF EntriesAfter, Written, Undrops
<1>2. /\ e.kind \in Kind /\ e.at \in Time /\ e.at \in Nat /\ e.at <= time
      /\ ep \in Episodes \cup {NoEpisode}
  BY EpisodeIs, ReceiptsAssumption DEF EventOK, Time
<1>3. x \in StateEntry /\ x.at \in Nat /\ x.at <= time
  BY EntryIs
<1>4. Written(e, ts, c, t) => x.at <= e.at
  BY DEF Written, IsNews
<1>5. Undrops(e, ts, c, t) => x.at <= e.at
  BY DEF Undrops, Resumes
<1>6. t \in ts /\ c \in Feeds(e.kind) /\ ~Written(e, ts, c, t) => e.at <= x.at
  BY <1>2, <1>3 DEF Written, IsNews
<1>7. new \in StateEntry /\ new.at = e.at /\ new.kind = e.kind /\ new.ep = ep
  BY <1>2 DEF StateEntry, Entry, Kind
<1>8. undropped \in StateEntry /\ undropped.at = e.at /\ undropped.kind = "undropped"
  BY <1>2 DEF StateEntry, Entry, Drops
<1> HIDE DEF x, y, ep, new, undropped
<1>9. CASE Written(e, ts, c, t)
  <2>1. y = new /\ y.at = e.at /\ y.kind = e.kind /\ y.ep = ep
    BY <1>1, <1>7, <1>9
  <2> QED
    BY <1>2, <1>3, <1>4, <1>7, <1>9, <2>1 DEF x, y, ep
<1>10. CASE ~Written(e, ts, c, t) /\ Undrops(e, ts, c, t)
  <2>1. y = undropped /\ y.at = e.at /\ y.kind = "undropped"
    BY <1>1, <1>8, <1>10
  <2> QED
    BY <1>2, <1>3, <1>5, <1>8, <1>10, <2>1 DEF x, y
<1>11. CASE ~Written(e, ts, c, t) /\ ~Undrops(e, ts, c, t)
  <2>1. y = x
    BY <1>1, <1>11
  <2> QED
    BY <1>3, <1>6, <1>11, <2>1 DEF x, y
<1> QED
  BY <1>9, <1>10, <1>11

\* A mark's playback is never behind it.
LEMMA PairStays ==
  ASSUME EntriesOK, NEW e, NEW ts, EventOK(e, ts), NEW t \in Targets
  PROVE  EntriesAfter(e, ts)["watched"][t].at <= EntriesAfter(e, ts)["playback"][t].at
<1> DEFINE w == entries["watched"][t].at
           p == entries["playback"][t].at
           w1 == EntriesAfter(e, ts)["watched"][t].at
           p1 == EntriesAfter(e, ts)["playback"][t].at
<1>1. w \in Nat /\ p \in Nat /\ w1 \in Nat /\ p1 \in Nat /\ w <= w1 /\ p <= p1 /\ w <= p /\ e.at \in Nat
  <2>1. "watched" \in Categories /\ "playback" \in Categories
    BY DEF Categories
  <2>2. w \in Nat /\ p \in Nat
    BY <2>1, EntryIs
  <2>3. w1 \in Nat /\ p1 \in Nat /\ w <= w1 /\ p <= p1
    BY <2>1, AfterIs
  <2> QED
    BY <2>2, <2>3 DEF EntriesOK, EventOK
<1>2. Written(e, ts, "watched", t) => w1 = e.at /\ e.at <= p1
  <2>1. Written(e, ts, "watched", t) => t \in ts /\ "playback" \in Feeds(e.kind)
    BY KindsAre DEF Written, EventOK
  <2> QED
    BY <2>1, AfterIs DEF Categories
<1>3. ~Written(e, ts, "watched", t) => w1 = w
  BY AfterIs DEF Undrops, Categories
<1> HIDE DEF w, p, w1, p1
<1>4. w1 <= p1
  BY <1>1, <1>2, <1>3
<1> QED
  BY <1>4 DEF w1, p1

\* Entries only grow newer, and a mark's playback is never behind it.
LEMMA EntriesStep ==
  ASSUME EntriesOK, NEW e, NEW ts, EventOK(e, ts), entries' = EntriesAfter(e, ts), time' = time
  PROVE  EntriesOK'
<1>1. entries' \in [Categories -> [Targets -> StateEntry]]
  <2>1. EntriesAfter(e, ts) = [c \in Categories |-> [t \in Targets |-> EntriesAfter(e, ts)[c][t]]]
    BY DEF EntriesAfter
  <2> QED
    BY <2>1, AfterIs
<1>2. \A c \in Categories, t \in Targets : entries'[c][t].at <= time'
  BY AfterIs
<1>3. \A t \in Targets : entries'["watched"][t].at <= entries'["playback"][t].at
  BY PairStays
<1> QED
  BY <1>1, <1>2, <1>3 DEF EntriesOK

\* What a mark adds.
LEMMA AddedAre ==
  ASSUME EntriesOK, NEW e, NEW ts, EventOK(e, ts), NEW w \in Added(e, ts)
  PROVE  /\ w \in WatchedItem /\ w.at = e.at /\ w.by = e.by
         /\ w.key \in ts /\ EpisodeFor(e, w.key) = w.ep
         /\ w = [ep |-> w.ep, at |-> e.at, by |-> e.by, key |-> CHOOSE x \in ts : EpisodeFor(e, x) = w.ep]
         /\ \A v \in watches : v.ep = w.ep => v.at # e.at
<1>1. PICK ep \in EpisodesFor(e, ts) :
        AddsWatch(e, ep) /\ w = [ep |-> ep, at |-> e.at, by |-> e.by, key |-> CHOOSE x \in ts : EpisodeFor(e, x) = ep]
  BY DEF Added
<1>2. ep \in Episodes /\ \E x \in ts : EpisodeFor(e, x) = ep
  <2>1. ts \subseteq Targets /\ e.maps \in [Absolute -> Episodes \cup {NoEpisode}]
    BY DEF EventOK
  <2> QED
    BY <2>1, EpisodeIs DEF EpisodesFor
<1> DEFINE key == CHOOSE x \in ts : EpisodeFor(e, x) = ep
<1>3. key \in ts /\ EpisodeFor(e, key) = ep
  BY <1>2
<1>4. key \in Videos
  <2>1. ts \subseteq Targets
    BY DEF EventOK
  <2>2. key # Show
    BY <1>2, <1>3, VideosAssumption DEF EpisodeFor
  <2> QED
    BY <1>3, <2>1, <2>2 DEF Targets
<1>5. w.ep = ep /\ w.at = e.at /\ w.by = e.by /\ w.key = key
  BY <1>1
<1>6. \A v \in watches : v.ep = w.ep => v.at # e.at
  BY <1>1, <1>5 DEF AddsWatch
<1>7. e.at \in Time /\ e.by \in 0 .. MaxReceipts
  BY ReceiptsAssumption DEF EventOK, Time
<1>8. w \in WatchedItem
  <2> HIDE DEF key
  <2>1. w = [ep |-> ep, at |-> e.at, by |-> e.by, key |-> key]
    BY <1>1 DEF key
  <2> QED
    BY <2>1, <1>2, <1>4, <1>7 DEF WatchedItem
<1> QED
  BY <1>1, <1>3, <1>5, <1>6, <1>8

LEMMA WatchesStep ==
  ASSUME EntriesOK, HistoryOK, OneWatchPerTime, NEW e, NEW ts, EventOK(e, ts),
         watches' = WatchesAfter(e, ts), erased' = ErasedAfter(e, ts)
  PROVE  HistoryOK' /\ OneWatchPerTime'
<1>1. watches' \subseteq watches \cup Added(e, ts)
  BY DEF WatchesAfter
<1>2. watches' \subseteq WatchedItem
  BY <1>1, AddedAre DEF HistoryOK
<1>3. erased' \subseteq Episodes
  <2>1. ErasedAfter(e, ts) \subseteq erased \cup {w.ep : w \in watches}
    BY DEF ErasedAfter, Cleared
  <2>2. \A w \in watches : w.ep \in Episodes
    BY DEF HistoryOK, WatchedItem
  <2> QED
    BY <2>1, <2>2 DEF HistoryOK
<1>4. ASSUME NEW v \in watches', NEW w \in watches', v.by # 0, w.by # 0, v.ep = w.ep, v.at = w.at
      PROVE  v = w
  <2>1. CASE v \in watches /\ w \in watches
    BY <1>4, <2>1 DEF OneWatchPerTime
  <2>2. CASE v \in Added(e, ts) /\ w \in Added(e, ts)
    <3> DEFINE made(ep) == [ep |-> ep, at |-> e.at, by |-> e.by, key |-> CHOOSE x \in ts : EpisodeFor(e, x) = ep]
    <3>1. v = made(v.ep) /\ w = made(w.ep)
      BY <2>2, AddedAre
    <3> HIDE DEF made
    <3> QED
      BY <1>4, <3>1
  <2>3. CASE v \in watches /\ w \in Added(e, ts)
    BY <1>4, <2>3, AddedAre
  <2>4. CASE v \in Added(e, ts) /\ w \in watches
    BY <1>4, <2>4, AddedAre
  <2> QED
    BY <1>1, <2>1, <2>2, <2>3, <2>4
<1> QED
  BY <1>2, <1>3, <1>4 DEF HistoryOK, OneWatchPerTime

\* A clear removes what it covers, and a mark leaves a watch.
LEMMA ClearStep ==
  ASSUME EntriesOK, HistoryOK, ClearIsObeyed, NEW e, NEW ts, EventOK(e, ts),
         entries' = EntriesAfter(e, ts), watches' = WatchesAfter(e, ts), erased' = ErasedAfter(e, ts)
  PROVE  ClearIsObeyed'
<1> SUFFICES ASSUME NEW v \in Videos
             PROVE  /\ entries'["watched"][v].kind = "unplayed" =>
                          ~\E w \in watches' : w.key = v /\ w.ep \in {v, entries'["watched"][v].ep}
                                               /\ w.at <= entries'["watched"][v].at
                    /\ entries'["watched"][v].kind \in {"played", "stopped"} /\ v \in Episodes \ erased' =>
                          \E w \in watches' : w.ep = v
  BY DEF ClearIsObeyed
<1> DEFINE x == entries["watched"][v]
           y == EntriesAfter(e, ts)["watched"][v]
           wr == Written(e, ts, "watched", v)
<1>1. v \in Targets /\ "watched" \in Categories
  BY DEF Targets, Categories
<1>2. /\ wr => y.at = e.at /\ y.kind = e.kind /\ y.ep = IF v \in Absolute THEN EpisodeFor(e, v) ELSE NoEpisode
      /\ ~wr => y = x
  BY <1>1, AfterIs DEF Undrops
<1>3. wr <=> v \in ts /\ e.kind \in Marks
  <2>1. e.kind \in Marks => CategoryOf(e.kind) = "watched"
    BY KindsAre DEF EventOK
  <2>2. "watched" \in Feeds(e.kind) <=> e.kind \in Marks
    BY KindsAre DEF EventOK
  <2> QED
    BY <2>1, <2>2 DEF EventOK, Written
<1>4. EpisodeFor(e, v) \in Episodes \cup {NoEpisode} /\ (v \in Episodes => EpisodeFor(e, v) = v)
  BY <1>1, EpisodeIs DEF EventOK
<1>5. v \in ts /\ EpisodeFor(e, v) # NoEpisode => EpisodeFor(e, v) \in EpisodesFor(e, ts)
  BY DEF EpisodesFor
<1>6. \A w \in watches : w.ep \in Episodes
  BY DEF HistoryOK, WatchedItem
<1>7. /\ x.kind = "unplayed" => ~\E w \in watches : w.key = v /\ w.ep \in {v, x.ep} /\ w.at <= x.at
      /\ x.kind \in {"played", "stopped"} /\ v \in Episodes \ erased => \E w \in watches : w.ep = v
  BY DEF ClearIsObeyed
<1> HIDE DEF x, y, wr
<1>8. ASSUME y.kind = "unplayed", NEW w \in watches', w.key = v, w.ep \in {v, y.ep}, w.at <= y.at
      PROVE  FALSE
  <2>1. CASE wr
    <3>1. e.kind = "unplayed" /\ v \in ts
      BY <1>2, <1>3, <1>8, <2>1
    <3>2. w \in watches /\ w \notin Cleared(e, ts)
      BY <3>1, <1>8 DEF WatchesAfter
    <3>3. w.ep = EpisodeFor(e, v) /\ w.ep \in Episodes
      BY <1>2, <1>4, <1>6, <1>8, <2>1, <3>2, VideosAssumption DEF Videos
    <3>4. w.ep \in EpisodesFor(e, ts)
      BY <3>1, <3>3, <1>5, VideosAssumption
    <3> QED
      BY <1>2, <1>8, <2>1, <3>2, <3>4 DEF Cleared
  <2>2. CASE ~wr
    <3>1. w \notin watches
      BY <1>2, <1>7, <1>8, <2>2
    <3>2. e.kind \in {"played", "stopped"} /\ w \in Added(e, ts)
      BY <1>8, <3>1 DEF WatchesAfter
    <3>3. v \in ts
      BY <1>8, <3>2, AddedAre
    <3> QED
      BY <1>3, <2>2, <3>2, <3>3 DEF Marks
  <2> QED
    BY <2>1, <2>2
<1>9. ASSUME y.kind \in {"played", "stopped"}, v \in Episodes \ erased'
      PROVE  \E w \in watches' : w.ep = v
  <2>1. CASE wr
    <3>1. e.kind \in {"played", "stopped"} /\ v \in EpisodesFor(e, ts)
      BY <1>2, <1>3, <1>4, <1>5, <1>9, <2>1, VideosAssumption
    <3>2. watches' = watches \cup Added(e, ts)
      BY <3>1 DEF WatchesAfter
    <3>3. CASE AddsWatch(e, v)
      <4> DEFINE made == [ep |-> v, at |-> e.at, by |-> e.by, key |-> CHOOSE t \in ts : EpisodeFor(e, t) = v]
      <4>1. made \in Added(e, ts)
        BY <3>1, <3>3 DEF Added
      <4>2. made.ep = v
        OBVIOUS
      <4> HIDE DEF made
      <4> QED
        BY <3>2, <4>1, <4>2
    <3>4. CASE ~AddsWatch(e, v)
      BY <3>2, <3>4 DEF AddsWatch
    <3> QED
      BY <3>3, <3>4
  <2>2. CASE ~wr
    <3>1. erased \subseteq erased'
      BY DEF ErasedAfter
    <3>2. PICK w \in watches : w.ep = v
      BY <1>2, <1>7, <1>9, <2>2, <3>1
    <3>3. CASE e.kind = "unplayed" /\ w \in Cleared(e, ts)
      <4>1. PICK t \in ts : EpisodeFor(e, t) = v
        BY <3>2, <3>3 DEF Cleared, EpisodesFor
      <4>2. t \notin Episodes
        <5>1. t \in Episodes => EpisodeFor(e, t) = t
          BY EpisodeIs DEF EventOK
        <5>2. t # v
          BY <1>3, <2>2, <3>3 DEF Marks
        <5> QED
          BY <4>1, <5>1, <5>2
      <4>3. t \in Absolute
        <5>1. t # Show
          BY <4>1, <1>9, VideosAssumption DEF EpisodeFor
        <5> QED
          BY <4>2, <5>1 DEF EventOK, Targets, Videos
      <4>4. w.ep \in EpisodesFor(e, ts \cap Absolute)
        BY <4>1, <4>3, <3>2, <1>9, VideosAssumption DEF EpisodesFor
      <4>5. w \in Cleared(e, ts \cap Absolute)
        BY <3>3, <4>4 DEF Cleared
      <4>6. v \in erased'
        BY <3>2, <3>3, <4>5 DEF ErasedAfter
      <4> QED
        BY <4>6, <1>9
    <3>4. CASE ~(e.kind = "unplayed" /\ w \in Cleared(e, ts))
      BY <3>2, <3>4 DEF WatchesAfter
    <3> QED
      BY <3>3, <3>4
  <2> QED
    BY <2>1, <2>2
<1> QED
  BY <1>8, <1>9 DEF y

\* The list of the show follows what is on record for it.
LEMMA ItemStep ==
  ASSUME EntriesOK, ItemOK, OthersKeepTheShow, NEW e, NEW ts, EventOK(e, ts),
         entries' = EntriesAfter(e, ts), item' = ItemAfter(e, ts)
  PROVE  ItemOK' /\ OthersKeepTheShow'
<1> DEFINE x == entries["drop"][Show]
           y == EntriesAfter(e, ts)["drop"][Show]
           fits(i) == /\ i \in ListItem
                      /\ i.status = "dropped" => "dropped" \in i.links
                      /\ i.status = "removed" => i.links = {} /\ ~i.manual
<1>1. Show \in Targets /\ "drop" \in Categories
  BY DEF Targets, Categories
<1>2. /\ Written(e, ts, "drop", Show) => y.kind = e.kind
      /\ ~Written(e, ts, "drop", Show) /\ Resumes(e, ts) => y.kind = "undropped"
      /\ ~Written(e, ts, "drop", Show) /\ ~Resumes(e, ts) => y = x
  BY <1>1, AfterIs DEF Undrops
<1>3. Written(e, ts, "drop", Show) <=> e.kind \in Drops /\ ts # {}
  <2>1. e.kind \in Drops => CategoryOf(e.kind) = "drop" /\ ts \subseteq {Show}
    BY KindsAre DEF EventOK
  <2>2. "drop" \in Feeds(e.kind) <=> e.kind \in Drops
    BY KindsAre DEF EventOK
  <2> QED
    BY <2>1, <2>2 DEF EventOK, Written
<1>4. fits(item) /\ (item.status = "dropped" <=> x.kind = "dropped")
  BY DEF ItemOK, OthersKeepTheShow
<1>5. Resumes(e, ts) => x.kind = "dropped" /\ e.kind \notin Drops \cup Lists
  BY DEF Resumes, Drops, Lists
<1> SUFFICES fits(item') /\ (item'.status = "dropped" <=> y.kind = "dropped")
  BY DEF ItemOK, OthersKeepTheShow
<1> HIDE DEF x, y
<1> DEFINE made == IF item.status = "none" THEN [item EXCEPT !.status = "added"] ELSE item
<1>6. /\ made \in ListItem /\ made.links = item.links /\ made.manual = item.manual
       /\ made.status = IF item.status = "none" THEN "added" ELSE item.status
  BY <1>4 DEF ListItem
<1> HIDE DEF made
<1>7. CASE e.kind = "watchlisted" /\ ts # {}
  <2>1. item' = WithItem(item, "watchlisted") /\ y = x
    BY <1>2, <1>3, <1>5, <1>7 DEF ItemAfter, Lists, Drops
  <2>2. item' = [made EXCEPT !.links = made.links \cup {"watchlist"},
                             !.status = IF made.status = "removed" THEN "added" ELSE made.status]
    BY <2>1 DEF WithItem, made
  <2> QED
    BY <1>4, <1>6, <2>1, <2>2 DEF ListItem
<1>8. CASE e.kind = "unwatchlisted" /\ ts # {}
  <2>1. item' = WithItem(item, "unwatchlisted") /\ y = x
    BY <1>2, <1>3, <1>5, <1>8 DEF ItemAfter, Lists, Drops
  <2> QED
    BY <1>4, <2>1 DEF WithItem, ListItem, Kept
<1>9. CASE e.kind = "dropped" /\ ts # {}
  <2>1. item' = WithItem(item, "dropped") /\ y.kind = "dropped"
    BY <1>2, <1>3, <1>9 DEF ItemAfter, Drops
  <2>2. item' = [made EXCEPT !.links = made.links \cup {"dropped"}, !.status = "dropped"]
    BY <2>1 DEF WithItem, made
  <2> QED
    BY <1>4, <1>6, <2>1, <2>2 DEF ListItem
<1> DEFINE back == WithItem(item, "undropped")
<1>13. fits(back) /\ back.status # "dropped"
  <2>1. CASE item.status = "none"
    <3>1. back = item
      BY <2>1 DEF WithItem
    <3> HIDE DEF back
    <3> QED
      BY <1>4, <2>1, <3>1
  <2>2. CASE item.status # "none"
    <3>1. back = [item EXCEPT !.links = item.links \ {"dropped"},
                              !.status = IF item.status = "dropped" THEN "in_progress" ELSE item.status]
      BY <2>2 DEF WithItem
    <3> HIDE DEF back
    <3>2. /\ back \in ListItem /\ back.links = item.links \ {"dropped"} /\ back.manual = item.manual
          /\ back.status = IF item.status = "dropped" THEN "in_progress" ELSE item.status
      BY <1>4, <3>1 DEF ListItem
    <3> QED
      BY <1>4, <3>2
  <2> QED
    BY <2>1, <2>2
<1>10. CASE e.kind = "undropped" /\ ts # {}
  <2>1. item' = back /\ y.kind = "undropped"
    BY <1>2, <1>3, <1>10 DEF ItemAfter, Drops
  <2> HIDE DEF back
  <2> QED
    BY <1>13, <2>1
<1>11. CASE Resumes(e, ts)
  <2>1. item' = back /\ y.kind = "undropped"
    BY <1>2, <1>3, <1>5, <1>11 DEF ItemAfter
  <2> HIDE DEF back
  <2> QED
    BY <1>13, <2>1
<1>12. CASE ~Resumes(e, ts) /\ (ts = {} \/ e.kind \notin Drops \cup Lists)
  <2>1. item' = item /\ y = x
    BY <1>2, <1>3, <1>12 DEF ItemAfter
  <2> QED
    BY <1>4, <2>1
<1> QED
  BY <1>7, <1>8, <1>9, <1>10, <1>11, <1>12 DEF Drops, Lists

\* A receipt of which target t was taken into category c.
Taken(r, c, t) ==
    t \in r.videos /\ c \in Feeds(r.kind) /\ r.out[t] \in {"applied", "superseded", "unresolved"}

LEMMA EventIsOK ==
  ASSUME NEW n \in ReceiptId, NEW r, ReceiptOK(r), NEW clash \in BOOLEAN
  PROVE  EventOK(EventOf(n, r), News(r, clash))
<1> DEFINE e == EventOf(n, r)
           ts == News(r, clash)
<1>1. e.kind = r.kind /\ e.at = r.at /\ e.maps = r.maps /\ e.by = n
  BY DEF EventOf
<1>2. /\ r.kind \in Kinds /\ r.at \in 1 .. MaxTime /\ r.videos \subseteq Targets /\ r.at <= time
      /\ r.maps \in [Absolute -> Episodes \cup {NoEpisode}]
  BY DEF ReceiptOK, Receipt
<1>3. r.kind \in Kind /\ n \in 0 .. MaxReceipts
  BY <1>2, KindsAssumption, ReceiptsAssumption DEF Kind, ReceiptId
<1>4. ts \subseteq r.videos /\ \A t \in ts : IsNews(CategoryOf(r.kind), t, r.at)
  BY DEF News, ToDo
<1>5. /\ r.kind \in Drops \cup Lists => ts \subseteq {Show}
      /\ r.kind \in Marks \cup Playback => ts \subseteq Videos
  BY <1>4 DEF ReceiptOK, FitsKind
<1> HIDE DEF e, ts
<1>6. EventOK(e, ts)
  BY <1>1, <1>2, <1>3, <1>4, <1>5 DEF EventOK
<1> QED
  BY <1>6 DEF e, ts

LEMMA ProcessedIs ==
  ASSUME NEW n \in ReceiptId, NEW r, ReceiptOK(r), NEW clash \in BOOLEAN, r.stuck => clash,
         clash => \A t \in Targets : r.out[t] \in {"none", "pending"}
  PROVE  /\ ReceiptOK(Processed(n, r, clash)) /\ KeyOf(Processed(n, r, clash)) = KeyOf(r)
         /\ Processed(n, r, clash).kind = r.kind /\ Processed(n, r, clash).at = r.at
         /\ \A t \in Targets, c \in Categories :
              /\ Taken(r, c, t) => Taken(Processed(n, r, clash), c, t)
              /\ t \in News(r, clash) /\ c \in Feeds(r.kind) => Taken(Processed(n, r, clash), c, t)
              /\ Taken(Processed(n, r, clash), c, t) =>
                   Taken(r, c, t) \/ (c \in Feeds(r.kind) /\ (t \in News(r, clash) \/ ~IsNews(CategoryOf(r.kind), t, r.at)))
<1> DEFINE p == Processed(n, r, clash)
           out == OutcomesOf(n, r, clash)
           e == EventOf(n, r)
           status == StatusOf({out[t] : t \in r.videos})
<1>1. r \in Receipt /\ r.out \in [Targets -> Outcomes] /\ r.videos \subseteq Targets
  BY DEF ReceiptOK, Receipt
<1>2. /\ out = [t \in Targets |-> out[t]]
      /\ \A t \in Targets : out[t] = IF t \notin ToDo(r) THEN r.out[t] ELSE IF clash THEN "pending" ELSE OutcomeOf(e, t)
  BY DEF OutcomesOf
<1>3. \A t \in Targets : OutcomeOf(e, t) \in {"superseded", "unresolved", "applied"}
  BY DEF OutcomeOf
<1>4. \A t \in Targets : OutcomeOf(e, t) = "superseded" <=> ~IsNews(CategoryOf(r.kind), t, r.at)
  BY DEF OutcomeOf, EventOf
<1>5. status \in {"pending", "applied", "superseded", "unresolved", "failed"}
  BY DEF StatusOf
<1>6. \A t \in Targets : t \notin ToDo(r) => t \notin r.videos \/ r.out[t] \in {"applied", "superseded"}
  BY DEF ToDo
<1>7. \A t \in ToDo(r) : t \in r.videos /\ r.out[t] \notin {"applied", "superseded"}
  BY DEF ToDo
<1>8. \A t \in Targets : t \in News(r, clash) <=> t \in ToDo(r) /\ ~clash /\ IsNews(CategoryOf(r.kind), t, r.at)
  BY DEF News
<1>9. p = [r EXCEPT !.out = out, !.status = status]
  BY DEF Processed
<1> HIDE DEF p, out, e, status
<1>10. out \in [Targets -> Outcomes]
  <2>1. \A t \in Targets : out[t] \in Outcomes
    BY <1>1, <1>2, <1>3 DEF Outcomes
  <2> QED
    BY <1>2, <2>1
<1>11. /\ p \in Receipt /\ p.kind = r.kind /\ p.at = r.at /\ p.videos = r.videos /\ p.stuck = r.stuck
       /\ p.out = out
  BY <1>1, <1>5, <1>9, <1>10 DEF Receipt
<1>12. r.stuck => clash /\ \A t \in Targets : r.out[t] \in {"none", "pending"}
  BY DEF ReceiptOK
<1>13. p.stuck => \A t \in Targets : p.out[t] \in {"none", "pending"}
  BY <1>2, <1>11, <1>12
<1>14. ReceiptOK(p) /\ KeyOf(p) = KeyOf(r)
  BY <1>11, <1>13 DEF ReceiptOK, KeyOf
<1>15. ASSUME NEW t \in Targets, NEW c \in Categories
       PROVE  /\ Taken(r, c, t) => Taken(p, c, t)
              /\ t \in News(r, clash) /\ c \in Feeds(r.kind) => Taken(p, c, t)
              /\ Taken(p, c, t) =>
                   Taken(r, c, t) \/ (c \in Feeds(r.kind) /\ (t \in News(r, clash) \/ ~IsNews(CategoryOf(r.kind), t, r.at)))
  <2>1. /\ Taken(r, c, t) <=> t \in r.videos /\ c \in Feeds(r.kind) /\ r.out[t] \in {"applied", "superseded", "unresolved"}
        /\ Taken(p, c, t) <=> t \in r.videos /\ c \in Feeds(r.kind) /\ out[t] \in {"applied", "superseded", "unresolved"}
    BY <1>11 DEF Taken
  <2>2. CASE t \notin ToDo(r)
    <3>1. out[t] = r.out[t] /\ t \notin News(r, clash)
      BY <1>2, <1>8, <2>2
    <3> QED
      BY <2>1, <3>1
  <2>3. CASE t \in ToDo(r) /\ clash
    <3>1. ~Taken(r, c, t)
      <4>1. r.out[t] \in {"none", "pending"}
        BY <2>3
      <4> QED
        BY <2>1, <4>1
    <3>2. out[t] = "pending" /\ ~Taken(p, c, t) /\ t \notin News(r, clash)
      BY <1>2, <1>8, <2>1, <2>3
    <3> QED
      BY <3>1, <3>2
  <2>4. CASE t \in ToDo(r) /\ ~clash
    <3>1. out[t] = OutcomeOf(e, t) /\ (t \in News(r, clash) <=> IsNews(CategoryOf(r.kind), t, r.at)) /\ t \in r.videos
      BY <1>2, <1>7, <1>8, <2>4
    <3>2. out[t] \in {"applied", "superseded", "unresolved"}
      BY <1>3, <3>1
    <3> QED
      BY <2>1, <3>1, <3>2
  <2> QED
    BY <2>2, <2>3, <2>4
<1> QED
  BY <1>11, <1>14, <1>15 DEF p

\* A receipt is kept under its number: one received before, or a new one of which nothing was taken.
Keeps(n, r) ==
    /\ n \in ReceiptId /\ ReceiptOK(r)
    /\ \/ n \in Received /\ r = receipts[n]
       \/ /\ n \notin Received /\ \A t \in Targets : r.out[t] = "none"
          /\ \A m \in Received : KeyOf(receipts[m]) # KeyOf(r)

LEMMA TakenAre ==
  ASSUME NEW c, NEW t
  PROVE  TakenFor(c, t) = {m \in Received : Taken(receipts[m], c, t)}
BY DEF TakenFor, Taken

\* Putting receipt n back, or a new one, changes no other.
LEMMA KeepIs ==
  ASSUME ReceiptsOK, NEW n, NEW r, Keeps(n, r), NEW p, ReceiptOK(p), KeyOf(p) = KeyOf(r),
         receipts' = [receipts EXCEPT ![n] = p]
  PROVE  /\ receipts' \in [ReceiptId -> Receipt \cup {NoReceipt}] /\ Received' = Received \cup {n}
         /\ receipts'[n] = p /\ \A m \in Received \ {n} : receipts'[m] = receipts[m]
         /\ \A m \in Received' : m # n => m \in Received
         /\ NothingSwallowed => \A m, q \in Received' : KeyOf(receipts'[m]) = KeyOf(receipts'[q]) => m = q
         /\ \A m \in Received : KeyOf(receipts'[m]) = KeyOf(receipts[m])
<1>1. n \in ReceiptId /\ p \in Receipt
  BY DEF Keeps, ReceiptOK
<1>2. NoReceipt \notin Receipt
  <2>1. NoReceipt.status = "none"
    BY DEF NoReceipt
  <2>2. \A x \in Receipt : x.status # "none"
    BY DEF Receipt
  <2> QED
    BY <2>1, <2>2
<1>3. receipts \in [ReceiptId -> Receipt \cup {NoReceipt}] /\ Received \subseteq ReceiptId
  BY DEF ReceiptsOK, Received
<1>4. /\ receipts' \in [ReceiptId -> Receipt \cup {NoReceipt}]
      /\ receipts'[n] = p /\ \A m \in ReceiptId : m # n => receipts'[m] = receipts[m]
  BY <1>1, <1>3
<1>5. Received' = Received \cup {n}
  BY <1>1, <1>2, <1>4 DEF Received
<1>6. n \in Received => KeyOf(receipts[n]) = KeyOf(p)
  BY DEF Keeps
<1>7. n \notin Received => \A m \in Received : KeyOf(receipts[m]) # KeyOf(p)
  BY DEF Keeps
<1>8. \A m \in Received : KeyOf(receipts'[m]) = KeyOf(receipts[m])
  BY <1>3, <1>4, <1>6
<1>9. NothingSwallowed => \A m, q \in Received' : KeyOf(receipts'[m]) = KeyOf(receipts'[q]) => m = q
  <2>1. NothingSwallowed => \A m, q \in Received : KeyOf(receipts[m]) = KeyOf(receipts[q]) => m = q
    BY DEF NothingSwallowed
  <2> QED
    BY <1>4, <1>5, <1>7, <1>8, <2>1
<1> QED
  BY <1>3, <1>4, <1>5, <1>8, <1>9

\* What is taken and where it is told, after a receipt is processed.
LEMMA TakenStep ==
  ASSUME ReceiptsOK, EntriesOK, TakenNotNewer, EntriesStem, NEW n, NEW r, Keeps(n, r), NEW clash \in BOOLEAN,
         r.stuck => clash, clash => \A t \in Targets : r.out[t] \in {"none", "pending"},
         ProcessReceipt(n, r, clash), counted'.edits = counted.edits
  PROVE  TakenNotNewer' /\ EntriesStem'
<1> DEFINE p == Processed(n, r, clash)
           e == EventOf(n, r)
           ts == News(r, clash)
           E == EntriesAfter(e, ts)
<1>1. n \in ReceiptId /\ ReceiptOK(r)
  BY DEF Keeps
<1>2. ReceiptOK(p) /\ KeyOf(p) = KeyOf(r) /\ p.kind = r.kind /\ p.at = r.at
  BY <1>1, ProcessedIs
<1>3. receipts' = [receipts EXCEPT ![n] = p] /\ entries' = E
  BY DEF ProcessReceipt, Apply
<1>4. /\ Received' = Received \cup {n} /\ receipts'[n] = p
      /\ \A m \in Received \ {n} : receipts'[m] = receipts[m]
  <2> HIDE DEF p, e, ts, E
  <2> QED
    BY <1>2, <1>3, KeepIs
<1>5. EventOK(e, ts) /\ e.kind = r.kind /\ e.at = r.at /\ r.kind \in Kind
  BY <1>1, EventIsOK DEF EventOf, EventOK
<1> SUFFICES ASSUME NEW c \in Categories, NEW t \in Targets
             PROVE  /\ \A m \in TakenFor(c, t)' : receipts'[m].at <= E[c][t].at
                    /\ counted.edits = 0 /\ c # "drop" =>
                         \/ TakenFor(c, t)' = {} /\ E[c][t] = NoStateEntry
                         \/ \E m \in TakenFor(c, t)' : receipts'[m].at = E[c][t].at /\ receipts'[m].kind = E[c][t].kind
  BY <1>3 DEF TakenNotNewer, EntriesStem
<1> DEFINE x == entries[c][t]
           y == E[c][t]
           cat == CategoryOf(r.kind)
           wr == t \in ts /\ c \in Feeds(r.kind) /\ IsNews(c, t, r.at)
           late == c \in Feeds(r.kind) /\ ~IsNews(cat, t, r.at)
<1>6. TakenFor(c, t) = {m \in Received : Taken(receipts[m], c, t)}
  BY TakenAre
<1>7. TakenFor(c, t)' = {m \in Received' : Taken(receipts'[m], c, t)}
  BY DEF TakenFor, Taken
<1>8. /\ x.at \in Nat /\ y.at \in Nat /\ x.at <= y.at /\ r.at \in Nat \ {0}
      /\ t \in ts /\ c \in Feeds(r.kind) => r.at <= y.at
      /\ wr => y.at = r.at /\ y.kind = r.kind
      /\ c # "drop" /\ ~wr => y = x
  <2>1. r.at \in Nat \ {0}
    BY <1>5, ReceiptsAssumption DEF EventOK
  <2>2. wr <=> Written(e, ts, c, t)
    BY <1>5 DEF Written
  <2>3. c # "drop" => ~Undrops(e, ts, c, t)
    BY DEF Undrops
  <2> HIDE DEF wr, e, ts
  <2> QED
    BY <1>5, <2>1, <2>2, <2>3, AfterIs, EntryIs
\* A video that came too late is told no older than it is.
<1>9. late => r.at < x.at
  <2>1. cat \in Categories /\ entries[cat][t].at \in Nat /\ (c \in Feeds(r.kind) => c = cat \/ (cat = "watched" /\ c = "playback"))
    BY <1>5, KindsAre, EntryIs
  <2>2. late => r.at < entries[cat][t].at
    BY <1>8, <2>1 DEF IsNews
  <2>3. entries["watched"][t].at <= entries["playback"][t].at
    BY DEF EntriesOK
  <2> HIDE DEF cat, late
  <2>4. CASE c = cat
    BY <2>2, <2>4
  <2>5. CASE cat = "watched" /\ c = "playback"
    BY <1>8, <2>1, <2>2, <2>3, <2>5
  <2> QED
    BY <2>1, <2>4, <2>5 DEF late
<1>10. /\ Taken(r, c, t) => Taken(p, c, t)
       /\ t \in ts /\ c \in Feeds(r.kind) => Taken(p, c, t)
       /\ Taken(p, c, t) => Taken(r, c, t) \/ (t \in ts /\ c \in Feeds(r.kind)) \/ late
  BY <1>1, ProcessedIs
<1>11. Taken(r, c, t) => n \in TakenFor(c, t) /\ r = receipts[n]
  BY <1>6 DEF Keeps, Taken
<1>12. /\ TakenFor(c, t) \subseteq TakenFor(c, t)' /\ TakenFor(c, t)' \subseteq TakenFor(c, t) \cup {n}
       /\ n \in TakenFor(c, t)' <=> Taken(p, c, t)
  <2>1. n \in TakenFor(c, t) => Taken(p, c, t)
    BY <1>6, <1>10 DEF Keeps
  <2> QED
    BY <1>4, <1>6, <1>7, <2>1
<1>13. \A m \in TakenFor(c, t) : receipts'[m].at = receipts[m].at /\ receipts'[m].kind = receipts[m].kind /\ receipts[m].at \in Nat
  <2>1. \A m \in Received : receipts[m].at \in Nat
    BY ReceiptsAssumption DEF ReceiptsOK, ReceiptOK, Receipt
  <2>2. n \in Received => r = receipts[n]
    BY DEF Keeps
  <2> QED
    BY <1>2, <1>4, <1>6, <2>1, <2>2
<1>14. \A m \in TakenFor(c, t) : receipts[m].at <= x.at
  BY DEF TakenNotNewer
<1>15. counted.edits = 0 /\ c # "drop" =>
         \/ TakenFor(c, t) = {} /\ x = NoStateEntry
         \/ \E m \in TakenFor(c, t) : receipts[m].at = x.at /\ receipts[m].kind = x.kind
  BY DEF EntriesStem
<1>16. receipts'[n].at = r.at /\ receipts'[n].kind = r.kind
  BY <1>2, <1>4
<1> HIDE DEF x, y, cat, wr, late, p, e, ts, E
<1>17. ASSUME NEW m \in TakenFor(c, t)'
       PROVE  receipts'[m].at <= y.at
  <2>1. CASE m \in TakenFor(c, t)
    BY <1>8, <1>13, <1>14, <2>1
  <2>2. CASE m = n /\ Taken(r, c, t)
    BY <1>11, <1>8, <1>13, <1>14, <2>2
  <2>3. CASE m = n /\ ~Taken(r, c, t)
    <3>1. receipts'[m].at = r.at /\ ((t \in ts /\ c \in Feeds(r.kind)) \/ late)
      BY <1>10, <1>12, <1>16, <2>3
    <3>2. r.at <= y.at
      BY <1>8, <1>9, <3>1
    <3> QED
      BY <3>1, <3>2
  <2> QED
    BY <1>12, <2>1, <2>2, <2>3
<1>18. ASSUME counted.edits = 0, c # "drop"
       PROVE  \/ TakenFor(c, t)' = {} /\ y = NoStateEntry
              \/ \E m \in TakenFor(c, t)' : receipts'[m].at = y.at /\ receipts'[m].kind = y.kind
  <2>1. CASE wr
    BY <1>8, <1>10, <1>12, <1>16, <2>1 DEF wr
  <2>2. CASE ~wr /\ TakenFor(c, t) # {}
    <3>1. y = x
      BY <1>8, <1>18, <2>2
    <3>2. PICK m \in TakenFor(c, t) : receipts[m].at = x.at /\ receipts[m].kind = x.kind
      BY <1>15, <1>18, <2>2
    <3> QED
      BY <1>12, <1>13, <3>1, <3>2
  <2>3. CASE ~wr /\ TakenFor(c, t) = {}
    <3>1. x = NoStateEntry /\ x.at = 0 /\ y = x
      <4>1. x = NoStateEntry /\ y = x
        BY <1>8, <1>15, <1>18, <2>3
      <4>2. NoStateEntry.at = 0
        BY DEF NoStateEntry
      <4> QED
        BY <4>1, <4>2
    <3>2. ~late
      BY <1>8, <1>9, <3>1
    <3>3. ~(t \in ts /\ c \in Feeds(r.kind))
      <4>1. x.at <= r.at
        BY <1>8, <3>1
      <4>2. IsNews(c, t, r.at)
        BY <4>1 DEF IsNews, x
      <4> QED
        BY <2>3, <4>2 DEF wr
    <3>4. n \notin TakenFor(c, t)'
      BY <1>10, <1>11, <1>12, <2>3, <3>2, <3>3
    <3> QED
      BY <1>12, <2>3, <3>1, <3>4
  <2> QED
    BY <2>1, <2>2, <2>3
<1> QED
  BY <1>17, <1>18 DEF y

\* A receipt of which nothing more is taken.
LEMMA UntakenStep ==
  ASSUME ReceiptsOK, TakenNotNewer, NEW n, NEW r, Keeps(n, r), NEW p, ReceiptOK(p), KeyOf(p) = KeyOf(r), p.out = r.out,
         receipts' = [receipts EXCEPT ![n] = p], entries' = entries
  PROVE  TakenNotNewer' /\ (EntriesStem /\ counted' = counted => EntriesStem')
<1>1. p.kind = r.kind /\ p.at = r.at /\ p.videos = r.videos
  BY DEF KeyOf
<1>2. /\ Received' = Received \cup {n} /\ receipts'[n] = p
      /\ \A m \in Received \ {n} : receipts'[m] = receipts[m]
  BY KeepIs
<1>3. \A m \in Received : receipts'[m].at = receipts[m].at /\ receipts'[m].kind = receipts[m].kind
  BY <1>1, <1>2 DEF Keeps
<1>4. ASSUME NEW c \in Categories, NEW t \in Targets
      PROVE  TakenFor(c, t)' = TakenFor(c, t)
  <2>1. TakenFor(c, t) = {m \in Received : Taken(receipts[m], c, t)}
    BY TakenAre
  <2>2. TakenFor(c, t)' = {m \in Received' : Taken(receipts'[m], c, t)}
    BY DEF TakenFor, Taken
  <2>3. Taken(p, c, t) <=> Taken(r, c, t)
    BY <1>1 DEF Taken
  <2>4. n \notin Received => ~Taken(r, c, t)
    BY DEF Keeps, Taken
  <2>5. n \in Received => r = receipts[n]
    BY DEF Keeps
  <2> QED
    BY <1>2, <2>1, <2>2, <2>3, <2>4, <2>5
<1>5. \A c \in Categories, t \in Targets : TakenFor(c, t) \subseteq Received
  BY DEF TakenFor
<1>6. TakenNotNewer'
  BY <1>3, <1>4, <1>5 DEF TakenNotNewer
<1>7. ASSUME EntriesStem, counted' = counted
      PROVE  EntriesStem'
  <2> SUFFICES ASSUME counted.edits = 0, NEW c \in Categories \ {"drop"}, NEW t \in Targets
               PROVE  \/ TakenFor(c, t)' = {} /\ entries[c][t] = NoStateEntry
                      \/ \E m \in TakenFor(c, t)' : receipts'[m].at = entries[c][t].at /\ receipts'[m].kind = entries[c][t].kind
    BY <1>7 DEF EntriesStem
  <2>1. \/ TakenFor(c, t) = {} /\ entries[c][t] = NoStateEntry
        \/ \E m \in TakenFor(c, t) : receipts[m].at = entries[c][t].at /\ receipts[m].kind = entries[c][t].kind
    BY <1>7 DEF EntriesStem
  <2> QED
    BY <1>3, <1>4, <1>5, <2>1
<1> QED
  BY <1>6, <1>7

\* No receipt is put in or changed, and the entries grow no older.
LEMMA TakenStay ==
  ASSUME ReceiptsOK, EntriesOK, EntriesOK', TakenNotNewer, receipts' = receipts,
         \A c \in Categories, t \in Targets : entries[c][t].at <= entries'[c][t].at
  PROVE  TakenNotNewer'
<1> SUFFICES ASSUME NEW c \in Categories, NEW t \in Targets, NEW n \in TakenFor(c, t)'
             PROVE  receipts[n].at <= entries'[c][t].at
  BY DEF TakenNotNewer
<1>1. n \in TakenFor(c, t)
  BY DEF TakenFor, Received
<1>2. receipts[n].at \in Nat
  BY <1>1, ReceiptsAssumption DEF TakenFor, ReceiptsOK, ReceiptOK, Receipt
<1>3. entries[c][t].at \in Nat /\ entries'[c][t].at \in Nat
  <2>1. entries'[c][t] \in StateEntry
    BY DEF EntriesOK
  <2>2. \A x \in StateEntry : x.at \in Nat
    <3>1. \A x \in Entry : x.at \in Nat
      BY ReceiptsAssumption DEF Entry, Time
    <3>2. NoStateEntry.at = 0
      BY DEF NoStateEntry
    <3> QED
      BY <3>1, <3>2 DEF StateEntry
  <2> QED
    BY EntryIs, <2>1, <2>2
<1>4. receipts[n].at <= entries[c][t].at /\ entries[c][t].at <= entries'[c][t].at
  BY <1>1 DEF TakenNotNewer
<1> HIDE DEF TakenFor
<1> QED
  BY <1>2, <1>3, <1>4

\* What a push or a drain does to one receipt.
LEMMA ProcessStep ==
  ASSUME PushInv, NEW n, NEW r, Keeps(n, r), NEW clash \in BOOLEAN,
         r.stuck => clash, clash => \A t \in Targets : r.out[t] \in {"none", "pending"},
         ProcessReceipt(n, r, clash), counted'.edits = counted.edits, time' = time
  PROVE  /\ EntriesOK' /\ HistoryOK' /\ ItemOK' /\ TakenNotNewer' /\ EntriesStem'
         /\ OneWatchPerTime' /\ ClearIsObeyed' /\ OthersKeepTheShow'
         /\ receipts' = [receipts EXCEPT ![n] = Processed(n, r, clash)]
         /\ ReceiptOK(Processed(n, r, clash)) /\ KeyOf(Processed(n, r, clash)) = KeyOf(r)
<1> DEFINE e == EventOf(n, r)
           ts == News(r, clash)
<1>1. n \in ReceiptId /\ ReceiptOK(r)
  BY DEF Keeps
<1>2. EventOK(e, ts)
  BY <1>1, EventIsOK
<1>3. /\ entries' = EntriesAfter(e, ts) /\ watches' = WatchesAfter(e, ts)
      /\ item' = ItemAfter(e, ts) /\ erased' = ErasedAfter(e, ts)
      /\ receipts' = [receipts EXCEPT ![n] = Processed(n, r, clash)]
  BY DEF ProcessReceipt, Apply
<1>4. /\ ReceiptsOK /\ EntriesOK /\ HistoryOK /\ ItemOK /\ TakenNotNewer /\ EntriesStem
      /\ OneWatchPerTime /\ ClearIsObeyed /\ OthersKeepTheShow
  BY DEF PushInv
<1>5. TakenNotNewer' /\ EntriesStem'
  BY <1>4, TakenStep
<1> HIDE DEF e, ts
<1>6. EntriesOK'
  BY <1>2, <1>3, <1>4, EntriesStep
<1>7. HistoryOK' /\ OneWatchPerTime'
  BY <1>2, <1>3, <1>4, WatchesStep
<1>8. ClearIsObeyed'
  BY <1>2, <1>3, <1>4, ClearStep
<1>9. ItemOK' /\ OthersKeepTheShow'
  BY <1>2, <1>3, <1>4, ItemStep
<1>10. ReceiptOK(Processed(n, r, clash)) /\ KeyOf(Processed(n, r, clash)) = KeyOf(r)
  BY <1>1, ProcessedIs
<1> QED
  BY <1>3, <1>5, <1>6, <1>7, <1>8, <1>9, <1>10

LEMMA ReceivedAreFinite == IsFiniteSet(Received) /\ Cardinality(Received) \in Nat
<1>1. Received \subseteq 1 .. MaxReceipts
  BY DEF Received, ReceiptId
<1>2. IsFiniteSet(1 .. MaxReceipts)
  BY FS_Interval, ReceiptsAssumption
<1>3. IsFiniteSet(Received)
  BY <1>1, <1>2, FS_Subset
<1> QED
  BY <1>3, FS_CardinalityType

\* The receipts after one of them is put back, or a new one.
LEMMA ReceiptsStep ==
  ASSUME ReceiptsOK, NothingSwallowed, NEW n, NEW r, Keeps(n, r), NEW p, ReceiptOK(p), KeyOf(p) = KeyOf(r),
         receipts' = [receipts EXCEPT ![n] = p], time' = time, n \in Received \/ n = Cardinality(Received) + 1,
         batch' \subseteq batch, posted' = posted \/ posted' = posted \cup {KeyOf(r)}
  PROVE  ReceiptsOK' /\ NothingSwallowed'
<1>1. /\ receipts' \in [ReceiptId -> Receipt \cup {NoReceipt}] /\ Received' = Received \cup {n}
      /\ receipts'[n] = p /\ \A m \in Received \ {n} : receipts'[m] = receipts[m]
      /\ \A m, q \in Received' : KeyOf(receipts'[m]) = KeyOf(receipts'[q]) => m = q
      /\ \A m \in Received : KeyOf(receipts'[m]) = KeyOf(receipts[m])
  BY KeepIs
<1>2. \A m \in Received' : ReceiptOK(receipts'[m])
  BY <1>1 DEF ReceiptsOK
<1>3. \A m \in Received' : ReceiptOK(receipts[m])'
  BY <1>2 DEF ReceiptOK
<1>4. Received' = 1 .. Cardinality(Received')
  <2>1. Received = 1 .. Cardinality(Received)
    BY DEF ReceiptsOK
  <2>2. CASE n \in Received
    <3>1. Received' = Received
      BY <1>1, <2>2
    <3> QED
      BY <2>1, <3>1, Zenon
  <2>3. CASE n = Cardinality(Received) + 1
    <3>1. Cardinality(Received) \in Nat
      BY ReceivedAreFinite
    <3> DEFINE size == Cardinality(Received)
    <3>2. Received' = 1 .. (size + 1)
      <4>1. Received = 1 .. size /\ size \in Nat /\ n = size + 1
        BY <2>1, <2>3, <3>1
      <4> HIDE DEF size
      <4> QED
        BY <1>1, <4>1
    <3> HIDE DEF size
    <3>3. Cardinality(1 .. (size + 1)) = size + 1
      BY <3>1, FS_Interval DEF size
    <3> QED
      BY <3>2, <3>3
  <2> QED
    BY <2>2, <2>3
<1>5. batch' \subseteq Received'
  BY <1>1 DEF ReceiptsOK
<1>6. ReceiptsOK'
  BY <1>1, <1>3, <1>4, <1>5 DEF ReceiptsOK
<1>7. \A a \in posted' : \E m \in Received' : KeyOf(receipts'[m]) = a
  <2>1. \A a \in posted : \E m \in Received : KeyOf(receipts[m]) = a
    BY DEF NothingSwallowed
  <2> QED
    BY <1>1, <2>1
<1>8. NothingSwallowed'
  BY <1>1, <1>7 DEF NothingSwallowed, KeyOf
<1> QED
  BY <1>6, <1>8

\* The next number is free.
LEMMA NextIsFree ==
  ASSUME ReceiptsOK
  PROVE  Cardinality(Received) + 1 \notin Received
<1>1. Cardinality(Received) \in Nat
  BY ReceivedAreFinite
<1>2. Received = 1 .. Cardinality(Received)
  BY DEF ReceiptsOK
<1> DEFINE size == Cardinality(Received)
<1> HIDE DEF size
<1>3. size + 1 \notin 1 .. size
  BY <1>1 DEF size
<1> QED
  BY <1>2, <1>3 DEF size

LEMMA ClearKeeps ==
  ASSUME ClearIsObeyed, entries' = entries, watches' = watches, erased' = erased
  PROVE  ClearIsObeyed'
BY DEF ClearIsObeyed

LEMMA PushStep ==
  ASSUME PushInv, NEW kind \in Kinds, NEW at \in 1 .. MaxTime, NEW ts \in SUBSET Targets, NEW stuck \in BOOLEAN,
         NEW clash \in BOOLEAN, Valid(kind, ts), Push([kind |-> kind, at |-> at, videos |-> ts], stuck, clash)
  PROVE  PushInv'
<1> DEFINE e == [kind |-> kind, at |-> at, videos |-> ts]
           n == Cardinality(Received) + 1
           r == [kind |-> e.kind, at |-> e.at, videos |-> e.videos, stuck |-> stuck, status |-> "pending",
                 out |-> [x \in Targets |-> "none"], maps |-> [x \in Absolute |-> NoEpisode]]
           bulk == Cardinality(e.videos) > 1
           processed == ProcessReceipt(n, r, stuck \/ clash)
<1>1. /\ at <= time /\ posted' = posted \cup {e} /\ UNCHANGED <<time, allowed, batch>>
      /\ \/ IsRepeat(e) /\ UNCHANGED <<receipts, entries, watches, item, erased, counted>>
         \/ /\ ~IsRepeat(e) /\ n \in ReceiptId
            /\ counted' = [counted EXCEPT !.clashes = IF stuck \/ clash THEN @ + 1 ELSE @]
            /\ \/ bulk /\ receipts' = [receipts EXCEPT ![n] = r] /\ UNCHANGED <<entries, watches, item, erased>>
               \/ processed
  <2>1. /\ e.at <= time /\ posted' = posted \cup {e} /\ UNCHANGED <<time, allowed, batch>>
        /\ IsRepeat(e) => UNCHANGED <<receipts, entries, watches, item, erased, counted>>
        /\ ~IsRepeat(e) =>
              /\ n \in ReceiptId
              /\ counted' = [counted EXCEPT !.clashes = IF stuck \/ clash THEN @ + 1 ELSE @]
              /\ IF bulk
                 THEN receipts' = [receipts EXCEPT ![n] = r] /\ UNCHANGED <<entries, watches, item, erased>>
                 ELSE processed
    BY Zenon DEF Push
  <2>2. e.at = at
    OBVIOUS
  <2> HIDE DEF e, r, n, bulk, processed
  <2> QED
    BY <2>1, <2>2
<1>2. /\ ReceiptsOK /\ CountsOK /\ EntriesOK /\ HistoryOK /\ ItemOK /\ TakenNotNewer /\ EntriesStem
      /\ NothingSwallowed /\ OneWatchPerTime /\ ClearIsObeyed /\ OthersKeepTheShow
  BY DEF PushInv
<1>3. e \in PushEvent
  BY <1>2, ReceiptsAssumption DEF PushEvent, Time, CountsOK
<1>4. FitsKind(kind, ts)
  <2>1. CASE kind \in Drops \cup Lists
    BY <2>1 DEF FitsKind, Valid, Drops, Lists, Marks, Playback, Ratings
  <2>2. CASE kind \in Marks \cup Playback
    BY <2>2 DEF FitsKind, Valid, Drops, Lists, Marks, Playback, Ratings
  <2> QED
    BY <2>1, <2>2 DEF FitsKind
<1>5. /\ ReceiptOK(r) /\ r.out = [x \in Targets |-> "none"] /\ r.stuck = stuck /\ KeyOf(r) = e
      /\ \A x \in Targets : r.out[x] = "none"
  <2>1. r \in Receipt
    BY DEF Receipt, Outcomes
  <2> QED
    BY <1>1, <1>4, <2>1 DEF ReceiptOK, KeyOf
<1>6. CASE IsRepeat(e) /\ UNCHANGED <<receipts, entries, watches, item, erased, counted>>
  <2>1. ReceiptsOK' /\ CountsOK' /\ EntriesOK' /\ HistoryOK' /\ ItemOK' /\ TakenNotNewer' /\ EntriesStem'
    <3>1. CountsOK'
      BY <1>1, <1>2, <1>3, <1>6 DEF CountsOK
    <3>2. ReceiptsOK'
      BY <1>1, <1>2, <1>6 DEF ReceiptsOK, ReceiptOK, Received
    <3>3. EntriesOK' /\ HistoryOK' /\ ItemOK'
      BY <1>1, <1>2, <1>6 DEF EntriesOK, HistoryOK, ItemOK
    <3>4. TakenNotNewer' /\ EntriesStem'
      BY <1>1, <1>2, <1>6 DEF TakenNotNewer, EntriesStem, TakenFor, Received
    <3> QED
      BY <3>1, <3>2, <3>3, <3>4
  <2>2. NothingSwallowed'
    BY <1>1, <1>2, <1>6 DEF NothingSwallowed, IsRepeat, Received, KeyOf
  <2>3. OneWatchPerTime' /\ OthersKeepTheShow'
    BY <1>1, <1>2, <1>6 DEF OneWatchPerTime, OthersKeepTheShow
  <2>4. ClearIsObeyed'
    BY <1>2, <1>6, ClearKeeps
  <2> QED
    BY <2>1, <2>2, <2>3, <2>4 DEF PushInv
<1>7. ASSUME ~IsRepeat(e), n \in ReceiptId,
             counted' = [counted EXCEPT !.clashes = IF stuck \/ clash THEN @ + 1 ELSE @],
             \/ bulk /\ receipts' = [receipts EXCEPT ![n] = r] /\ UNCHANGED <<entries, watches, item, erased>>
             \/ processed
      PROVE  PushInv'
  <2>1. counted' \in [edits : Nat, clashes : Nat] /\ counted'.edits = counted.edits
    BY <1>2, <1>7 DEF CountsOK
  <2>2. CountsOK'
    BY <1>1, <1>2, <1>3, <2>1 DEF CountsOK
  <2>3. Keeps(n, r)
    <3>1. n \notin Received
      BY <1>2, NextIsFree
    <3>2. \A m \in Received : KeyOf(receipts[m]) # KeyOf(r)
      BY <1>5, <1>7 DEF IsRepeat
    <3> HIDE DEF n, r
    <3> QED
      BY <1>5, <1>7, <3>1, <3>2 DEF Keeps
  <2>4. posted' = posted \cup {KeyOf(r)} /\ batch' = batch /\ time' = time
    BY <1>1, <1>5
  <2>5. CASE bulk /\ receipts' = [receipts EXCEPT ![n] = r] /\ UNCHANGED <<entries, watches, item, erased>>
    <3> DEFINE num == n
    <3>1. num = Cardinality(Received) + 1 /\ Keeps(num, r) /\ receipts' = [receipts EXCEPT ![num] = r]
      BY <2>3, <2>5
    <3>2. /\ entries' = entries /\ watches' = watches /\ item' = item /\ erased' = erased
      BY <2>5
    <3> HIDE DEF n, r, e, bulk, processed, num
    <3>3. ReceiptsOK' /\ NothingSwallowed'
      BY <1>2, <1>5, <2>4, <3>1, ReceiptsStep
    <3>4. TakenNotNewer'
      BY <1>2, <1>5, <3>1, <3>2, UntakenStep
    <3>5. EntriesStem'
      <4> SUFFICES ASSUME NEW c \in Categories, NEW t \in Targets
                   PROVE  TakenFor(c, t)' = TakenFor(c, t) /\ \A m \in TakenFor(c, t) : receipts'[m] = receipts[m]
        <5> SUFFICES ASSUME counted.edits = 0, NEW c \in Categories \ {"drop"}, NEW t \in Targets
                     PROVE  \/ TakenFor(c, t)' = {} /\ entries[c][t] = NoStateEntry
                            \/ \E m \in TakenFor(c, t)' : receipts'[m].at = entries[c][t].at /\ receipts'[m].kind = entries[c][t].kind
          BY <2>1, <3>2 DEF EntriesStem
        <5>1. \/ TakenFor(c, t) = {} /\ entries[c][t] = NoStateEntry
              \/ \E m \in TakenFor(c, t) : receipts[m].at = entries[c][t].at /\ receipts[m].kind = entries[c][t].kind
          BY <1>2 DEF EntriesStem
        <5> QED
          BY <5>1
      <4>1. /\ Received' = Received \cup {num} /\ receipts'[num] = r
            /\ \A m \in Received \ {num} : receipts'[m] = receipts[m]
        <5>1. PICK q : q = r
          OBVIOUS
        <5>2. ReceiptsOK /\ Keeps(num, r) /\ ReceiptOK(q) /\ KeyOf(q) = KeyOf(r) /\ receipts' = [receipts EXCEPT ![num] = q]
          BY <1>2, <1>5, <3>1, <5>1
        <5>3. /\ Received' = Received \cup {num} /\ receipts'[num] = q
              /\ \A m \in Received \ {num} : receipts'[m] = receipts[m]
          BY <5>2, KeepIs
        <5> QED
          BY <5>1, <5>3
      <4>2. TakenFor(c, t) = {m \in Received : Taken(receipts[m], c, t)}
        BY TakenAre
      <4>3. TakenFor(c, t)' = {m \in Received' : Taken(receipts'[m], c, t)}
        BY DEF TakenFor, Taken
      <4>4. num \notin Received
        BY <1>2, <3>1, NextIsFree
      <4>5. ~Taken(r, c, t)
        BY <1>5 DEF Taken
      <4> QED
        BY <4>1, <4>2, <4>3, <4>4, <4>5
    <3>6. EntriesOK' /\ HistoryOK' /\ ItemOK'
      BY <1>2, <2>4, <3>2 DEF EntriesOK, HistoryOK, ItemOK
    <3>7. OneWatchPerTime' /\ OthersKeepTheShow'
      BY <1>2, <3>2 DEF OneWatchPerTime, OthersKeepTheShow
    <3>8. ClearIsObeyed'
      BY <1>2, <3>2, ClearKeeps
    <3> QED
      BY <2>2, <3>3, <3>4, <3>5, <3>6, <3>7, <3>8 DEF PushInv
  <2>6. CASE processed
    <3> DEFINE num == n
               both == stuck \/ clash
    <3>1. num = Cardinality(Received) + 1 /\ Keeps(num, r) /\ ProcessReceipt(num, r, both) /\ both \in BOOLEAN
      BY <2>3, <2>6
    <3>2. (r.stuck => both) /\ \A t \in Targets : r.out[t] \in {"none", "pending"}
      BY <1>5
    <3> HIDE DEF n, r, e, bulk, processed, num, both
    <3>3. /\ EntriesOK' /\ HistoryOK' /\ ItemOK' /\ TakenNotNewer' /\ EntriesStem'
          /\ OneWatchPerTime' /\ ClearIsObeyed' /\ OthersKeepTheShow'
          /\ receipts' = [receipts EXCEPT ![num] = Processed(num, r, both)]
          /\ ReceiptOK(Processed(num, r, both)) /\ KeyOf(Processed(num, r, both)) = KeyOf(r)
      BY <2>1, <2>4, <3>1, <3>2, ProcessStep
    <3>4. ReceiptsOK' /\ NothingSwallowed'
      BY <1>2, <2>4, <3>1, <3>3, ReceiptsStep
    <3> QED
      BY <2>2, <3>3, <3>4 DEF PushInv
  <2> QED
    BY <1>7, <2>5, <2>6
<1> HIDE DEF e, r, n, bulk, processed
<1> QED
  BY <1>1, <1>6, <1>7

LEMMA PushInvAre ==
  ASSUME PushInv
  PROVE  /\ ReceiptsOK /\ CountsOK /\ EntriesOK /\ HistoryOK /\ ItemOK /\ TakenNotNewer /\ EntriesStem
         /\ NothingSwallowed /\ OneWatchPerTime /\ ClearIsObeyed /\ OthersKeepTheShow
BY DEF PushInv

\* What a receipt that is received keeps.
LEMMA ReceivedIs ==
  ASSUME ReceiptsOK, NEW n \in Received
  PROVE  Keeps(n, receipts[n]) /\ ReceiptOK(receipts[n]) /\ receipts[n] \in Receipt /\ n \in ReceiptId
<1>1. n \in ReceiptId /\ ReceiptOK(receipts[n])
  BY DEF ReceiptsOK, Received
<1>2. Keeps(n, receipts[n])
  BY <1>1 DEF Keeps
<1> QED
  BY <1>1, <1>2 DEF ReceiptOK

\* A receipt is put back with nothing taken, and everything else stays.
LEMMA PutBackStep ==
  ASSUME PushInv, NEW n \in Received, NEW p, ReceiptOK(p), KeyOf(p) = KeyOf(receipts[n]), p.out = receipts[n].out,
         receipts' = [receipts EXCEPT ![n] = p], time' = time, batch' \subseteq batch, allowed' = allowed,
         UNCHANGED <<entries, watches, item, posted, erased>>, counted' \in [edits : Nat, clashes : Nat],
         counted' = counted \/ counted'.edits # 0
  PROVE  PushInv'
<1>1. Keeps(n, receipts[n])
  BY PushInvAre, ReceivedIs
<1>2. entries' = entries /\ watches' = watches /\ item' = item /\ posted' = posted /\ erased' = erased
  OBVIOUS
<1>3. ReceiptsOK' /\ NothingSwallowed'
  BY <1>1, <1>2, PushInvAre, ReceiptsStep
<1>4. TakenNotNewer' /\ (EntriesStem /\ counted' = counted => EntriesStem')
  BY <1>1, <1>2, PushInvAre, UntakenStep
<1>5. counted'.edits # 0 => EntriesStem'
  BY DEF EntriesStem
<1>6. EntriesStem'
  BY <1>4, <1>5, PushInvAre
<1>7. CountsOK'
  BY <1>2, PushInvAre DEF CountsOK
<1>8. EntriesOK' /\ HistoryOK' /\ ItemOK'
  BY <1>2, PushInvAre DEF EntriesOK, HistoryOK, ItemOK
<1>9. OneWatchPerTime' /\ OthersKeepTheShow'
  BY <1>2, PushInvAre DEF OneWatchPerTime, OthersKeepTheShow
<1>10. ClearIsObeyed'
  BY <1>2, PushInvAre, ClearKeeps
<1> QED
  BY <1>3, <1>4, <1>6, <1>7, <1>8, <1>9, <1>10 DEF PushInv

LEMMA DrainStep ==
  ASSUME PushInv, NEW held, Drain(held)
  PROVE  PushInv'
<1>1. /\ UNCHANGED <<time, allowed, receipts, entries, watches, item, posted, erased, counted>>
      /\ batch' \subseteq Received
  BY DEF Drain, Oldest, ToProcess
<1>2. ReceiptsOK' /\ CountsOK' /\ EntriesOK' /\ HistoryOK' /\ ItemOK'
  BY <1>1, PushInvAre DEF ReceiptsOK, ReceiptOK, Received, CountsOK, EntriesOK, HistoryOK, ItemOK
<1>3. TakenNotNewer' /\ EntriesStem'
  BY <1>1, PushInvAre DEF TakenNotNewer, EntriesStem, TakenFor, Received
<1>4. NothingSwallowed'
  BY <1>1, PushInvAre DEF NothingSwallowed, Received, KeyOf
<1>5. OneWatchPerTime' /\ OthersKeepTheShow'
  BY <1>1, PushInvAre DEF OneWatchPerTime, OthersKeepTheShow
<1>6. ClearIsObeyed'
  BY <1>1, PushInvAre, ClearKeeps
<1> QED
  BY <1>2, <1>3, <1>4, <1>5, <1>6 DEF PushInv

LEMMA DrainNextStep ==
  ASSUME PushInv, DrainNext
  PROVE  PushInv'
<1>1. PICK n \in batch :
        /\ batch' = batch \ {n}
        /\ IF allowed THEN ProcessReceipt(n, receipts[n], receipts[n].stuck)
           ELSE /\ receipts' = [receipts EXCEPT ![n].status = "failed"]
                /\ UNCHANGED <<entries, watches, item, erased>>
  BY DEF DrainNext
<1>2. UNCHANGED <<time, allowed, posted, counted>>
  BY DEF DrainNext
<1>3. n \in Received
  BY PushInvAre DEF ReceiptsOK
<1> DEFINE r == receipts[n]
<1>4. Keeps(n, r) /\ ReceiptOK(r) /\ r \in Receipt /\ r.stuck \in BOOLEAN /\ n \in ReceiptId
  BY <1>3, PushInvAre, ReceivedIs DEF Receipt
<1>5. CASE allowed
  <2>1. r.stuck => \A t \in Targets : r.out[t] \in {"none", "pending"}
    BY <1>4 DEF ReceiptOK
  <2>2. ProcessReceipt(n, r, r.stuck) /\ counted'.edits = counted.edits /\ time' = time
    BY <1>1, <1>2, <1>5
  <2> DEFINE p == Processed(n, r, r.stuck)
  <2>3. /\ EntriesOK' /\ HistoryOK' /\ ItemOK' /\ TakenNotNewer' /\ EntriesStem'
        /\ OneWatchPerTime' /\ ClearIsObeyed' /\ OthersKeepTheShow'
        /\ receipts' = [receipts EXCEPT ![n] = p]
        /\ ReceiptOK(p) /\ KeyOf(p) = KeyOf(r)
    <3> HIDE DEF r
    <3> QED
      BY <1>4, <2>1, <2>2, ProcessStep
  <2> HIDE DEF r, p
  <2>4. ReceiptsOK' /\ NothingSwallowed'
    BY <1>1, <1>2, <1>3, <1>4, <2>3, PushInvAre, ReceiptsStep
  <2>5. CountsOK'
    BY <1>2, PushInvAre DEF CountsOK
  <2> QED
    BY <2>3, <2>4, <2>5 DEF PushInv
<1>6. CASE ~allowed
  <2> DEFINE p == [r EXCEPT !.status = "failed"]
  <2>1. receipts' = [receipts EXCEPT ![n] = p] /\ UNCHANGED <<entries, watches, item, erased>>
    BY <1>1, <1>6
  <2>2. p \in Receipt /\ p.kind = r.kind /\ p.at = r.at /\ p.videos = r.videos /\ p.stuck = r.stuck /\ p.out = r.out
    BY <1>4 DEF Receipt
  <2> HIDE DEF p
  <2>3. ReceiptOK(p) /\ KeyOf(p) = KeyOf(r)
    BY <1>4, <2>2 DEF ReceiptOK, KeyOf
  <2>4. counted \in [edits : Nat, clashes : Nat]
    BY PushInvAre DEF CountsOK
  <2> QED
    BY <1>1, <1>2, <1>3, <2>1, <2>2, <2>3, <2>4, PutBackStep
<1> QED
  BY <1>5, <1>6

LEMMA ActsAre ==
  ASSUME CountsOK, UserActs
  PROVE  counted' \in [edits : Nat, clashes : Nat] /\ counted'.edits # 0
BY DEF CountsOK, UserActs

LEMMA RetryStep ==
  ASSUME PushInv, NEW n \in ReceiptId, RetryEvent(n)
  PROVE  PushInv'
<1> DEFINE r == receipts[n]
           p == [r EXCEPT !.status = "pending"]
<1>1. n \in Received /\ receipts' = [receipts EXCEPT ![n] = p] /\ UserActs
  BY DEF RetryEvent
<1>2. ReceiptOK(r) /\ r \in Receipt
  BY <1>1, PushInvAre, ReceivedIs
<1>3. p \in Receipt /\ p.kind = r.kind /\ p.at = r.at /\ p.videos = r.videos /\ p.stuck = r.stuck /\ p.out = r.out
  BY <1>2 DEF Receipt
<1> HIDE DEF p
<1>4. ReceiptOK(p) /\ KeyOf(p) = KeyOf(r)
  BY <1>2, <1>3 DEF ReceiptOK, KeyOf
<1>5. UNCHANGED <<time, allowed, batch, entries, watches, item, posted, erased>>
  BY DEF RetryEvent
<1> QED
  BY <1>1, <1>3, <1>4, <1>5, ActsAre, PushInvAre, PutBackStep

LEMMA ResolveStep ==
  ASSUME PushInv, NEW n \in ReceiptId, NEW t \in Absolute, NEW ep \in Episodes, ResolveEvent(n, t, ep)
  PROVE  PushInv'
<1> DEFINE r == receipts[n]
           maps == [r.maps EXCEPT ![t] = ep]
           p == [r EXCEPT !.status = "pending", !.maps = maps]
<1>1. n \in Received /\ receipts' = [receipts EXCEPT ![n] = p] /\ UserActs
  BY DEF ResolveEvent
<1>2. ReceiptOK(r) /\ r \in Receipt
  BY <1>1, PushInvAre, ReceivedIs
<1>3. maps \in [Absolute -> Episodes \cup {NoEpisode}]
  BY <1>2 DEF Receipt
<1> HIDE DEF maps
<1>4. p \in Receipt /\ p.kind = r.kind /\ p.at = r.at /\ p.videos = r.videos /\ p.stuck = r.stuck /\ p.out = r.out
  BY <1>2, <1>3 DEF Receipt
<1> HIDE DEF p
<1>5. ReceiptOK(p) /\ KeyOf(p) = KeyOf(r)
  BY <1>2, <1>4 DEF ReceiptOK, KeyOf
<1>6. UNCHANGED <<time, allowed, batch, entries, watches, item, posted, erased>>
  BY DEF ResolveEvent
<1> QED
  BY <1>1, <1>4, <1>5, <1>6, ActsAre, PushInvAre, PutBackStep

\* The user changes entries, history or list, but no receipt.
LEMMA UserStep ==
  ASSUME PushInv, UserActs, receipts' = receipts, batch' = batch, posted' = posted, time' = time, allowed' \in BOOLEAN,
         EntriesOK', \A c \in Categories, t \in Targets : entries[c][t].at <= entries'[c][t].at,
         HistoryOK', ItemOK', OneWatchPerTime', ClearIsObeyed', OthersKeepTheShow'
  PROVE  PushInv'
<1>1. counted' \in [edits : Nat, clashes : Nat] /\ counted'.edits # 0
  BY PushInvAre, ActsAre
<1>2. CountsOK' /\ EntriesStem'
  BY <1>1, PushInvAre DEF CountsOK, EntriesStem
<1>3. ReceiptsOK'
  BY PushInvAre DEF ReceiptsOK, ReceiptOK, Received
<1>4. TakenNotNewer'
  BY PushInvAre, TakenStay
<1>5. NothingSwallowed'
  BY PushInvAre DEF NothingSwallowed, Received, KeyOf
<1> QED
  BY <1>2, <1>3, <1>4, <1>5 DEF PushInv

\* What the user does now is news.
LEMMA PresentIsOK ==
  ASSUME PushInv, NEW kind \in Kind, NEW ts \in SUBSET Targets, FitsKind(kind, ts)
  PROVE  EventOK(Present(kind), ts)
<1> DEFINE e == Present(kind)
<1>1. e.kind = kind /\ e.at = time /\ e.by = 0 /\ e.maps = [x \in Absolute |-> NoEpisode]
  BY DEF Present
<1>2. time \in 1 .. MaxTime
  BY PushInvAre DEF CountsOK
<1>3. CategoryOf(kind) \in Categories
  BY KindsAre
<1>4. \A t \in ts : IsNews(CategoryOf(kind), t, time)
  BY <1>3, PushInvAre, EntryIs DEF IsNews
<1>5. /\ kind \in Drops \cup Lists => ts \subseteq {Show}
      /\ kind \in Marks \cup Playback => ts \subseteq Videos
  BY DEF FitsKind
<1> HIDE DEF e
<1>6. EventOK(e, ts)
  BY <1>1, <1>2, <1>4, <1>5, ReceiptsAssumption DEF EventOK
<1> QED
  BY <1>6 DEF e

LEMMA AddWatchStep ==
  ASSUME PushInv, NEW ep \in Episodes, NEW at \in 1 .. MaxTime, AddWatch(ep, at)
  PROVE  PushInv'
<1> DEFINE e == Present("played")
           ts == {ep}
           E == EntriesAfter(e, ts)
           made == [ep |-> ep, at |-> at, by |-> 0, key |-> ep]
<1>1. /\ UserActs /\ at <= time /\ entries' = [E EXCEPT !["drop"] = entries["drop"]]
      /\ watches' = watches \cup {made}
      /\ UNCHANGED <<time, allowed, batch, receipts, item, posted, erased>>
  BY DEF AddWatch
<1>2. ep \in Targets /\ ep \in Videos /\ ep \notin Absolute /\ ep # Show
  BY VideosAssumption DEF Targets, Videos
<1>3. EventOK(e, ts) /\ e.kind = "played" /\ e.at = time
  <2>1. "played" \in Kind /\ FitsKind("played", ts) /\ ts \in SUBSET Targets
    BY <1>2 DEF Kind, FitsKind, Marks, Playback, Drops, Lists
  <2>2. EventOK(e, ts)
    BY <2>1, PresentIsOK
  <2> QED
    BY <2>2 DEF Present
<1> HIDE DEF e, ts
<1>4. E \in [Categories -> [Targets -> StateEntry]]
  <2>1. E = [c \in Categories |-> [t \in Targets |-> E[c][t]]]
    BY DEF EntriesAfter
  <2>2. \A c \in Categories, t \in Targets : E[c][t] \in StateEntry
    BY <1>3, AfterIs, PushInvAre
  <2> HIDE DEF E
  <2> QED
    BY <2>1, <2>2
<1>5. entries \in [Categories -> [Targets -> StateEntry]]
  BY PushInvAre DEF EntriesOK
<1>6. /\ entries' \in [Categories -> [Targets -> StateEntry]] /\ entries'["drop"] = entries["drop"]
      /\ \A c \in Categories : c # "drop" => entries'[c] = E[c]
  <2> HIDE DEF E
  <2> QED
    BY <1>1, <1>4, <1>5 DEF Categories
<1>7. \A c \in Categories, t \in Targets :
        /\ E[c][t].at <= time /\ entries[c][t].at <= E[c][t].at
        /\ Written(e, ts, c, t) => E[c][t].kind = "played"
        /\ c # "drop" /\ ~Written(e, ts, c, t) => E[c][t] = entries[c][t]
  BY <1>3, AfterIs, PushInvAre DEF Undrops
<1>8. \A c \in Categories, t \in Targets : entries'[c][t].at <= time /\ entries[c][t].at <= entries'[c][t].at
  <2>1. \A c \in Categories, t \in Targets : entries[c][t].at \in Nat /\ entries[c][t].at <= time
    BY PushInvAre, EntryIs
  <2> HIDE DEF E
  <2> QED
    BY <1>6, <1>7, <2>1
<1>9. EntriesOK'
  <2>1. ASSUME NEW t \in Targets
        PROVE  entries'["watched"][t].at <= entries'["playback"][t].at
    <3>1. /\ entries'["watched"] = E["watched"] /\ entries'["playback"] = E["playback"]
      BY <1>6 DEF Categories
    <3>2. EntriesOK
      BY PushInvAre
    <3>3. E["watched"][t].at <= E["playback"][t].at
      BY <1>3, <3>2, PairStays
    <3> QED
      BY <3>1, <3>3
  <2> QED
    BY <1>1, <1>6, <1>8, <2>1 DEF EntriesOK
<1>10. made \in WatchedItem /\ made.by = 0 /\ made.ep = ep /\ made.key = ep
  BY <1>2, ReceiptsAssumption DEF WatchedItem, Time
<1> HIDE DEF made, E
<1>11. HistoryOK' /\ ItemOK'
  BY <1>1, <1>10, PushInvAre DEF HistoryOK, ItemOK
<1>12. OneWatchPerTime'
  BY <1>1, <1>10, PushInvAre DEF OneWatchPerTime
<1>13. OthersKeepTheShow'
  BY <1>1, <1>6, PushInvAre DEF OthersKeepTheShow
<1>14. ClearIsObeyed'
  <2> SUFFICES ASSUME NEW v \in Videos
               PROVE  /\ entries'["watched"][v].kind = "unplayed" =>
                            ~\E w \in watches' : w.key = v /\ w.ep \in {v, entries'["watched"][v].ep}
                                                 /\ w.at <= entries'["watched"][v].at
                      /\ entries'["watched"][v].kind \in {"played", "stopped"} /\ v \in Episodes \ erased' =>
                            \E w \in watches' : w.ep = v
    BY DEF ClearIsObeyed
  <2> DEFINE x == entries["watched"][v]
             y == entries'["watched"][v]
  <2>1. v \in Targets /\ "watched" \in Categories
    BY DEF Targets, Categories
  <2>2. v = ep => y.kind = "played"
    <3>1. v = ep => Written(e, ts, "watched", v)
      <4>1. "watched" \in Feeds(e.kind) /\ CategoryOf(e.kind) = "watched"
        <5>1. "played" \in Marks /\ "played" \in Kind
          BY DEF Marks, Kind
        <5> QED
          BY <1>3, <5>1, KindsAre
      <4> QED
        BY <1>3, <4>1 DEF Written, EventOK, ts
    <3> QED
      BY <1>6, <1>7, <2>1, <3>1
  <2>3. v # ep => y = x
    <3>1. v # ep => ~Written(e, ts, "watched", v)
      BY DEF Written, ts
    <3> QED
      BY <1>6, <1>7, <2>1, <3>1
  <2>4. /\ x.kind = "unplayed" => ~\E w \in watches : w.key = v /\ w.ep \in {v, x.ep} /\ w.at <= x.at
        /\ x.kind \in {"played", "stopped"} /\ v \in Episodes \ erased => \E w \in watches : w.ep = v
    BY PushInvAre DEF ClearIsObeyed
  <2>5. watches' = watches \cup {made} /\ erased' = erased
    BY <1>1
  <2> HIDE DEF x, y
  <2>6. CASE v = ep
    <3>1. made \in watches' /\ made.ep = v
      BY <1>10, <2>5, <2>6
    <3> QED
      BY <2>2, <2>6, <3>1 DEF y
  <2>7. CASE v # ep
    <3>1. y = x
      BY <2>3, <2>7
    <3>2. \A w \in watches' : w.key = v => w \in watches
      BY <1>10, <2>5, <2>7
    <3>3. y.kind = "unplayed" => ~\E w \in watches' : w.key = v /\ w.ep \in {v, y.ep} /\ w.at <= y.at
      BY <2>4, <3>1, <3>2
    <3>4. y.kind \in {"played", "stopped"} /\ v \in Episodes \ erased' => \E w \in watches' : w.ep = v
      BY <2>4, <2>5, <3>1
    <3> QED
      BY <3>3, <3>4 DEF y
  <2> QED
    BY <2>6, <2>7
<1>15. allowed' \in BOOLEAN
  BY <1>1, PushInvAre DEF CountsOK
<1> QED
  BY <1>1, <1>8, <1>9, <1>11, <1>12, <1>13, <1>14, <1>15, UserStep

LEMMA DeleteWatchStep ==
  ASSUME PushInv, NEW w \in watches, DeleteWatch(w)
  PROVE  PushInv'
<1>1. /\ UserActs /\ watches' = watches \ {w} /\ erased' = erased \cup {w.ep}
      /\ UNCHANGED <<time, allowed, batch, receipts, entries, item, posted>>
  BY DEF DeleteWatch
<1>2. HistoryOK' /\ ItemOK' /\ EntriesOK'
  BY <1>1, PushInvAre DEF HistoryOK, WatchedItem, ItemOK, EntriesOK
<1>3. OneWatchPerTime' /\ OthersKeepTheShow'
  BY <1>1, PushInvAre DEF OneWatchPerTime, OthersKeepTheShow
<1>4. ClearIsObeyed'
  BY <1>1, PushInvAre DEF ClearIsObeyed
<1>5. \A c \in Categories, t \in Targets : entries[c][t].at <= entries'[c][t].at
  BY <1>1, PushInvAre, EntryIs
<1>6. allowed' \in BOOLEAN
  BY <1>1, PushInvAre DEF CountsOK
<1> QED
  BY <1>1, <1>2, <1>3, <1>4, <1>5, <1>6, UserStep

LEMMA ClearResumeStep ==
  ASSUME PushInv, NEW t \in Targets, ClearResume(t)
  PROVE  PushInv'
<1> DEFINE x == entries["playback"][t]
           y == [x EXCEPT !.kind = "start", !.at = time]
<1>1. /\ x # NoStateEntry /\ UserActs /\ entries' = [entries EXCEPT !["playback"][t] = y]
      /\ UNCHANGED <<time, allowed, batch, receipts, watches, item, posted, erased>>
  BY DEF ClearResume
<1>2. "playback" \in Categories /\ "watched" \in Categories /\ "drop" \in Categories
  BY DEF Categories
<1>3. y \in StateEntry /\ y.at = time
  <2>1. x \in Entry
    BY <1>1, <1>2, PushInvAre, EntryIs DEF StateEntry
  <2>2. time \in Time
    BY PushInvAre DEF CountsOK, Time
  <2> HIDE DEF x
  <2> QED
    BY <2>1, <2>2 DEF StateEntry, Entry, Playback
<1> HIDE DEF y
<1>4. entries \in [Categories -> [Targets -> StateEntry]]
  BY PushInvAre DEF EntriesOK
<1>5. /\ entries' \in [Categories -> [Targets -> StateEntry]]
      /\ \A c \in Categories, s \in Targets : entries'[c][s] = IF c = "playback" /\ s = t THEN y ELSE entries[c][s]
  BY <1>1, <1>2, <1>3, <1>4
<1>6. \A c \in Categories, s \in Targets : entries[c][s].at \in Nat /\ entries[c][s].at <= time
  BY PushInvAre, EntryIs
<1>7. \A c \in Categories, s \in Targets : entries'[c][s].at <= time /\ entries[c][s].at <= entries'[c][s].at
  <2>1. time \in Nat
    BY PushInvAre DEF CountsOK
  <2> QED
    BY <1>3, <1>5, <1>6, <2>1
<1>8. \A s \in Targets : entries'["watched"][s].at <= entries'["playback"][s].at
  <2>1. \A s \in Targets : entries["watched"][s].at <= entries["playback"][s].at
    BY PushInvAre DEF EntriesOK
  <2> QED
    BY <1>2, <1>3, <1>5, <1>6, <2>1
<1>9. EntriesOK'
  BY <1>1, <1>5, <1>7, <1>8 DEF EntriesOK
<1>10. HistoryOK' /\ ItemOK' /\ OneWatchPerTime' /\ allowed' \in BOOLEAN
  BY <1>1, PushInvAre DEF HistoryOK, ItemOK, OneWatchPerTime, CountsOK
<1>11. OthersKeepTheShow'
  BY <1>1, <1>2, <1>5, PushInvAre DEF OthersKeepTheShow, Targets
<1>12. ClearIsObeyed'
  <2>1. \A v \in Videos : entries'["watched"][v] = entries["watched"][v]
    BY <1>2, <1>5 DEF Targets
  <2> QED
    BY <1>1, <2>1, PushInvAre DEF ClearIsObeyed
<1> QED
  BY <1>1, <1>7, <1>9, <1>10, <1>11, <1>12, UserStep

LEMMA ManageRatingStep ==
  ASSUME PushInv, NEW t \in Targets, NEW kind \in Ratings, ManageRating(t, kind)
  PROVE  PushInv'
<1> DEFINE e == Present(kind)
           ts == {t}
<1>1. /\ UserActs /\ Apply(e, ts)
      /\ UNCHANGED <<time, allowed, batch, receipts, posted>>
  BY DEF ManageRating
<1>2. EventOK(e, ts)
  <2>1. kind \in Kind /\ FitsKind(kind, ts) /\ ts \in SUBSET Targets
    BY DEF Kind, FitsKind, Ratings, Marks, Playback, Drops, Lists
  <2> QED
    BY <2>1, PresentIsOK
<1> HIDE DEF e, ts
<1>3. /\ entries' = EntriesAfter(e, ts) /\ watches' = WatchesAfter(e, ts)
      /\ item' = ItemAfter(e, ts) /\ erased' = ErasedAfter(e, ts)
  BY <1>1 DEF Apply
<1>4. EntriesOK'
  BY <1>1, <1>2, <1>3, PushInvAre, EntriesStep
<1>5. HistoryOK' /\ OneWatchPerTime'
  BY <1>2, <1>3, PushInvAre, WatchesStep
<1>6. ItemOK' /\ OthersKeepTheShow'
  BY <1>2, <1>3, PushInvAre, ItemStep
<1>7. ClearIsObeyed'
  BY <1>2, <1>3, PushInvAre, ClearStep
<1>8. \A c \in Categories, s \in Targets : entries[c][s].at <= entries'[c][s].at
  BY <1>2, <1>3, PushInvAre, AfterIs
<1>9. allowed' \in BOOLEAN
  BY <1>1, PushInvAre DEF CountsOK
<1> QED
  BY <1>1, <1>4, <1>5, <1>6, <1>7, <1>8, <1>9, UserStep

LEMMA ToggleStep ==
  ASSUME PushInv, Toggle
  PROVE  PushInv'
<1>1. /\ UserActs /\ allowed' \in BOOLEAN
      /\ UNCHANGED <<time, batch, receipts, entries, watches, item, posted, erased>>
  BY DEF Toggle
<1>2. HistoryOK' /\ ItemOK' /\ EntriesOK' /\ OneWatchPerTime' /\ OthersKeepTheShow'
  BY <1>1, PushInvAre DEF HistoryOK, ItemOK, EntriesOK, OneWatchPerTime, OthersKeepTheShow
<1>3. ClearIsObeyed'
  BY <1>1, PushInvAre, ClearKeeps
<1>4. \A c \in Categories, s \in Targets : entries[c][s].at <= entries'[c][s].at
  BY <1>1, PushInvAre, EntryIs
<1> QED
  BY <1>1, <1>2, <1>3, <1>4, UserStep

LEMMA TickStep ==
  ASSUME PushInv, PushTick
  PROVE  PushInv'
<1>1. /\ time < MaxTime /\ time' = time + 1
      /\ UNCHANGED <<allowed, batch, receipts, entries, watches, item, posted, erased, counted>>
  BY DEF PushTick
<1>2. CountsOK' /\ time \in Nat
  BY <1>1, PushInvAre, ReceiptsAssumption DEF CountsOK
<1>3. ReceiptsOK'
  <2>1. \A n \in Received : ReceiptOK(receipts[n])'
    BY <1>1, <1>2, PushInvAre, ReceiptsAssumption DEF ReceiptsOK, ReceiptOK, Receipt
  <2> QED
    BY <1>1, <2>1, PushInvAre DEF ReceiptsOK, Received
<1>4. EntriesOK'
  <2>1. \A c \in Categories, t \in Targets : entries'[c][t].at <= time'
    BY <1>1, <1>2, PushInvAre, EntryIs
  <2> QED
    BY <1>1, <2>1, PushInvAre DEF EntriesOK
<1>5. TakenNotNewer' /\ EntriesStem'
  BY <1>1, PushInvAre DEF TakenNotNewer, EntriesStem, TakenFor, Received
<1>6. HistoryOK' /\ ItemOK' /\ OneWatchPerTime' /\ OthersKeepTheShow'
  BY <1>1, PushInvAre DEF HistoryOK, ItemOK, OneWatchPerTime, OthersKeepTheShow
<1>7. NothingSwallowed'
  BY <1>1, PushInvAre DEF NothingSwallowed, Received, KeyOf
<1>8. ClearIsObeyed'
  BY <1>1, PushInvAre, ClearKeeps
<1> QED
  BY <1>2, <1>3, <1>4, <1>5, <1>6, <1>7, <1>8 DEF PushInv

LEMMA PushStarts == PushInit => PushInv
<1> SUFFICES ASSUME PushInit
             PROVE  PushInv
  OBVIOUS
<1>1. /\ time = 1 /\ allowed = TRUE /\ batch = {} /\ watches = {} /\ posted = {} /\ erased = {}
      /\ receipts = [n \in ReceiptId |-> NoReceipt] /\ counted = [edits |-> 0, clashes |-> 0]
      /\ entries = [c \in Categories |-> [t \in Targets |-> NoStateEntry]]
  BY DEF PushInit
<1>2. Received = {}
  BY <1>1 DEF Received
<1>3. Cardinality(Received) = 0
  BY <1>2, FS_EmptySet
<1>4. ReceiptsOK
  <2>1. Received = 1 .. 0
    BY <1>2
  <2> QED
    BY <1>1, <1>2, <1>3, <2>1 DEF ReceiptsOK
<1>5. CountsOK
  BY <1>1, ReceiptsAssumption DEF CountsOK
<1>6. NoStateEntry.at = 0 /\ NoStateEntry.kind = ""
  BY DEF NoStateEntry
<1>7. \A c \in Categories, t \in Targets :
        entries[c][t] = NoStateEntry /\ entries[c][t].at = 0 /\ entries[c][t].kind = ""
  <2>1. \A c \in Categories, t \in Targets : entries[c][t] = NoStateEntry
    BY <1>1
  <2> QED
    BY <1>6, <2>1, Zenon
<1>8. EntriesOK
  <2>1. entries \in [Categories -> [Targets -> StateEntry]]
    BY <1>1 DEF StateEntry
  <2>2. \A c \in Categories, t \in Targets : entries[c][t].at <= time
    <3>1. time = 1
      BY <1>1
    <3>2. \A c \in Categories, t \in Targets : entries[c][t].at = 0
      BY <1>7, Zenon
    <3> QED
      BY <3>1, <3>2
  <2>3. \A t \in Targets : entries["watched"][t].at <= entries["playback"][t].at
    <3>1. "watched" \in Categories /\ "playback" \in Categories
      BY DEF Categories
    <3>2. \A t \in Targets : entries["watched"][t].at = 0 /\ entries["playback"][t].at = 0
      BY <1>7, <3>1, Zenon
    <3> QED
      BY <3>2
  <2> QED
    BY <2>1, <2>2, <2>3 DEF EntriesOK
<1>9. HistoryOK /\ OneWatchPerTime
  BY <1>1 DEF HistoryOK, OneWatchPerTime
<1>10. item \in ListItem /\ item.status \in {"none", "added"}
  <2>1. item \in ItemsAtFirst
    BY DEF PushInit
  <2>2. \/ item = [status |-> "none", links |-> {}, manual |-> FALSE]
        \/ item = [status |-> "added", links |-> {}, manual |-> TRUE]
        \/ item = [status |-> "added", links |-> {"other"}, manual |-> FALSE]
    BY <2>1, Zenon DEF ItemsAtFirst
  <2> QED
    <3>1. CASE item = [status |-> "none", links |-> {}, manual |-> FALSE]
      BY <3>1 DEF ListItem
    <3>2. CASE item = [status |-> "added", links |-> {}, manual |-> TRUE]
      BY <3>2 DEF ListItem
    <3>3. CASE item = [status |-> "added", links |-> {"other"}, manual |-> FALSE]
      BY <3>3 DEF ListItem
    <3> QED
      BY <2>2, <3>1, <3>2, <3>3
<1>11. TakenNotNewer /\ EntriesStem
  <2>1. \A c \in Categories, t \in Targets : TakenFor(c, t) = {}
    BY <1>2 DEF TakenFor
  <2> QED
    BY <1>7, <2>1 DEF TakenNotNewer, EntriesStem
<1>12. NothingSwallowed
  BY <1>1, <1>2 DEF NothingSwallowed
<1>13. ClearIsObeyed
  <2>1. \A v \in Videos : entries["watched"][v].kind = ""
    <3>1. Videos \subseteq Targets /\ "watched" \in Categories
      BY DEF Targets, Categories
    <3> QED
      BY <1>6, <1>7, <3>1
  <2> QED
    BY <2>1 DEF ClearIsObeyed
<1>14. ItemOK /\ OthersKeepTheShow
  <2>1. entries["drop"][Show].kind = ""
    BY <1>6, <1>7 DEF Targets, Categories
  <2> QED
    BY <1>10, <2>1 DEF ItemOK, OthersKeepTheShow
<1> QED
  BY <1>4, <1>5, <1>8, <1>9, <1>11, <1>12, <1>13, <1>14 DEF PushInv

LEMMA PushGoesOn == PushInv /\ [PushNext]_pushVars => PushInv'
<1> SUFFICES ASSUME PushInv, [PushNext]_pushVars
             PROVE  PushInv'
  OBVIOUS
<1>1. ASSUME NEW kind \in Kinds, NEW at \in 1 .. MaxTime, NEW ts \in SUBSET Targets, NEW stuck \in BOOLEAN,
             NEW clash \in BOOLEAN, Valid(kind, ts), Push([kind |-> kind, at |-> at, videos |-> ts], stuck, clash)
      PROVE  PushInv'
  BY <1>1, PushStep
<1>2. ASSUME NEW held \in SUBSET ToProcess, Drain(held)
      PROVE  PushInv'
  BY <1>2, DrainStep
<1>3. CASE DrainNext
  BY <1>3, DrainNextStep
<1>4. ASSUME NEW n \in ReceiptId, RetryEvent(n)
      PROVE  PushInv'
  BY <1>4, RetryStep
<1>5. ASSUME NEW n \in ReceiptId, NEW t \in Absolute, NEW ep \in Episodes, ResolveEvent(n, t, ep)
      PROVE  PushInv'
  BY <1>5, ResolveStep
<1>6. ASSUME NEW ep \in Episodes, NEW at \in 1 .. MaxTime, AddWatch(ep, at)
      PROVE  PushInv'
  BY <1>6, AddWatchStep
<1>7. ASSUME NEW w \in watches, DeleteWatch(w)
      PROVE  PushInv'
  BY <1>7, DeleteWatchStep
<1>8. ASSUME NEW t \in Targets, ClearResume(t)
      PROVE  PushInv'
  BY <1>8, ClearResumeStep
<1>9. ASSUME NEW t \in Targets, NEW kind \in Ratings, ManageRating(t, kind)
      PROVE  PushInv'
  BY <1>9, ManageRatingStep
<1>10. CASE Toggle
  BY <1>10, ToggleStep
<1>11. CASE PushTick
  BY <1>11, TickStep
<1>12. CASE UNCHANGED pushVars
  <2>1. UNCHANGED <<time, allowed, receipts, batch, entries, watches, item, posted, erased, counted>>
    BY <1>12 DEF pushVars
  <2>2. ReceiptsOK' /\ CountsOK' /\ EntriesOK' /\ HistoryOK' /\ ItemOK'
    BY <2>1, PushInvAre DEF ReceiptsOK, ReceiptOK, Received, CountsOK, EntriesOK, HistoryOK, ItemOK
  <2>3. TakenNotNewer' /\ EntriesStem'
    BY <2>1, PushInvAre DEF TakenNotNewer, EntriesStem, TakenFor, Received
  <2>4. NothingSwallowed'
    BY <2>1, PushInvAre DEF NothingSwallowed, Received, KeyOf
  <2>5. OneWatchPerTime' /\ OthersKeepTheShow'
    BY <2>1, PushInvAre DEF OneWatchPerTime, OthersKeepTheShow
  <2>6. ClearIsObeyed'
    BY <2>1, PushInvAre, ClearKeeps
  <2> QED
    BY <2>2, <2>3, <2>4, <2>5, <2>6 DEF PushInv
<1> QED
  BY <1>1, <1>2, <1>3, <1>4, <1>5, <1>6, <1>7, <1>8, <1>9, <1>10, <1>11, <1>12, Zenon DEF PushNext

LEMMA PushInvHolds == PushSpec => []PushInv
BY PushStarts, PushGoesOn, PTL DEF PushSpec

(* Receipts, entries, watches and the item stay what the code's rows are.  *)
THEOREM PushTypeCorrect == PushSpec => []PushTypeOK
<1>1. ASSUME PushInv
      PROVE  PushTypeOK
  <2>1. time \in Time /\ allowed \in BOOLEAN /\ posted \subseteq PushEvent
    BY <1>1, PushInvAre DEF CountsOK, Time
  <2>2. batch \subseteq ReceiptId
    BY <1>1, PushInvAre DEF ReceiptsOK, Received
  <2>3. entries \in [Categories -> [Targets -> Entry \cup {NoStateEntry}]]
    BY <1>1, PushInvAre DEF EntriesOK, StateEntry
  <2>4. watches \subseteq [ep : Episodes, at : Time, by : 0 .. MaxReceipts, key : Videos] /\ erased \subseteq Episodes
    BY <1>1, PushInvAre DEF HistoryOK, WatchedItem
  <2>5. item \in [status : {"none", "added", "removed", "dropped", "in_progress"},
                  links : SUBSET {"watchlist", "dropped", "other"}, manual : BOOLEAN]
    BY <1>1, PushInvAre DEF ItemOK, ListItem
  <2>6. ASSUME NEW n \in ReceiptId, receipts[n] # NoReceipt
        PROVE  /\ [kind |-> receipts[n].kind, at |-> receipts[n].at, videos |-> receipts[n].videos] \in PushEvent
               /\ receipts[n].status \in {"pending", "applied", "superseded", "unresolved", "failed"}
               /\ receipts[n].out \in [Targets -> Outcomes]
               /\ receipts[n].maps \in [Absolute -> Episodes \cup {NoEpisode}]
    <3>1. n \in Received
      BY <2>6 DEF Received
    <3>2. receipts[n] \in Receipt
      BY <1>1, <3>1, PushInvAre, ReceivedIs
    <3> QED
      BY <3>2, ReceiptsAssumption DEF Receipt, PushEvent, Time
  <2> QED
    BY <2>1, <2>2, <2>3, <2>4, <2>5, <2>6 DEF PushTypeOK
<1> QED
  BY <1>1, PushInvHolds, PTL

(* Each entry tells the newest event that was taken for it, whatever was   *)
(* accepted is a receipt of its own, and no two watches stem from one      *)
(* moment: for any number of videos, receipts, edits and clashes.          *)
THEOREM NewestMarksWin == PushSpec => []NewestMarkWins
<1>1. ASSUME PushInv
      PROVE  NewestMarkWins
  <2>1. TakenNotNewer /\ EntriesStem /\ NothingSwallowed /\ OneWatchPerTime
    BY <1>1, PushInvAre
  <2>2. NewestIsTold
    BY <2>1 DEF NewestIsTold, TakenNotNewer, EntriesStem
  <2> QED
    BY <2>1, <2>2 DEF NewestMarkWins
<1> QED
  BY <1>1, PushInvHolds, PTL

(* A clear removes the watches up to its time and a play leaves one, and a *)
(* favourite that goes takes no show from the list that another source or  *)
(* the user put on it.                                                     *)
THEOREM RemovalsStayExact == PushSpec => []RemovalsAreExact
<1>1. ASSUME PushInv
      PROVE  RemovalsAreExact
  BY <1>1, PushInvAre DEF RemovalsAreExact
<1> QED
  BY <1>1, PushInvHolds, PTL

=============================================================================
