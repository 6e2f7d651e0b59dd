----------------------------- MODULE DiskProofs -----------------------------
(***************************************************************************)
(* Theorems about module DiskStorage, for any number of keys, bodies,      *)
(* writes, compactions, restarts and I/O errors, and logs of any length.   *)
(***************************************************************************)
EXTENDS DiskStorage, FiniteSetTheorems, SequenceTheorems, TLAPS

LoadOp(p, db, e) == ApplyEntry(db, e, 0)
ReplayOp(p, acc, e) == ReplayEntry(acc, e, 0)

Loading == INSTANCE FoldFacts WITH Op <- LoadOp
Replaying == INSTANCE FoldFacts WITH Op <- ReplayOp

Values == Bodies \cup {NoDoc}
Maps == [Keys -> Values]

LEMMA Constants ==
    /\ Collection \in Collections /\ Tx \in TxIds /\ Tx # NoTx
    /\ Modes \subseteq {"sync", "async"} /\ NoFile \notin Snapshots /\ IsFiniteSet(Keys)
BY DiskAssumption, FileAssumption, NoTxAssumption DEF Collection, Tx
-----------------------------------------------------------------------------
(***************************************************************************)
(* What the entries of the log do to the documents of the collection.      *)
(***************************************************************************)
Dbs == [cols : SUBSET Collections, docs : [Collections -> Maps],
        ttl : [Collections -> Int], schemas : [Collections -> {NoSchema}]]

Put(m, k, v) == [m EXCEPT ![k] = v]

Updated(m, e) ==
    IF e.collection = Collection /\ e.cmd \in {"INSERT", "DELETE"}
    THEN Put(m, e.key, IF e.cmd = "INSERT" THEN e.value ELSE NoDoc)
    ELSE m

LEMMA UpdatedType ==
    ASSUME NEW m \in Maps, NEW e \in Entry
    PROVE  Updated(m, e) \in Maps
BY DEF Maps, Values, Entry, Updated, Put

LEMMA EmptyDbShape ==
    EmptyDb \in Dbs /\ \A c \in Collections : EmptyDb.docs[c] = NoDocs
<1> DEFINE d == [c \in Collections |-> NoDocs]
           x == [c \in Collections |-> NoExpiry]
           y == [c \in Collections |-> NoSchema]
<1>1. d \in [Collections -> Maps] /\ \A c \in Collections : d[c] = NoDocs
  BY DEF NoDocs, Maps, Values
<1>2. x \in [Collections -> Int] /\ y \in [Collections -> {NoSchema}]
  BY DEF NoExpiry
<1> HIDE DEF d, x, y
<1>3. DbOf({}, d, x, y) \in Dbs /\ DbOf({}, d, x, y).docs = d
  BY <1>1, <1>2 DEF DbOf, Dbs
<1> QED
  BY <1>1, <1>3 DEF EmptyDb, d, x, y

LEMMA PutEffect ==
    ASSUME NEW db \in Dbs, NEW c \in Collections, NEW k, NEW v \in Values
    PROVE  /\ PutDoc(db, c, k, v) \in Dbs
           /\ PutDoc(db, c, k, v).docs[Collection] =
                 IF c = Collection THEN Put(db.docs[Collection], k, v)
                                   ELSE db.docs[Collection]
<1> DEFINE D == [db.docs EXCEPT ![c][k] = v]
           x == db.ttl
           y == db.schemas
           a == db.cols \cup {c}
           m == db.docs[c]
<1>1. db.docs \in [Collections -> Maps] /\ m \in Maps /\ [m EXCEPT ![k] = v] \in Maps
  BY DEF Dbs, Maps, Values
<1>2. /\ D \in [Collections -> Maps]
      /\ D[Collection] = IF c = Collection THEN [m EXCEPT ![k] = v] ELSE db.docs[Collection]
  BY <1>1, Constants
<1>3. x \in [Collections -> Int] /\ y \in [Collections -> {NoSchema}] /\ a \in SUBSET Collections
  BY DEF Dbs
<1> HIDE DEF D, x, y, a
<1>4. DbOf(a, D, x, y) \in Dbs /\ DbOf(a, D, x, y).docs = D
  BY <1>2, <1>3 DEF DbOf, Dbs
<1> QED
  BY <1>2, <1>4 DEF PutDoc, Put, D, x, y, a

LEMMA RemoveEffect ==
    ASSUME NEW db \in Dbs, NEW c \in Collections, NEW k
    PROVE  /\ RemoveDoc(db, c, k) \in Dbs
           /\ RemoveDoc(db, c, k).docs[Collection] =
                 IF c = Collection THEN Put(db.docs[Collection], k, NoDoc)
                                   ELSE db.docs[Collection]
<1> DEFINE D == [db.docs EXCEPT ![c][k] = NoDoc]
           x == db.ttl
           y == db.schemas
           a == db.cols
           m == db.docs[c]
<1>1. db.docs \in [Collections -> Maps] /\ m \in Maps /\ [m EXCEPT ![k] = NoDoc] \in Maps
  BY DEF Dbs, Maps, Values
<1>2. /\ D \in [Collections -> Maps]
      /\ D[Collection] = IF c = Collection THEN [m EXCEPT ![k] = NoDoc] ELSE db.docs[Collection]
  BY <1>1, Constants
<1>3. x \in [Collections -> Int] /\ y \in [Collections -> {NoSchema}] /\ a \in SUBSET Collections
  BY DEF Dbs
<1> HIDE DEF D, x, y, a
<1>4. DbOf(a, D, x, y) \in Dbs /\ DbOf(a, D, x, y).docs = D
  BY <1>2, <1>3 DEF DbOf, Dbs
<1> QED
  BY <1>2, <1>4 DEF RemoveDoc, Put, D, x, y, a

LEMMA ApplyEffect ==
    ASSUME NEW db \in Dbs, NEW e \in Entry
    PROVE  /\ ApplyEntry(db, e, 0) \in Dbs
           /\ ApplyEntry(db, e, 0).docs[Collection] = Updated(db.docs[Collection], e)
<1>0. e.collection \in Collections /\ e.value \in Values /\ db.cols \in SUBSET Collections
      /\ e.cmd \in {"TX_BEGIN", "TX_COMMIT", "INSERT", "DELETE", "COMPACT"} /\ NoDoc \in Values
  BY DEF Entry, Values, Dbs
<1>1. CASE e.cmd = "INSERT"
  <2>1. ApplyEntry(db, e, 0) = PutDoc(db, e.collection, e.key, e.value)
    BY <1>1 DEF ApplyEntry
  <2>2. Updated(db.docs[Collection], e) =
          IF e.collection = Collection THEN Put(db.docs[Collection], e.key, e.value)
                                       ELSE db.docs[Collection]
    BY <1>1 DEF Updated
  <2> QED
    BY <1>0, <2>1, <2>2, PutEffect
<1>2. CASE e.cmd = "DELETE"
  <2>1. ApplyEntry(db, e, 0) = RemoveDoc(db, e.collection, e.key)
    BY <1>2 DEF ApplyEntry
  <2>2. Updated(db.docs[Collection], e) =
          IF e.collection = Collection THEN Put(db.docs[Collection], e.key, NoDoc)
                                       ELSE db.docs[Collection]
    BY <1>2 DEF Updated
  <2> QED
    BY <1>0, <2>1, <2>2, RemoveEffect
<1>3. CASE e.cmd \notin {"INSERT", "DELETE"}
  <2>1. ApplyEntry(db, e, 0) = db
    BY <1>0, <1>3 DEF ApplyEntry
  <2> QED
    BY <1>3, <2>1 DEF Updated
<1> QED
  BY <1>1, <1>2, <1>3

(***************************************************************************)
(* The replay loop, seen from the collection: what is durable, what is     *)
(* pending in the open transaction, and which transaction is open.         *)
(***************************************************************************)
Accs == [durable : Dbs, pending : Dbs, active : Keys \cup TxIds \cup {NoTx}]

Acc(db, s) == Replaying!Fold(0, LogOf(db, db, NoTx), s)
Dur(db, s) == Acc(db, s).durable.docs[Collection]
Pen(db, s) == Acc(db, s).pending.docs[Collection]
Act(db, s) == Acc(db, s).active

LEMMA LogOfShape ==
    ASSUME NEW d \in Dbs, NEW p \in Dbs, NEW a \in Keys \cup TxIds \cup {NoTx}
    PROVE  /\ LogOf(d, p, a) \in Accs
           /\ LogOf(d, p, a).durable = d /\ LogOf(d, p, a).pending = p /\ LogOf(d, p, a).active = a
BY DEF LogOf, Accs

LEMMA ReplayEffect ==
    ASSUME NEW acc \in Accs, NEW e \in Entry
    PROVE  LET new == ReplayEntry(acc, e, 0)
               d == acc.durable.docs[Collection]
               p == acc.pending.docs[Collection]
           IN  /\ new \in Accs
               /\ e.cmd = "TX_BEGIN" =>
                     /\ new.durable.docs[Collection] = d /\ new.pending.docs[Collection] = d
                     /\ new.active = e.key
               /\ e.cmd = "TX_COMMIT" =>
                     IF acc.active = e.key
                     THEN /\ new.durable.docs[Collection] = p /\ new.pending.docs[Collection] = p
                          /\ new.active = NoTx
                     ELSE new = acc
               /\ e.cmd \notin {"TX_BEGIN", "TX_COMMIT"} =>
                     /\ new.active = acc.active
                     /\ new.durable.docs[Collection] = IF acc.active = NoTx THEN Updated(d, e) ELSE d
                     /\ new.pending.docs[Collection] =
                           Updated(IF acc.active = NoTx THEN d ELSE p, e)
<1> DEFINE new == ReplayEntry(acc, e, 0)
           D == acc.durable
           P == acc.pending
           a == acc.active
<1>0. D \in Dbs /\ P \in Dbs /\ a \in Keys \cup TxIds \cup {NoTx} /\ e.key \in Keys \cup TxIds
  BY DEF Accs, Entry
<1>1. CASE e.cmd = "TX_BEGIN"
  <2>1. new = LogOf(D, D, e.key)
    BY <1>1 DEF ReplayEntry
  <2> HIDE DEF D, P, a, new
  <2>2. new \in Accs /\ new.durable = D /\ new.pending = D /\ new.active = e.key
    BY <1>0, <2>1, LogOfShape
  <2> QED
    BY <1>1, <2>2 DEF new, D, P, a
<1>2. CASE e.cmd = "TX_COMMIT"
  <2>1. new = IF a = e.key THEN LogOf(P, P, NoTx) ELSE acc
    BY <1>2 DEF ReplayEntry
  <2> HIDE DEF D, P, a, new
  <2>2. a = e.key => new \in Accs /\ new.durable = P /\ new.pending = P /\ new.active = NoTx
    BY <1>0, <2>1, LogOfShape
  <2>3. a # e.key => new = acc
    BY <2>1
  <2> QED
    BY <1>2, <2>2, <2>3 DEF new, D, P, a
<1>3. CASE e.cmd \notin {"TX_BEGIN", "TX_COMMIT"}
  <2> DEFINE U == ApplyEntry(D, e, 0)
             V == ApplyEntry(P, e, 0)
  <2>1. new = IF a # NoTx THEN LogOf(D, V, a) ELSE LogOf(U, U, NoTx)
    BY <1>3 DEF ReplayEntry
  <2>2. U \in Dbs /\ V \in Dbs
        /\ U.docs[Collection] = Updated(D.docs[Collection], e)
        /\ V.docs[Collection] = Updated(P.docs[Collection], e)
    BY <1>0, ApplyEffect
  <2> HIDE DEF D, P, a, new, U, V
  <2>3. a # NoTx => new \in Accs /\ new.durable = D /\ new.pending = V /\ new.active = a
    BY <1>0, <2>1, <2>2, LogOfShape
  <2>4. a = NoTx => new \in Accs /\ new.durable = U /\ new.pending = U /\ new.active = NoTx
    BY <1>0, <2>1, <2>2, LogOfShape
  <2> QED
    BY <1>3, <2>2, <2>3, <2>4 DEF new, D, P, a
<1> QED
  BY <1>1, <1>2, <1>3

LEMMA AccType ==
    ASSUME NEW db \in Dbs, NEW s \in Seq(Entry)
    PROVE  Acc(db, s) \in Accs
<1> DEFINE T == {u \in Seq(Entry) : Acc(db, u) \in Accs}
<1>1. <<>> \in T
  BY Replaying!FoldEmpty, LogOfShape, EmptySeq DEF Acc
<1>2. ASSUME NEW u \in Seq(Entry), NEW e \in Entry, u \in T PROVE Append(u, e) \in T
  <2>1. Acc(db, Append(u, e)) = ReplayEntry(Acc(db, u), e, 0)
    BY Replaying!FoldAppend DEF Acc, ReplayOp
  <2> QED
    BY <1>2, <2>1, ReplayEffect
<1> HIDE DEF T
<1>3. \A u \in Seq(Entry) : u \in T
  BY <1>1, <1>2, Replaying!SeqSetInduction
<1> QED
  BY <1>3 DEF T

LEMMA AccStart ==
    ASSUME NEW db \in Dbs
    PROVE  /\ Dur(db, <<>>) = db.docs[Collection] /\ Pen(db, <<>>) = db.docs[Collection]
           /\ Act(db, <<>>) = NoTx
<1>1. Acc(db, <<>>) = LogOf(db, db, NoTx)
  BY Replaying!FoldEmpty DEF Acc
<1>2. Acc(db, <<>>).durable = db /\ Acc(db, <<>>).pending = db /\ Acc(db, <<>>).active = NoTx
  BY <1>1, LogOfShape
<1> QED
  BY <1>2 DEF Dur, Pen, Act

LEMMA AccStep ==
    ASSUME NEW db \in Dbs, NEW s \in Seq(Entry), NEW e \in Entry
    PROVE  /\ e.cmd = "TX_BEGIN" =>
                 /\ Dur(db, Append(s, e)) = Dur(db, s) /\ Pen(db, Append(s, e)) = Dur(db, s)
                 /\ Act(db, Append(s, e)) = e.key
           /\ e.cmd = "TX_COMMIT" =>
                 IF Act(db, s) = e.key
                 THEN /\ Dur(db, Append(s, e)) = Pen(db, s) /\ Pen(db, Append(s, e)) = Pen(db, s)
                      /\ Act(db, Append(s, e)) = NoTx
                 ELSE /\ Dur(db, Append(s, e)) = Dur(db, s) /\ Pen(db, Append(s, e)) = Pen(db, s)
                      /\ Act(db, Append(s, e)) = Act(db, s)
           /\ e.cmd \notin {"TX_BEGIN", "TX_COMMIT"} =>
                 /\ Act(db, Append(s, e)) = Act(db, s)
                 /\ Dur(db, Append(s, e)) =
                       IF Act(db, s) = NoTx THEN Updated(Dur(db, s), e) ELSE Dur(db, s)
                 /\ Pen(db, Append(s, e)) =
                       Updated(IF Act(db, s) = NoTx THEN Dur(db, s) ELSE Pen(db, s), e)
<1> DEFINE acc == Acc(db, s)
<1>1. Acc(db, Append(s, e)) = ReplayEntry(acc, e, 0) /\ acc \in Accs
  BY Replaying!FoldAppend, AccType DEF Acc, ReplayOp
<1>2. Dur(db, s) = acc.durable.docs[Collection] /\ Pen(db, s) = acc.pending.docs[Collection]
      /\ Act(db, s) = acc.active
  BY DEF Dur, Pen, Act
<1> DEFINE new == Acc(db, Append(s, e))
<1>3. Dur(db, Append(s, e)) = new.durable.docs[Collection]
      /\ Pen(db, Append(s, e)) = new.pending.docs[Collection] /\ Act(db, Append(s, e)) = new.active
  BY DEF Dur, Pen, Act
<1>4. new = ReplayEntry(acc, e, 0)
  BY <1>1
<1> HIDE DEF acc, new
<1> QED
  BY <1>1, <1>2, <1>3, <1>4, ReplayEffect

LEMMA ViewType ==
    ASSUME NEW db \in Dbs, NEW s \in Seq(Entry)
    PROVE  Dur(db, s) \in Maps /\ Pen(db, s) \in Maps
<1>1. Acc(db, s).durable \in Dbs /\ Acc(db, s).pending \in Dbs
  BY AccType DEF Accs
<1> QED
  BY <1>1, Constants DEF Dur, Pen, Dbs
-----------------------------------------------------------------------------
(***************************************************************************)
(* Replaying the same log over another database: where the log determines  *)
(* a key both agree, elsewhere each keeps what it started from.            *)
(***************************************************************************)
Agree(m, n, x, y) == \A k \in Keys : m[k] = n[k] \/ (m[k] = x[k] /\ n[k] = y[k])

LEMMA AgreeUpdated ==
    ASSUME NEW m \in Maps, NEW n \in Maps, NEW x, NEW y, Agree(m, n, x, y), NEW e \in Entry
    PROVE  Agree(Updated(m, e), Updated(n, e), x, y)
BY DEF Agree, Updated, Put, Maps

LEMMA ReplaysAgree ==
    ASSUME NEW db \in Dbs, NEW other \in Dbs, NEW s \in Seq(Entry)
    PROVE  LET x == db.docs[Collection]
               y == other.docs[Collection]
           IN  /\ Act(db, s) = Act(other, s)
               /\ Agree(Dur(db, s), Dur(other, s), x, y)
               /\ Agree(Pen(db, s), Pen(other, s), x, y)
<1> DEFINE x == db.docs[Collection]
           y == other.docs[Collection]
           Ok(u) == /\ Act(db, u) = Act(other, u)
                    /\ Agree(Dur(db, u), Dur(other, u), x, y)
                    /\ Agree(Pen(db, u), Pen(other, u), x, y)
           T == {u \in Seq(Entry) : Ok(u)}
<1> HIDE DEF x, y
<1>1. <<>> \in T
  BY AccStart, EmptySeq DEF Agree, x, y
<1>2. ASSUME NEW u \in Seq(Entry), NEW e \in Entry, u \in T PROVE Append(u, e) \in T
  <2>1. Ok(u) /\ Append(u, e) \in Seq(Entry)
    BY <1>2
  <2>2. Dur(db, u) \in Maps /\ Pen(db, u) \in Maps /\ Dur(other, u) \in Maps /\ Pen(other, u) \in Maps
    BY ViewType
  <2>3. /\ Agree(Updated(Dur(db, u), e), Updated(Dur(other, u), e), x, y)
        /\ Agree(Updated(Pen(db, u), e), Updated(Pen(other, u), e), x, y)
    BY <2>1, <2>2, AgreeUpdated
  <2>4. Ok(Append(u, e))
    <3>1. CASE e.cmd = "TX_BEGIN"
      BY <2>1, <3>1, AccStep
    <3>2. CASE e.cmd = "TX_COMMIT"
      BY <2>1, <3>2, AccStep
    <3>3. CASE e.cmd \notin {"TX_BEGIN", "TX_COMMIT"}
      BY <2>1, <2>3, <3>3, AccStep
    <3> QED
      BY <3>1, <3>2, <3>3
  <2> QED
    BY <2>1, <2>4
<1> HIDE DEF T
<1>3. \A u \in Seq(Entry) : u \in T
  BY <1>1, <1>2, Replaying!SeqSetInduction
<1> QED
  BY <1>3 DEF T, x, y

(* Replaying a log over the state it leads to changes nothing. *)
LEMMA ReplayAgain ==
    ASSUME NEW db \in Dbs, NEW other \in Dbs, NEW s \in Seq(Entry),
           Dur(db, s) = other.docs[Collection]
    PROVE  Dur(other, s) = other.docs[Collection]
<1> DEFINE y == other.docs[Collection]
<1>1. Agree(Dur(db, s), Dur(other, s), db.docs[Collection], y)
  BY ReplaysAgree
<1>2. Dur(other, s) \in Maps /\ y \in Maps
  BY ViewType, Constants DEF Dbs
<1>3. \A k \in Keys : Dur(other, s)[k] = y[k]
  BY <1>1 DEF Agree
<1> QED
  BY <1>2, <1>3 DEF Maps
-----------------------------------------------------------------------------
(***************************************************************************)
(* Loading a snapshot.                                                     *)
(***************************************************************************)
Loaded(s) == Loading!Fold(0, EmptyDb, s)

LEMMA LoadedSteps ==
    /\ Loaded(<<>>) = EmptyDb
    /\ \A s \in Seq(Entry), e \in Entry : Loaded(Append(s, e)) = ApplyEntry(Loaded(s), e, 0)
BY Loading!FoldEmpty, Loading!FoldAppend DEF Loaded, LoadOp

LEMMA LoadedType ==
    ASSUME NEW s \in Seq(Entry)
    PROVE  Loaded(s) \in Dbs
<1> DEFINE T == {u \in Seq(Entry) : Loaded(u) \in Dbs}
<1>1. <<>> \in T
  BY LoadedSteps, EmptyDbShape, EmptySeq
<1>2. ASSUME NEW u \in Seq(Entry), NEW e \in Entry, u \in T PROVE Append(u, e) \in T
  BY <1>2, LoadedSteps, ApplyEffect
<1> HIDE DEF T
<1>3. \A u \in Seq(Entry) : u \in T
  BY <1>1, <1>2, Loading!SeqSetInduction
<1> QED
  BY <1>3 DEF T

FileOK(f) == f = NoFile \/ f \in Snapshots

LEMMA LoadSnapshotIs ==
    ASSUME NEW f
    PROVE  LoadSnapshot(f) = IF f = NoFile THEN EmptyDb
                             ELSE Loaded(SubSeq(f.body, 1, Min({f.count, Len(f.body)})))
BY DEF LoadSnapshot, Loaded, Loading!Fold, LoadOp, FoldLeft, MapThenFoldSet, Max,
       Loading!FoldLeft, Loading!MapThenFoldSet, Loading!Max

LEMMA LoadSnapshotType ==
    ASSUME NEW f, FileOK(f)
    PROVE  LoadSnapshot(f) \in Dbs
<1>1. CASE f = NoFile
  BY <1>1, LoadSnapshotIs, EmptyDbShape
<1>2. CASE f # NoFile
  <2> DEFINE n == f.count
             s == f.body
             m == Min({n, Len(s)})
  <2>1. n \in Nat /\ s \in Seq(Entry) /\ Len(s) \in Nat
    BY <1>2 DEF FileOK, Snapshots
  <2>2. m \in {n, Len(s)} /\ m <= Len(s)
    <3> HIDE DEF n, s
    <3>1. \E i \in {n, Len(s)} : \A j \in {n, Len(s)} : i <= j
      <4>1. CASE n <= Len(s)
        BY <2>1, <4>1
      <4>2. CASE Len(s) <= n
        BY <2>1, <4>2
      <4> QED
        BY <2>1, <4>1, <4>2
    <3>2. m \in {n, Len(s)} /\ \A j \in {n, Len(s)} : m <= j
      BY <3>1, Zenon DEF Min
    <3> QED
      BY <3>2
  <2> HIDE DEF m
  <2>3. SubSeq(s, 1, m) \in Seq(Entry)
    <3>1. m \in Nat /\ \A i \in 1 .. m : i \in 1 .. Len(s) /\ s[i] \in Entry
      <4> HIDE DEF n, s
      <4> QED
        BY <2>1, <2>2
    <3> QED
      BY <2>1, <3>1
  <2> QED
    BY <1>2, <2>3, LoadSnapshotIs, LoadedType DEF m
<1> QED
  BY <1>1, <1>2

(* A header that announces the entries that are there. *)
LEMMA LoadSnapshotWhole ==
    ASSUME NEW s \in Seq(Entry), NEW n \in Nat, n = Len(s)
    PROVE  LET f == [count |-> n, body |-> s]
           IN  f \in Snapshots /\ f # NoFile /\ LoadSnapshot(f) = Loaded(s)
<1> DEFINE f == [count |-> n, body |-> s]
<1>1. f \in Snapshots /\ f.count = n /\ f.body = s
  BY DEF Snapshots
<1> HIDE DEF f
<1>2. f # NoFile
  BY <1>1, Constants
<1>3. Min({n, Len(s)}) = n
  <2>1. \E i \in {n} : \A j \in {n} : i <= j
    OBVIOUS
  <2>2. Min({n}) \in {n}
    BY <2>1, Zenon DEF Min
  <2>3. {n, Len(s)} = {n}
    OBVIOUS
  <2> QED
    BY <2>2, <2>3
<1>4. SubSeq(s, 1, n) = s
  OBVIOUS
<1>5. LoadSnapshot(f) = Loaded(s)
  BY <1>1, <1>2, <1>3, <1>4, LoadSnapshotIs
<1> QED
  BY <1>1, <1>2, <1>5 DEF f

LEMMA RebuildIs ==
    ASSUME NEW f, NEW s
    PROVE  Rebuild(f, s) = Dur(LoadSnapshot(f), s)
BY DEF Rebuild, Dur, Acc, Replaying!Fold, ReplayOp, FoldLeft, MapThenFoldSet, Max,
       Replaying!FoldLeft, Replaying!MapThenFoldSet, Replaying!Max
-----------------------------------------------------------------------------
(***************************************************************************)
(* The shape of the state.                                                 *)
(***************************************************************************)
Plain == {e \in Entry : e.cmd # "COMPACT"}
Messages == Plain \cup {Compact}

Requests == [at : {"idle", "begun", "applied"}, key : Keys \cup {NoDoc}, body : Values]
RequestOK(r) == r \in Requests /\ (r.at # "idle" => r.key \in Keys)
Scans == [count : Nat, body : Seq(Plain), left : SUBSET Keys]
Counters == [writes : Nat, compactions : Nat, restarts : Nat, faults : Nat]

ErrorNames == {"write", "swap", "reopen", "snapshot"}
Stages == {"idle", "scan", "install", "swap", "wait"}

ClientOK == mem \in Maps /\ past \subseteq Maps /\ acked \in past /\ RequestOK(request)
FilesOK == FileOK(snapshot) /\ FileOK(backup) /\ log \in Seq(Plain)
WriterOK ==
    /\ queue \in Seq(Messages) /\ buf \in Seq(Plain)
    /\ task \in {"running", "ending", "ended"} /\ (io_fault => task # "running")
    /\ mode = "sync" => queue = <<>> /\ task = "running" /\ (buf # <<>> => "write" \in errors)

TypeInv ==
    /\ mode \in Modes /\ ClientOK /\ FilesOK /\ WriterOK
    /\ stage \in Stages /\ scan \in Scans
    /\ errors \subseteq ErrorNames /\ spent \in Counters

LEMMA MessageShapes ==
    /\ Compact \in Entry /\ Compact.cmd = "COMPACT" /\ Compact \notin Plain
    /\ Plain \subseteq Entry /\ Messages \subseteq Entry
<1>1. Compact \in Entry /\ Compact.cmd = "COMPACT"
  BY Constants DEF Compact, LogEntry, Null, Entry
<1> QED
  BY <1>1 DEF Plain, Messages

LEMMA BeginShape ==
    LET e == TxBegin(Collection, Tx) IN e \in Plain /\ e.cmd = "TX_BEGIN" /\ e.key = Tx
<1> DEFINE e == TxBegin(Collection, Tx)
<1>1. e \in Entry /\ e.cmd = "TX_BEGIN" /\ e.key = Tx
  BY Constants DEF TxBegin, LogEntry, Null, Entry
<1> HIDE DEF e
<1>2. e \in Plain
  BY <1>1 DEF Plain
<1> QED
  BY <1>1, <1>2 DEF e

LEMMA CommitShape ==
    LET e == TxCommit(Collection, Tx) IN e \in Plain /\ e.cmd = "TX_COMMIT" /\ e.key = Tx
<1> DEFINE e == TxCommit(Collection, Tx)
<1>1. e \in Entry /\ e.cmd = "TX_COMMIT" /\ e.key = Tx
  BY Constants DEF TxCommit, LogEntry, Null, Entry
<1> HIDE DEF e
<1>2. e \in Plain
  BY <1>1 DEF Plain
<1> QED
  BY <1>1, <1>2 DEF e

LEMMA InsertShape ==
    ASSUME NEW k \in Keys, NEW v \in Values
    PROVE  LET e == InsertEntry(Collection, k, v)
           IN  /\ e \in Plain /\ e.cmd \notin {"TX_BEGIN", "TX_COMMIT"}
               /\ \A m : Updated(m, e) = Put(m, k, v)
<1> DEFINE e == InsertEntry(Collection, k, v)
<1>1. e \in Entry /\ e.cmd = "INSERT" /\ e.collection = Collection /\ e.key = k /\ e.value = v
  BY Constants DEF InsertEntry, LogEntry, Entry, Values
<1> HIDE DEF e
<1>2. e \in Plain /\ \A m : Updated(m, e) = Put(m, k, v)
  BY <1>1 DEF Plain, Updated
<1> QED
  BY <1>1, <1>2 DEF e

LEMMA DeleteShape ==
    ASSUME NEW k \in Keys
    PROVE  LET e == DeleteEntry(Collection, k)
           IN  /\ e \in Plain /\ e.cmd \notin {"TX_BEGIN", "TX_COMMIT"}
               /\ \A m : Updated(m, e) = Put(m, k, NoDoc)
<1> DEFINE e == DeleteEntry(Collection, k)
<1>1. e \in Entry /\ e.cmd = "DELETE" /\ e.collection = Collection /\ e.key = k
  BY Constants DEF DeleteEntry, LogEntry, Null, Entry
<1> HIDE DEF e
<1>2. e \in Plain /\ \A m : Updated(m, e) = Put(m, k, NoDoc)
  BY <1>1 DEF Plain, Updated
<1> QED
  BY <1>1, <1>2 DEF e

(* What a request logs. *)
LEMMA EntryShape ==
    ASSUME NEW r, RequestOK(r)
    PROVE  /\ EntryOf(r) \in Plain
           /\ r.at = "begun" => /\ EntryOf(r).cmd \notin {"TX_BEGIN", "TX_COMMIT"}
                                /\ \A m : Updated(m, EntryOf(r)) = Put(m, r.key, r.body)
           /\ r.at = "applied" => EntryOf(r).cmd = "TX_COMMIT" /\ EntryOf(r).key = Tx
<1>0. r.at \in {"idle", "begun", "applied"} /\ r.body \in Values /\ (r.at # "idle" => r.key \in Keys)
  BY DEF RequestOK, Requests
<1>1. CASE r.at = "idle"
  <2>1. EntryOf(r) = TxBegin(Collection, Tx)
    BY <1>1 DEF EntryOf
  <2> QED
    BY <1>1, <2>1, BeginShape
<1>2. CASE r.at = "begun"
  <2>1. EntryOf(r) = IF r.body = NoDoc THEN DeleteEntry(Collection, r.key)
                                       ELSE InsertEntry(Collection, r.key, r.body)
    BY <1>2 DEF EntryOf
  <2>2. CASE r.body = NoDoc
    BY <1>0, <1>2, <2>1, <2>2, DeleteShape
  <2>3. CASE r.body # NoDoc
    BY <1>0, <1>2, <2>1, <2>3, InsertShape
  <2> QED
    BY <2>2, <2>3
<1>3. CASE r.at = "applied"
  <2>1. EntryOf(r) = TxCommit(Collection, Tx)
    BY <1>3 DEF EntryOf
  <2> QED
    BY <1>3, <2>1, CommitShape
<1> QED
  BY <1>0, <1>1, <1>2, <1>3

LEMMA RequestMade ==
    ASSUME NEW k \in Keys, NEW b \in Values
    PROVE  LET r == [at |-> "begun", key |-> k, body |-> b]
           IN  RequestOK(r) /\ r.at = "begun" /\ r.key = k /\ r.body = b
BY DEF RequestOK, Requests

LEMMA RequestApplied ==
    ASSUME NEW r, RequestOK(r), r.at # "idle"
    PROVE  LET s == [r EXCEPT !.at = "applied"]
           IN  RequestOK(s) /\ s.at = "applied" /\ s.key = r.key /\ s.body = r.body
BY DEF RequestOK, Requests

LEMMA IdleShape ==
    RequestOK(NoRequest) /\ NoRequest.at = "idle" /\ NoScan \in Scans
<1>1. <<>> \in Seq(Plain)
  BY EmptySeq
<1> QED
  BY <1>1 DEF RequestOK, Requests, NoRequest, NoScan, Scans, Values

LEMMA CountersMove ==
    ASSUME spent \in Counters, NEW what, what \in {"writes", "compactions", "restarts", "faults"},
           Spend(what)
    PROVE  /\ spent' \in Counters
           /\ what # "restarts" => spent'.restarts = spent.restarts
           /\ what = "restarts" => spent'.restarts # spent.restarts
BY DEF Counters, Spend

LEMMA FaultShape ==
    ASSUME spent \in Counters, errors \subseteq ErrorNames, NEW what \in ErrorNames, Fault(what)
    PROVE  /\ spent' \in Counters /\ spent'.restarts = spent.restarts
           /\ errors' \subseteq ErrorNames /\ what \in errors' /\ errors \subseteq errors'
<1>1. spent' \in Counters /\ spent'.restarts = spent.restarts
  BY CountersMove DEF Fault
<1> QED
  BY <1>1 DEF Fault

LEMMA SeqFacts ==
    ASSUME NEW S
    PROVE  /\ <<>> \in Seq(S)
           /\ \A s \in Seq(S), t \in Seq(S) : s \o t \in Seq(S)
           /\ \A s \in Seq(S), e \in S : Append(s, e) \in Seq(S)
           /\ \A s \in Seq(S) : s # <<>> => Head(s) \in S /\ Tail(s) \in Seq(S)
BY EmptySeq

LEMMA WriteShape ==
    ASSUME TypeInv, NEW e \in Plain, WriteEntry(e), UNCHANGED <<mode, task, io_fault, errors, snapshot, backup>>
    PROVE  WriterOK' /\ FilesOK'
<1>0. log \in Seq(Plain) /\ buf \in Seq(Plain) /\ queue \in Seq(Messages) /\ e \in Messages
  BY DEF TypeInv, FilesOK, WriterOK, Messages
<1>1. CASE mode = "sync"
  <2> DEFINE t == log \o buf
             u == Append(t, e)
  <2>a. t \in Seq(Plain)
    BY <1>0, SeqFacts
  <2> HIDE DEF t
  <2>b. u \in Seq(Plain)
    BY <2>a, SeqFacts
  <2> HIDE DEF u
  <2>c. (log' = IF detached THEN log ELSE u) /\ buf' = <<>> /\ queue' = queue
    BY <1>1 DEF WriteEntry, t, u
  <2>1. log' \in Seq(Plain) /\ buf' = <<>> /\ queue' = queue
    BY <1>0, <2>b, <2>c
  <2> QED
    BY <1>0, <1>1, <2>1, SeqFacts DEF TypeInv, WriterOK, FilesOK, FileOK
<1>2. CASE mode # "sync"
  <2>1. log' = log /\ buf' = buf /\ queue' = Append(queue, e)
    BY <1>2 DEF WriteEntry
  <2>2. queue' \in Seq(Messages)
    BY <1>0, <2>1, SeqFacts
  <2> QED
    BY <1>0, <1>2, <2>1, <2>2 DEF TypeInv, WriterOK, FilesOK, FileOK
<1> QED
  BY <1>1, <1>2

LEMMA AbandonShape ==
    ASSUME TypeInv, Abandon, UNCHANGED <<acked, past>>
    PROVE  ClientOK'
<1>1. mem \in Maps /\ RequestOK(request)
  BY DEF TypeInv, ClientOK
<1>2. mem' \in Maps
  <2>1. request.body \in Values
    BY <1>1 DEF RequestOK, Requests
  <2> QED
    BY <1>1, <2>1 DEF Abandon, Maps
<1> QED
  BY <1>2, IdleShape DEF TypeInv, ClientOK, Abandon

LEMMA RestartShape ==
    ASSUME TypeInv, NEW s \in Seq(Plain), Restart(s)
    PROVE  TypeInv' /\ spent'.restarts # spent.restarts /\ mem' = Rebuild(snapshot, s)
<1>1. s \in Seq(Entry) /\ LoadSnapshot(snapshot) \in Dbs
  <2>1. s \in Seq(Entry)
    BY MessageShapes
  <2> QED
    BY <2>1, LoadSnapshotType DEF TypeInv, FilesOK
<1>2. Rebuild(snapshot, s) \in Maps
  BY <1>1, ViewType, RebuildIs
<1>3. mem' = Rebuild(snapshot, s) /\ acked' = mem' /\ past' = {mem'} /\ request' = NoRequest
  BY DEF Restart
<1>4. ClientOK'
  BY <1>2, <1>3, IdleShape DEF ClientOK
<1>5. FilesOK' /\ WriterOK'
  BY SeqFacts DEF Restart, TypeInv, FilesOK, FileOK, WriterOK
<1>6. spent' \in Counters /\ spent'.restarts # spent.restarts
  BY CountersMove DEF Restart, TypeInv
<1>7. mode' \in Modes /\ stage' \in Stages /\ scan' \in Scans /\ errors' \subseteq ErrorNames
  BY IdleShape DEF Restart, TypeInv, Stages
<1> QED
  BY <1>3, <1>4, <1>5, <1>6, <1>7 DEF TypeInv

LEMMA TypeInit == Init => TypeInv
<1> SUFFICES ASSUME Init PROVE TypeInv
  OBVIOUS
<1>1. NoDocs \in Maps
  BY DEF NoDocs, Maps, Values
<1>2. ClientOK
  BY <1>1, IdleShape DEF Init, ClientOK
<1>3. FilesOK /\ WriterOK
  BY SeqFacts DEF Init, FilesOK, FileOK, WriterOK
<1>4. spent \in Counters /\ scan \in Scans /\ stage \in Stages
  BY IdleShape DEF Init, Counters, Stages
<1> QED
  BY <1>2, <1>3, <1>4 DEF Init, TypeInv

(* The three parts of the state, left alone. *)
LEMMA ClientSame ==
    ASSUME ClientOK, UNCHANGED <<mem, request, acked, past>>
    PROVE  ClientOK'
BY DEF ClientOK

LEMMA FilesSame ==
    ASSUME FilesOK, UNCHANGED files
    PROVE  FilesOK'
BY DEF FilesOK, files

LEMMA WriterSame ==
    ASSUME WriterOK, UNCHANGED <<mode, queue, buf, task, io_fault>>, errors \subseteq errors'
    PROVE  WriterOK'
BY DEF WriterOK

LEMMA TypeRequest ==
    ASSUME TypeInv, \/ \E k \in Keys, b \in Values : Begin(k, b)
                    \/ Request \/ SyncWriteFails
    PROVE  TypeInv'
<1>0. /\ ClientOK /\ FilesOK /\ WriterOK /\ RequestOK(request) /\ mem \in Maps
      /\ request.body \in Values /\ spent \in Counters /\ errors \subseteq ErrorNames
      /\ (request.at # "idle" => request.key \in Keys) /\ past \subseteq Maps /\ acked \in Maps
  BY DEF TypeInv, ClientOK, RequestOK, Requests
<1>1. ASSUME NEW k \in Keys, NEW b \in Values, Begin(k, b) PROVE TypeInv'
  <2>1. WriterOK' /\ FilesOK'
    BY <1>1, WriteShape, BeginShape DEF Begin
  <2>2. RequestOK(request')
    BY <1>1, RequestMade DEF Begin
  <2>3. spent' \in Counters
    BY <1>0, <1>1, CountersMove DEF Begin
  <2>4. ClientOK'
    BY <1>0, <1>1, <2>2 DEF Begin, ClientOK
  <2> QED
    BY <1>1, <2>1, <2>3, <2>4 DEF Begin, TypeInv, compaction
<1>2. CASE Apply
  <2>1. WriterOK' /\ FilesOK'
    BY <1>0, <1>2, WriteShape, EntryShape DEF Apply
  <2>2. RequestOK(request')
    BY <1>0, <1>2, RequestApplied DEF Apply
  <2>3. mem' \in Maps
    BY <1>0, <1>2 DEF Apply, Maps
  <2>4. ClientOK'
    BY <1>0, <1>2, <2>2, <2>3 DEF Apply, ClientOK
  <2> QED
    BY <1>2, <2>1, <2>4 DEF Apply, TypeInv, compaction
<1>3. CASE Commit
  <2>1. WriterOK' /\ FilesOK'
    BY <1>0, <1>3, WriteShape, EntryShape DEF Commit
  <2>2. acked' \in Maps
    BY <1>0, <1>3 DEF Commit, Maps
  <2>3. past' = past \cup {acked'} /\ request' = NoRequest /\ mem' = mem
    BY <1>3 DEF Commit
  <2>4. ClientOK'
    BY <1>0, <2>2, <2>3, IdleShape DEF ClientOK
  <2> QED
    BY <1>3, <2>1, <2>4 DEF Commit, TypeInv, compaction
<1>4. CASE RequestFails
  <2>1. ClientOK'
    BY <1>4, AbandonShape DEF RequestFails
  <2>2. FilesOK' /\ WriterOK'
    BY <1>0, <1>4, FilesSame, WriterSame DEF RequestFails, writer
  <2> QED
    BY <1>4, <2>1, <2>2 DEF RequestFails, TypeInv, compaction
<1>5. CASE SyncWriteFails
  <2>1. ClientOK'
    BY <1>5, AbandonShape DEF SyncWriteFails
  <2>2. spent' \in Counters /\ errors' \subseteq ErrorNames /\ "write" \in errors'
    BY <1>0, <1>5, FaultShape DEF SyncWriteFails, ErrorNames
  <2>3. FilesOK'
    BY <1>0, <1>5, FilesSame DEF SyncWriteFails
  <2>4. buf' \in Seq(Plain)
    BY <1>0, <1>5, EntryShape, SeqFacts DEF SyncWriteFails, WriterOK
  <2>5. WriterOK'
    BY <1>0, <1>5, <2>2, <2>4 DEF SyncWriteFails, WriterOK
  <2> QED
    BY <1>5, <2>1, <2>2, <2>3, <2>5 DEF SyncWriteFails, TypeInv, compaction
<1> QED
  BY <1>1, <1>2, <1>3, <1>4, <1>5 DEF Request

LEMMA TypeTask ==
    ASSUME TypeInv, Task \/ TaskWriteFails \/ TaskReopenFails
    PROVE  TypeInv'
<1>0. /\ ClientOK /\ FilesOK /\ WriterOK /\ spent \in Counters /\ errors \subseteq ErrorNames
      /\ queue \in Seq(Messages) /\ buf \in Seq(Plain) /\ log \in Seq(Plain)
      /\ <<>> \in Seq(Plain) /\ <<>> \in Seq(Messages) /\ log \o buf \in Seq(Plain)
  BY SeqFacts DEF TypeInv, FilesOK, WriterOK
<1>1. CASE TaskReceive
  <2>1. Head(queue) \in Messages /\ Tail(queue) \in Seq(Messages)
    BY <1>0, <1>1, SeqFacts DEF TaskReceive
  <2>2. Head(queue) \in Plain
    BY <1>1, <2>1 DEF TaskReceive, Messages
  <2>3. buf' \in Seq(Plain) /\ queue' \in Seq(Messages)
    BY <1>0, <1>1, <2>1, <2>2, SeqFacts DEF TaskReceive
  <2>4. mode # "sync"
    BY <1>0, <1>1 DEF TaskReceive, WriterOK
  <2>5. WriterOK'
    BY <1>0, <1>1, <2>3, <2>4 DEF TaskReceive, WriterOK
  <2>6. ClientOK' /\ FilesOK'
    BY <1>0, <1>1, ClientSame, FilesSame DEF TaskReceive
  <2> QED
    BY <1>1, <2>5, <2>6 DEF TaskReceive, TypeInv, compaction
<1>2. CASE TaskFlush
  <2>1. FilesOK' /\ WriterOK'
    BY <1>0, <1>2 DEF TaskFlush, FilesOK, WriterOK
  <2>2. ClientOK'
    BY <1>0, <1>2, ClientSame DEF TaskFlush
  <2> QED
    BY <1>2, <2>1, <2>2 DEF TaskFlush, TypeInv, compaction
<1>3. CASE TaskEnds
  <2>1. FilesOK' /\ WriterOK'
    BY <1>0, <1>3 DEF TaskEnds, FilesOK, WriterOK
  <2>2. ClientOK'
    BY <1>0, <1>3, ClientSame DEF TaskEnds
  <2> QED
    BY <1>3, <2>1, <2>2 DEF TaskEnds, TypeInv, compaction
<1>4. CASE TaskSwaps
  <2>1. Tail(queue) \in Seq(Messages) /\ mode # "sync"
    BY <1>0, <1>4, SeqFacts DEF TaskSwaps, WriterOK
  <2>2. spent' \in Counters /\ errors' \subseteq ErrorNames
    BY <1>0, <1>4, FaultShape DEF TaskSwaps, ErrorNames
  <2>3. log' \in Seq(Plain)
    BY <1>0, <1>4 DEF TaskSwaps
  <2>4. FilesOK' /\ WriterOK'
    BY <1>0, <1>4, <2>1, <2>3 DEF TaskSwaps, FilesOK, WriterOK
  <2>5. ClientOK'
    BY <1>0, <1>4, ClientSame DEF TaskSwaps
  <2> QED
    BY <1>4, <2>2, <2>4, <2>5 DEF TaskSwaps, TypeInv, Stages
<1>5. CASE TaskWriteFails
  <2>1. spent' \in Counters /\ errors' \subseteq ErrorNames
    BY <1>0, <1>5, FaultShape DEF TaskWriteFails, ErrorNames
  <2>2. WriterOK'
    BY <1>0, <1>5 DEF TaskWriteFails, WriterOK
  <2>3. ClientOK' /\ FilesOK'
    BY <1>0, <1>5, ClientSame, FilesSame DEF TaskWriteFails
  <2> QED
    BY <1>5, <2>1, <2>2, <2>3 DEF TaskWriteFails, TypeInv, compaction
<1>6. CASE TaskReopenFails
  <2>1. spent' \in Counters /\ errors' \subseteq ErrorNames
    BY <1>0, <1>6, FaultShape DEF TaskReopenFails, ErrorNames
  <2>2. mode # "sync"
    BY <1>0, <1>6 DEF TaskReopenFails, WriterOK
  <2>3. FilesOK' /\ WriterOK'
    BY <1>0, <1>6, <2>2 DEF TaskReopenFails, FilesOK, WriterOK
  <2>4. ClientOK'
    BY <1>0, <1>6, ClientSame DEF TaskReopenFails
  <2> QED
    BY <1>6, <2>1, <2>3, <2>4 DEF TaskReopenFails, TypeInv, compaction
<1> QED
  BY <1>1, <1>2, <1>3, <1>4, <1>5, <1>6 DEF Task

LEMMA ScanBegun ==
    ASSUME NEW n \in Nat
    PROVE  LET new == [count |-> n, body |-> <<>>, left |-> Keys]
           IN  new \in Scans /\ new.left = Keys /\ new.body = <<>> /\ new.count = n
<1>1. <<>> \in Seq(Plain)
  BY EmptySeq
<1> QED
  BY <1>1 DEF Scans

LEMMA PresentFinite ==
    ASSUME NEW S \in SUBSET Keys, NEW m
    PROVE  /\ IsFiniteSet({k \in S : m[k] # NoDoc})
           /\ Cardinality({k \in S : m[k] # NoDoc}) \in Nat
<1>1. {k \in S : m[k] # NoDoc} \subseteq Keys
  OBVIOUS
<1> QED
  BY <1>1, Constants, FS_Subset, FS_CardinalityType

(* The scan after a visit. *)
VisitBody(k) ==
    IF mem[k] = NoDoc THEN scan.body ELSE Append(scan.body, InsertEntry(Collection, k, mem[k]))

LEMMA VisitShape ==
    ASSUME TypeInv, NEW k \in Keys, CompactVisit(k)
    PROVE  /\ scan' \in Scans /\ scan'.left = scan.left \ {k} /\ scan'.count = scan.count
           /\ scan'.body = VisitBody(k)
<1>1. scan \in Scans /\ mem \in Maps
  BY DEF TypeInv, ClientOK
<1>2. scan.body \in Seq(Plain) /\ mem[k] \in Values
  BY <1>1 DEF Scans, Maps
<1> DEFINE e == InsertEntry(Collection, k, mem[k])
           u == Append(scan.body, e)
<1>3. e \in Plain
  BY <1>2, InsertShape
<1> HIDE DEF e
<1>4. u \in Seq(Plain)
  BY <1>2, <1>3, SeqFacts
<1> HIDE DEF u
<1>5. VisitBody(k) \in Seq(Plain)
  BY <1>2, <1>4 DEF VisitBody, u, e
<1>6. scan' = [scan EXCEPT !.left = @ \ {k}, !.body = VisitBody(k)]
  BY DEF CompactVisit, VisitBody
<1> HIDE DEF VisitBody
<1> QED
  BY <1>1, <1>5, <1>6 DEF Scans

LEMMA TypeCompaction ==
    ASSUME TypeInv, Compactor \/ CompactBegin \/ SnapshotFails
    PROVE  TypeInv'
<1>0. /\ ClientOK /\ FilesOK /\ WriterOK /\ spent \in Counters /\ errors \subseteq ErrorNames
      /\ queue \in Seq(Messages) /\ buf \in Seq(Plain) /\ log \in Seq(Plain)
      /\ <<>> \in Seq(Plain) /\ <<>> \in Seq(Messages) /\ scan \in Scans
      /\ mode \in {"sync", "async"}
  BY SeqFacts, Constants DEF TypeInv, FilesOK, WriterOK
<1>1. ASSUME NEW k \in Keys, CompactVisit(k) PROVE TypeInv'
  <2>1. scan' \in Scans
    BY <1>1, VisitShape
  <2>2. ClientOK' /\ FilesOK' /\ WriterOK'
    BY <1>0, <1>1, ClientSame, FilesSame, WriterSame DEF CompactVisit, writer
  <2> QED
    BY <1>1, <2>1, <2>2 DEF CompactVisit, TypeInv
<1>2. CASE SnapshotBackup
  <2>1. ClientOK' /\ WriterOK'
    BY <1>0, <1>2, ClientSame, WriterSame DEF SnapshotBackup, writer
  <2>2. FilesOK'
    BY <1>0, <1>2 DEF SnapshotBackup, FilesOK, FileOK
  <2> QED
    BY <1>2, <2>1, <2>2 DEF SnapshotBackup, TypeInv, Stages
<1>3. CASE SnapshotInstall
  <2>1. ClientOK' /\ WriterOK'
    BY <1>0, <1>3, ClientSame, WriterSame DEF SnapshotInstall, writer
  <2>2. scan.count \in Nat /\ scan.body \in Seq(Entry)
    <3>1. scan.count \in Nat /\ scan.body \in Seq(Plain)
      BY <1>0 DEF Scans
    <3> QED
      BY <3>1, MessageShapes
  <2>3. snapshot' \in Snapshots
    BY <1>3, <2>2 DEF SnapshotInstall, Snapshots
  <2>4. FilesOK'
    BY <1>0, <1>3, <2>3 DEF SnapshotInstall, FilesOK, FileOK
  <2> QED
    BY <1>3, <2>1, <2>4, IdleShape DEF SnapshotInstall, TypeInv, Stages
<1>4. CASE SwapLog
  <2>1. spent' \in Counters /\ errors' \subseteq ErrorNames /\ errors \subseteq errors'
    BY <1>0, <1>4, FaultShape DEF SwapLog, ErrorNames
  <2>2. log' \in {log, <<>>} /\ buf' \in {buf, <<>>}
    BY <1>4 DEF SwapLog
  <2>3. log' \in Seq(Plain) /\ buf' \in Seq(Plain)
    BY <1>0, <2>2
  <2>4. FilesOK' /\ WriterOK'
    BY <1>0, <1>4, <2>1, <2>2, <2>3 DEF SwapLog, FilesOK, WriterOK
  <2>5. ClientOK'
    BY <1>0, <1>4, ClientSame DEF SwapLog
  <2> QED
    BY <1>4, <2>1, <2>4, <2>5 DEF SwapLog, TypeInv, Stages
<1>5. CASE SwapSend
  <2>1. queue' \in Seq(Messages)
    BY <1>0, <1>5, SeqFacts DEF SwapSend, Messages
  <2>2. ClientOK' /\ FilesOK'
    BY <1>0, <1>5, ClientSame, FilesSame DEF SwapSend
  <2>3. WriterOK'
    BY <1>0, <1>5, <2>1 DEF SwapSend, WriterOK
  <2> QED
    BY <1>5, <2>2, <2>3 DEF SwapSend, TypeInv, Stages
<1>6. CASE SwapRefused
  <2>1. ClientOK' /\ FilesOK' /\ WriterOK'
    BY <1>0, <1>6, ClientSame, FilesSame, WriterSame DEF SwapRefused, writer
  <2> QED
    BY <1>6, <2>1 DEF SwapRefused, TypeInv, Stages, ErrorNames
<1>7. CASE CompactBegin
  <2>1. ClientOK' /\ FilesOK' /\ WriterOK'
    BY <1>0, <1>7, ClientSame, FilesSame, WriterSame DEF CompactBegin, writer
  <2>2. Cardinality(Present) \in Nat
    BY PresentFinite DEF Present
  <2>3. scan' \in Scans
    BY <1>7, <2>2, ScanBegun DEF CompactBegin
  <2>4. spent' \in Counters
    BY <1>0, <1>7, CountersMove DEF CompactBegin
  <2> QED
    BY <1>7, <2>1, <2>3, <2>4 DEF CompactBegin, TypeInv, Stages
<1>8. CASE SnapshotFails
  <2>1. spent' \in Counters /\ errors' \subseteq ErrorNames /\ errors \subseteq errors'
    BY <1>0, <1>8, FaultShape DEF SnapshotFails, ErrorNames
  <2>2. ClientOK' /\ FilesOK' /\ WriterOK'
    BY <1>0, <1>8, <2>1, ClientSame, FilesSame, WriterSame DEF SnapshotFails, writer
  <2> QED
    BY <1>8, <2>1, <2>2, IdleShape DEF SnapshotFails, TypeInv, Stages
<1> QED
  BY <1>1, <1>2, <1>3, <1>4, <1>5, <1>6, <1>7, <1>8 DEF Compactor

(* What a start reads is a log that was written: no message of the channel. *)
LEMMA RestartTypes ==
    ASSUME TypeInv, Crash \/ Shutdown
    PROVE  /\ TypeInv' /\ spent'.restarts # spent.restarts
           /\ \E s \in {log, log \o buf} :
                 /\ mem' = Rebuild(snapshot, s) /\ Restart(s)
                 /\ s = log \/ (Shutdown /\ task = "running")
<1>1. log \in Seq(Plain) /\ buf \in Seq(Plain)
  BY DEF TypeInv, FilesOK, WriterOK
<1> DEFINE t == log \o buf
<1>2. t \in Seq(Plain)
  BY <1>1, SeqFacts
<1> HIDE DEF t
<1>3. PICK s \in {log, t} : Restart(s) /\ (s = log \/ (Shutdown /\ task = "running"))
  BY DEF Crash, Shutdown, t
<1>4. s \in Seq(Plain)
  BY <1>1, <1>2
<1> QED
  BY <1>3, <1>4, RestartShape DEF t

LEMMA TypeStep == TypeInv /\ [Next]_vars => TypeInv'
<1> SUFFICES ASSUME TypeInv, [Next]_vars PROVE TypeInv'
  OBVIOUS
<1>1. CASE Next
  <2>1. CASE Crash \/ Shutdown
    BY <2>1, RestartTypes
  <2> QED
    BY <1>1, <2>1, TypeRequest, TypeTask, TypeCompaction DEF Next, Values
<1>2. CASE UNCHANGED vars
  <2>1. ClientOK' /\ FilesOK' /\ WriterOK'
    BY <1>2 DEF TypeInv, ClientOK, FilesOK, WriterOK, vars
  <2> QED
    BY <1>2, <2>1 DEF TypeInv, vars
<1> QED
  BY <1>1, <1>2

LEMMA TypeAlways == Spec => []TypeInv
BY TypeInit, TypeStep, PTL DEF Spec

(***************************************************************************)
(* DiskStorage keeps its type invariant: whatever fails and whenever the   *)
(* process restarts, the circuit breaker is open only once the writer task *)
(* is ending, the Compact message never reaches the log file, and the      *)
(* synchronous backend holds an entry back only after a failed write.      *)
(***************************************************************************)
THEOREM DiskTypeOK == Spec => []TypeOK
<1>1. TypeInv => TypeOK
  <2> SUFFICES ASSUME TypeInv PROVE TypeOK
    OBVIOUS
  <2>1. {mem, acked} \cup past \subseteq [Keys -> Bodies \cup {NoDoc}] /\ acked \in past
        /\ request.at \in {"idle", "begun", "applied"}
    BY DEF TypeInv, ClientOK, RequestOK, Requests, Maps, Values
  <2>2. log \in Seq(Plain) /\ buf \in Seq(Plain) /\ queue \in Seq(Messages)
    BY DEF TypeInv, FilesOK, WriterOK
  <2>3. log \in Seq(Entry) /\ buf \in Seq(Entry) /\ queue \in Seq(Entry)
    BY <2>2, MessageShapes
  <2>4. \A i \in DOMAIN log : log[i].cmd # "COMPACT"
    <3>1. \A i \in DOMAIN log : log[i] \in Plain
      BY <2>2
    <3> QED
      BY <3>1 DEF Plain
  <2> QED
    BY <2>1, <2>3, <2>4 DEF TypeInv, WriterOK, TypeOK, Stages, ErrorNames
<1> QED
  BY <1>1, TypeAlways, PTL
-----------------------------------------------------------------------------
(***************************************************************************)
(* What holds while no I/O error was reported.  Together, the snapshot (or *)
(* its backup, in the window without a snapshot) and all that is written   *)
(* or on its way to the log rebuild what clients were told is stored; the  *)
(* transaction open at the end of the log is the request's; the iteration  *)
(* of a compaction has loaded what the map holds; the Compact message is   *)
(* the last in the channel; and every cut of the log from what is already  *)
(* in the file rebuilds a state clients were told of.                      *)
(***************************************************************************)
Base == IF snapshot = NoFile THEN backup ELSE snapshot
BaseDb == LoadSnapshot(Base)
Total == log \o buf \o queue

Calm ==
    /\ task = "running" /\ ~io_fault /\ ~detached
    /\ mode = "sync" => buf = <<>> /\ queue = <<>>

Stored == Dur(BaseDb, Total) = acked

UnderwayFor(r, m, a, act, pen) ==
    /\ r.at = "idle" => m = a
    /\ r.at = "begun" => m = a /\ act = Tx /\ pen = a
    /\ r.at = "applied" => m = Put(a, r.key, r.body) /\ act = Tx /\ pen = m
Underway == UnderwayFor(request, mem, acked, Act(BaseDb, Total), Pen(BaseDb, Total))

SnapshotOK ==
    /\ stage = "install" => snapshot = NoFile
    /\ stage # "install" => (snapshot = NoFile => backup = NoFile)
    /\ stage \in {"swap", "wait"} => snapshot # NoFile /\ BaseDb.docs[Collection] = acked

ScanFor(sc, m) ==
    /\ Len(sc.body) + Cardinality({k \in sc.left : m[k] # NoDoc}) = sc.count
    /\ \A k \in Keys : Loaded(sc.body).docs[Collection][k] = IF k \in sc.left THEN NoDoc ELSE m[k]
ScanOK ==
    /\ stage \in {"scan", "install"} => ScanFor(scan, mem)
    /\ stage = "install" => scan.left = {}

QueueFor(q, st) == \A i \in 1 .. Len(q) : q[i] = Compact => i = Len(q) /\ st = "wait"
QueueOK == QueueFor(queue, stage)

CutsFor(db, s, from, ps) == \A n \in from .. Len(s) : Dur(db, SubSeq(s, 1, n)) \in ps
Cuts == stage \in {"idle", "scan", "install"} => CutsFor(BaseDb, Total, Len(log), past)

Clean == Calm /\ Stored /\ Underway /\ SnapshotOK /\ ScanOK /\ QueueOK /\ Cuts

Quiet == stage # "idle" => request.at = "idle"

KeepInv == Quiet /\ (errors = {} => Clean)
-----------------------------------------------------------------------------
LEMMA TotalType ==
    ASSUME TypeInv
    PROVE  /\ log \in Seq(Entry) /\ buf \in Seq(Entry) /\ queue \in Seq(Entry)
           /\ Total \in Seq(Entry) /\ BaseDb \in Dbs
<1>1. log \in Seq(Plain) /\ buf \in Seq(Plain) /\ queue \in Seq(Messages)
  BY DEF TypeInv, FilesOK, WriterOK
<1>2. log \in Seq(Entry) /\ buf \in Seq(Entry) /\ queue \in Seq(Entry)
  BY <1>1, MessageShapes
<1>3. Total \in Seq(Entry)
  BY <1>2, SeqFacts DEF Total
<1>4. FileOK(Base)
  BY DEF TypeInv, FilesOK, Base
<1> QED
  BY <1>2, <1>3, <1>4, LoadSnapshotType DEF BaseDb

LEMMA ConcatFacts ==
    ASSUME NEW S, NEW s \in Seq(S), NEW t \in Seq(S), NEW e \in S
    PROVE  /\ s \o <<>> = s /\ <<>> \o s = s
           /\ Len(s \o t) = Len(s) + Len(t) /\ Len(s) \in Nat /\ Len(t) \in Nat
           /\ s \o Append(t, e) = Append(s \o t, e)
           /\ SubSeq(s \o t, 1, Len(s)) = s
           /\ SubSeq(s, 1, Len(s)) = s
           /\ Len(Append(s, e)) = Len(s) + 1
           /\ \A n \in 0 .. Len(s) : SubSeq(Append(s, e), 1, n) = SubSeq(s, 1, n)
<1>1. s \o <<>> = s /\ <<>> \o s = s
  OBVIOUS
<1>2. Len(s \o t) = Len(s) + Len(t) /\ Len(s) \in Nat /\ Len(t) \in Nat
  OBVIOUS
<1>3. s \o Append(t, e) = Append(s \o t, e)
  OBVIOUS
<1>4. SubSeq(s \o t, 1, Len(s)) = s
  OBVIOUS
<1>5. SubSeq(s, 1, Len(s)) = s
  OBVIOUS
<1>6. \A n \in 0 .. Len(s) : SubSeq(Append(s, e), 1, n) = SubSeq(s, 1, n)
  OBVIOUS
<1>7. Len(Append(s, e)) = Len(s) + 1
  OBVIOUS
<1> QED
  BY <1>1, <1>2, <1>3, <1>4, <1>5, <1>6, <1>7

(* A message moves from the channel to the buffer. *)
LEMMA MoveHead ==
    ASSUME NEW S, NEW s \in Seq(S), NEW t \in Seq(S), t # <<>>
    PROVE  /\ Append(s, Head(t)) \o Tail(t) = s \o t
           /\ Len(Tail(t)) = Len(t) - 1 /\ Len(t) \in Nat \ {0}
           /\ \A i \in 1 .. Len(Tail(t)) : Tail(t)[i] = t[i + 1]
<1>1. /\ Len(Tail(t)) = Len(t) - 1 /\ Len(t) \in Nat \ {0}
      /\ \A i \in 1 .. Len(Tail(t)) : Tail(t)[i] = t[i + 1]
  OBVIOUS
<1>2. Append(s, Head(t)) \o Tail(t) = s \o t
  OBVIOUS
<1> QED
  BY <1>1, <1>2

LEMMA CutsAppend ==
    ASSUME NEW db, NEW s \in Seq(Entry), NEW e \in Entry, NEW i \in Nat, NEW j \in Nat, i <= j,
           NEW P, NEW Q, P \subseteq Q, CutsFor(db, s, i, P), Dur(db, Append(s, e)) \in Q
    PROVE  CutsFor(db, Append(s, e), j, Q)
<1> DEFINE t == Append(s, e)
<1>1. t \in Seq(Entry) /\ Len(t) = Len(s) + 1 /\ SubSeq(t, 1, Len(t)) = t /\ Len(s) \in Nat
  BY ConcatFacts
<1>2. \A n \in 0 .. Len(s) : SubSeq(t, 1, n) = SubSeq(s, 1, n)
  BY ConcatFacts
<1> HIDE DEF t
<1> SUFFICES ASSUME NEW n \in j .. Len(t) PROVE Dur(db, SubSeq(t, 1, n)) \in Q
  BY DEF CutsFor, t
<1>3. CASE n = Len(t)
  BY <1>1, <1>3 DEF t
<1>4. CASE n # Len(t)
  <2>1. n \in i .. Len(s) /\ n \in 0 .. Len(s)
    BY <1>1, <1>4
  <2>2. Dur(db, SubSeq(s, 1, n)) \in P
    BY <2>1 DEF CutsFor
  <2> QED
    BY <1>2, <2>1, <2>2
<1> QED
  BY <1>3, <1>4

LEMMA CutsLater ==
    ASSUME NEW db, NEW s \in Seq(Entry), NEW i \in Nat, NEW j \in Nat, i <= j,
           NEW P, CutsFor(db, s, i, P)
    PROVE  CutsFor(db, s, j, P)
BY DEF CutsFor

LEMMA CutsWhole ==
    ASSUME NEW db, NEW s \in Seq(Entry), NEW P, Dur(db, s) \in P
    PROVE  CutsFor(db, s, Len(s), P)
<1>1. SubSeq(s, 1, Len(s)) = s /\ Len(s) \in Nat
  OBVIOUS
<1> SUFFICES ASSUME NEW n \in Len(s) .. Len(s) PROVE Dur(db, SubSeq(s, 1, n)) \in P
  BY DEF CutsFor
<1>2. n = Len(s)
  BY <1>1
<1> QED
  BY <1>1, <1>2

(* An entry written by a request is the last of all, in either mode. *)
LEMMA Appended ==
    ASSUME TypeInv, Calm, NEW e \in Plain, WriteEntry(e), UNCHANGED <<mode, snapshot, backup>>
    PROVE  /\ Total' = Append(Total, e) /\ BaseDb' = BaseDb
           /\ Len(log) \in Nat /\ Len(log') \in Nat /\ Len(log) <= Len(log')
           /\ mode = "sync" => buf' = <<>> /\ queue' = <<>>
           /\ queue' = queue \/ queue' = Append(queue, e)
<1>0. log \in Seq(Entry) /\ buf \in Seq(Entry) /\ queue \in Seq(Entry) /\ e \in Entry
  BY TotalType, MessageShapes
<1>1. BaseDb' = BaseDb
  BY DEF BaseDb, Base
<1>2. CASE mode = "sync"
  <2>1. buf = <<>> /\ queue = <<>> /\ log \o <<>> = log
    BY <1>0, <1>2, ConcatFacts DEF Calm
  <2>2. log' = Append(log, e) /\ buf' = <<>> /\ queue' = <<>>
    BY <1>2, <2>1 DEF WriteEntry, Calm
  <2> DEFINE t == Append(log, e)
  <2>3. t \in Seq(Entry) /\ Len(t) = Len(log) + 1 /\ Len(log) \in Nat
    BY <1>0, ConcatFacts
  <2> HIDE DEF t
  <2>4. t \o <<>> = t
    BY <2>3, ConcatFacts
  <2>5. Total = log
    BY <2>1 DEF Total
  <2>6. Total' = t
    BY <2>2, <2>4 DEF Total, t
  <2> QED
    BY <1>1, <2>1, <2>2, <2>3, <2>5, <2>6 DEF t
<1>3. CASE mode # "sync"
  <2>1. log' = log /\ buf' = buf /\ queue' = Append(queue, e)
    BY <1>3 DEF WriteEntry
  <2> DEFINE u == log \o buf
  <2>2. u \in Seq(Entry) /\ Len(log) \in Nat
    BY <1>0, SeqFacts
  <2>3. Total = u \o queue /\ Total' = u \o Append(queue, e)
    BY <2>1 DEF Total
  <2> HIDE DEF u
  <2>4. u \o Append(queue, e) = Append(u \o queue, e)
    BY <1>0, <2>2, ConcatFacts
  <2> QED
    BY <1>1, <1>3, <2>1, <2>2, <2>3, <2>4
<1> QED
  BY <1>2, <1>3

LEMMA QueueAppend ==
    ASSUME NEW q \in Seq(Entry), NEW e \in Entry, NEW st, QueueFor(q, st), st # "wait",
           e # Compact
    PROVE  QueueFor(Append(q, e), st)
<1>1. Len(Append(q, e)) = Len(q) + 1 /\ Len(q) \in Nat
  OBVIOUS
<1>2. \A i \in 1 .. Len(q) : Append(q, e)[i] = q[i]
  OBVIOUS
<1>3. Append(q, e)[Len(q) + 1] = e
  OBVIOUS
<1> DEFINE t == Append(q, e)
<1> HIDE DEF t
<1> QED
  BY <1>1, <1>2, <1>3 DEF QueueFor, t

(* What every write of a request keeps. *)
LEMMA WriteKeeps ==
    ASSUME TypeInv, Clean, NEW e \in Plain, WriteEntry(e), stage = "idle",
           UNCHANGED <<mode, snapshot, backup, task, io_fault, detached, stage>>,
           Stored', past \subseteq past', acked' \in past'
    PROVE  Calm' /\ SnapshotOK' /\ ScanOK' /\ QueueOK' /\ Cuts'
<1>0. Total \in Seq(Entry) /\ e \in Entry /\ e # Compact /\ queue \in Seq(Entry)
  BY TotalType, MessageShapes
<1>1. /\ Total' = Append(Total, e) /\ BaseDb' = BaseDb
      /\ Len(log) \in Nat /\ Len(log') \in Nat /\ Len(log) <= Len(log')
      /\ mode = "sync" => buf' = <<>> /\ queue' = <<>>
      /\ queue' = queue \/ queue' = Append(queue, e)
  BY Appended DEF Clean
<1>2. Calm'
  BY <1>1 DEF Clean, Calm
<1>3. SnapshotOK' /\ ScanOK'
  BY DEF Clean, SnapshotOK, ScanOK
<1>4. QueueOK'
  <2>1. QueueFor(queue, stage)
    BY DEF Clean, QueueOK
  <2>2. QueueFor(queue', stage)
    BY <1>0, <1>1, <2>1, QueueAppend
  <2> QED
    BY <2>2 DEF QueueOK
<1>5. Cuts'
  <2>1. CutsFor(BaseDb, Total, Len(log), past)
    BY DEF Clean, Cuts
  <2>2. Dur(BaseDb, Append(Total, e)) \in past'
    BY <1>1 DEF Stored
  <2>3. CutsFor(BaseDb, Append(Total, e), Len(log'), past')
    BY <1>0, <1>1, <2>1, <2>2, CutsAppend
  <2> QED
    BY <1>1, <2>3 DEF Cuts
<1> QED
  BY <1>2, <1>3, <1>4, <1>5

LEMMA KeepBegin ==
    ASSUME TypeInv, KeepInv, ~WritesDuringCompaction, NEW k \in Keys, NEW b \in Values, Begin(k, b)
    PROVE  KeepInv'
<1> DEFINE e == TxBegin(Collection, Tx)
<1>1. stage = "idle" /\ stage' = stage /\ errors' = errors /\ mem' = mem /\ acked' = acked
      /\ past' = past /\ request.at = "idle" /\ WriteEntry(e)
      /\ UNCHANGED <<mode, snapshot, backup, task, io_fault, detached, stage>>
  BY DEF Begin, compaction
<1>2. e \in Plain /\ e.cmd = "TX_BEGIN" /\ e.key = Tx /\ e \in Entry
  BY BeginShape, MessageShapes
<1> HIDE DEF e
<1>3. request'.at = "begun"
  BY RequestMade DEF Begin
<1>4. Quiet'
  BY <1>1 DEF Quiet
<1>5. ASSUME errors = {} PROVE Clean'
  <2>0. Clean /\ Total \in Seq(Entry) /\ BaseDb \in Dbs /\ acked \in past
    BY <1>5, TotalType DEF KeepInv, TypeInv, ClientOK
  <2>1. Total' = Append(Total, e) /\ BaseDb' = BaseDb
    BY <1>1, <1>2, <2>0, Appended DEF Clean
  <2>2. /\ Dur(BaseDb, Append(Total, e)) = acked /\ Pen(BaseDb, Append(Total, e)) = acked
        /\ Act(BaseDb, Append(Total, e)) = Tx
    BY <1>2, <2>0, AccStep DEF Clean, Stored
  <2>3. Stored'
    BY <1>1, <2>1, <2>2 DEF Stored
  <2>4. mem = acked
    BY <1>1, <2>0 DEF Clean, Underway, UnderwayFor
  <2>5. UnderwayFor(request', mem', acked', Act(BaseDb', Total'), Pen(BaseDb', Total'))
    BY <1>1, <1>3, <2>1, <2>2, <2>4 DEF UnderwayFor
  <2>6. Underway'
    BY <2>5 DEF Underway
  <2>7. Calm' /\ SnapshotOK' /\ ScanOK' /\ QueueOK' /\ Cuts'
    BY <1>1, <1>2, <2>0, <2>3, WriteKeeps
  <2> QED
    BY <2>3, <2>6, <2>7 DEF Clean
<1> QED
  BY <1>1, <1>4, <1>5 DEF KeepInv

LEMMA KeepApply ==
    ASSUME TypeInv, KeepInv, Apply
    PROVE  KeepInv'
<1> DEFINE e == EntryOf(request)
<1>0. RequestOK(request)
  BY DEF TypeInv, ClientOK
<1>1. /\ request.at = "begun" /\ stage' = stage /\ errors' = errors /\ acked' = acked
      /\ past' = past /\ WriteEntry(e) /\ mem' = Put(mem, request.key, request.body)
      /\ UNCHANGED <<mode, snapshot, backup, task, io_fault, detached, stage>>
  BY DEF Apply, compaction, Put
<1>2. /\ e \in Plain /\ e \in Entry /\ e.cmd \notin {"TX_BEGIN", "TX_COMMIT"}
      /\ \A m : Updated(m, e) = Put(m, request.key, request.body)
  BY <1>0, <1>1, EntryShape, MessageShapes
<1> HIDE DEF e
<1>3. request'.at = "applied" /\ request'.key = request.key /\ request'.body = request.body
  BY <1>0, <1>1, RequestApplied DEF Apply
<1>4. stage = "idle" /\ Quiet'
  BY <1>1 DEF KeepInv, Quiet
<1>5. ASSUME errors = {} PROVE Clean'
  <2>0. Clean /\ Total \in Seq(Entry) /\ BaseDb \in Dbs /\ acked \in past
    BY <1>5, TotalType DEF KeepInv, TypeInv, ClientOK
  <2>1. Total' = Append(Total, e) /\ BaseDb' = BaseDb
    BY <1>1, <1>2, <2>0, Appended DEF Clean
  <2>2. mem = acked /\ Act(BaseDb, Total) = Tx /\ Pen(BaseDb, Total) = acked /\ Tx # NoTx
    BY <1>1, <2>0, Constants DEF Clean, Underway, UnderwayFor
  <2>3. /\ Dur(BaseDb, Append(Total, e)) = acked /\ Act(BaseDb, Append(Total, e)) = Tx
        /\ Pen(BaseDb, Append(Total, e)) = Put(acked, request.key, request.body)
    BY <1>2, <2>0, <2>2, AccStep DEF Clean, Stored
  <2>4. Stored'
    BY <1>1, <2>1, <2>3 DEF Stored
  <2>5. UnderwayFor(request', mem', acked', Act(BaseDb', Total'), Pen(BaseDb', Total'))
    BY <1>1, <1>3, <2>1, <2>2, <2>3 DEF UnderwayFor
  <2>6. Underway'
    BY <2>5 DEF Underway
  <2>7. Calm' /\ SnapshotOK' /\ ScanOK' /\ QueueOK' /\ Cuts'
    BY <1>1, <1>2, <1>4, <2>0, <2>4, WriteKeeps
  <2> QED
    BY <2>4, <2>6, <2>7 DEF Clean
<1> QED
  BY <1>1, <1>4, <1>5 DEF KeepInv

LEMMA KeepCommit ==
    ASSUME TypeInv, KeepInv, Commit
    PROVE  KeepInv'
<1> DEFINE e == EntryOf(request)
<1>0. RequestOK(request)
  BY DEF TypeInv, ClientOK
<1>1. /\ request.at = "applied" /\ stage' = stage /\ errors' = errors /\ mem' = mem
      /\ acked' = Put(acked, request.key, request.body) /\ request' = NoRequest
      /\ past' = past \cup {acked'} /\ WriteEntry(e)
      /\ UNCHANGED <<mode, snapshot, backup, task, io_fault, detached, stage>>
  BY DEF Commit, compaction, Put
<1>2. e \in Plain /\ e \in Entry /\ e.cmd = "TX_COMMIT" /\ e.key = Tx
  BY <1>0, <1>1, EntryShape, MessageShapes
<1> HIDE DEF e
<1>3. request'.at = "idle"
  BY <1>1, IdleShape
<1>4. stage = "idle" /\ Quiet'
  BY <1>1 DEF KeepInv, Quiet
<1>5. ASSUME errors = {} PROVE Clean'
  <2>0. Clean /\ Total \in Seq(Entry) /\ BaseDb \in Dbs /\ acked \in past
    BY <1>5, TotalType DEF KeepInv, TypeInv, ClientOK
  <2>1. Total' = Append(Total, e) /\ BaseDb' = BaseDb
    BY <1>1, <1>2, <2>0, Appended DEF Clean
  <2>2. mem = acked' /\ Act(BaseDb, Total) = Tx /\ Pen(BaseDb, Total) = mem
    BY <1>1, <2>0 DEF Clean, Underway, UnderwayFor
  <2>3. Dur(BaseDb, Append(Total, e)) = acked'
    BY <1>2, <2>0, <2>2, AccStep
  <2>4. Stored'
    BY <2>1, <2>3 DEF Stored
  <2>5. UnderwayFor(request', mem', acked', Act(BaseDb', Total'), Pen(BaseDb', Total'))
    BY <1>1, <1>3, <2>2 DEF UnderwayFor
  <2>6. Underway'
    BY <2>5 DEF Underway
  <2>7. Calm' /\ SnapshotOK' /\ ScanOK' /\ QueueOK' /\ Cuts'
    <3>1. past \subseteq past' /\ acked' \in past'
      BY <1>1
    <3> QED
      BY <1>1, <1>2, <1>4, <2>0, <2>4, <3>1, WriteKeeps
  <2> QED
    BY <2>4, <2>6, <2>7 DEF Clean
<1> QED
  BY <1>1, <1>4, <1>5 DEF KeepInv

(***************************************************************************)
(* A step that reports an error, or that only an error makes possible,     *)
(* needs no more than that no request is under way during a compaction.    *)
(***************************************************************************)
LEMMA KeepFaults ==
    ASSUME TypeInv, KeepInv,
           \/ RequestFails \/ SyncWriteFails \/ TaskWriteFails \/ TaskReopenFails
           \/ TaskEnds \/ SnapshotFails \/ SwapRefused
    PROVE  KeepInv'
<1>0. spent \in Counters /\ errors \subseteq ErrorNames
  BY DEF TypeInv
<1>1. CASE RequestFails
  <2>1. stage' = stage /\ request' = NoRequest /\ task # "running" /\ errors' = errors
    BY <1>1 DEF RequestFails, Abandon, Accepts, compaction, TypeInv, WriterOK
  <2>2. errors # {}
    BY <1>1, <2>1 DEF KeepInv, Clean, Calm, RequestFails, Accepts
  <2> QED
    BY <2>1, <2>2, IdleShape DEF KeepInv, Quiet
<1>2. CASE SyncWriteFails
  <2>1. stage' = stage /\ request' = NoRequest /\ errors' # {}
    BY <1>0, <1>2, FaultShape DEF SyncWriteFails, Abandon, compaction, ErrorNames
  <2> QED
    BY <2>1, IdleShape DEF KeepInv, Quiet
<1>3. CASE TaskWriteFails
  <2>1. stage' = stage /\ request' = request /\ errors' # {}
    BY <1>0, <1>3, FaultShape DEF TaskWriteFails, compaction, ErrorNames
  <2> QED
    BY <2>1 DEF KeepInv, Quiet
<1>4. CASE TaskReopenFails
  <2>1. stage' = stage /\ request' = request /\ errors' # {}
    BY <1>0, <1>4, FaultShape DEF TaskReopenFails, compaction, ErrorNames
  <2> QED
    BY <2>1 DEF KeepInv, Quiet
<1>5. CASE TaskEnds
  <2>1. stage' = stage /\ request' = request /\ errors' = errors /\ task # "running"
    BY <1>5 DEF TaskEnds, compaction
  <2>2. errors # {}
    BY <2>1 DEF KeepInv, Clean, Calm
  <2> QED
    BY <2>1, <2>2 DEF KeepInv, Quiet
<1>6. CASE SnapshotFails
  <2>1. stage # "idle" /\ request' = request /\ errors' # {}
    BY <1>0, <1>6, FaultShape DEF SnapshotFails, ErrorNames
  <2> QED
    BY <2>1 DEF KeepInv, Quiet
<1>7. CASE SwapRefused
  <2>1. stage # "idle" /\ request' = request /\ errors' # {}
    BY <1>7 DEF SwapRefused
  <2> QED
    BY <2>1 DEF KeepInv, Quiet
<1> QED
  BY <1>1, <1>2, <1>3, <1>4, <1>5, <1>6, <1>7

(* A step after which the same entries stand over the same snapshot. *)
LEMMA SameContents ==
    ASSUME TypeInv, Clean, Total' = Total, BaseDb' = BaseDb, UNCHANGED <<mem, request, acked, past>>,
           Len(log') \in Nat, Len(log) <= Len(log'),
           stage' \in {"idle", "scan", "install"} => stage \in {"idle", "scan", "install"}
    PROVE  Stored' /\ Underway' /\ Cuts'
<1>0. Total \in Seq(Entry) /\ Len(log) \in Nat
  BY TotalType
<1>1. Stored'
  BY DEF Clean, Stored
<1>2. Underway'
  <2>1. UnderwayFor(request', mem', acked', Act(BaseDb', Total'), Pen(BaseDb', Total'))
    BY DEF Clean, Underway
  <2> QED
    BY <2>1 DEF Underway
<1>3. Cuts'
  <2> SUFFICES ASSUME stage' \in {"idle", "scan", "install"}
               PROVE  CutsFor(BaseDb', Total', Len(log'), past')
    BY DEF Cuts
  <2>1. CutsFor(BaseDb, Total, Len(log), past)
    BY DEF Clean, Cuts
  <2> QED
    BY <1>0, <2>1, CutsLater
<1> QED
  BY <1>1, <1>2, <1>3

LEMMA KeepReceive ==
    ASSUME TypeInv, KeepInv, TaskReceive
    PROVE  KeepInv'
<1>0. /\ queue # <<>> /\ buf' = Append(buf, Head(queue)) /\ queue' = Tail(queue) /\ log' = log
      /\ UNCHANGED <<mode, mem, request, acked, past, task, io_fault, detached, snapshot, backup,
                     stage, scan, errors>>
  BY DEF TaskReceive, files, compaction
<1>1. ASSUME errors = {} PROVE Clean'
  <2>0. Clean /\ log \in Seq(Entry) /\ buf \in Seq(Entry) /\ queue \in Seq(Entry) /\ BaseDb' = BaseDb
    BY <1>0, <1>1, TotalType DEF KeepInv, BaseDb, Base
  <2> DEFINE h == Head(queue)
             t == Tail(queue)
  <2>1. h \in Entry /\ t \in Seq(Entry) /\ Len(t) = Len(queue) - 1 /\ Len(queue) \in Nat
        /\ (\A i \in 1 .. Len(t) : t[i] = queue[i + 1])
    BY <1>0, <2>0, SeqFacts, MoveHead
  <2>2. Total' = Total
    <3> DEFINE u == log \o buf
    <3>1. u \in Seq(Entry) /\ log \o Append(buf, h) = Append(u, h)
      BY <2>0, <2>1, SeqFacts, ConcatFacts
    <3>2. Total = u \o queue /\ Total' = Append(u, h) \o t
      BY <1>0, <3>1 DEF Total
    <3> HIDE DEF u
    <3> QED
      BY <1>0, <2>0, <3>1, <3>2, MoveHead
  <2>3. Len(log') \in Nat /\ Len(log) <= Len(log')
    BY <1>0, <2>0
  <2>4. Stored' /\ Underway' /\ Cuts'
    BY <1>0, <2>0, <2>2, <2>3, SameContents
  <2>5. QueueOK'
    <3> HIDE DEF t
    <3>1. QueueFor(queue, stage) /\ queue' = t
      BY <1>0, <2>0 DEF Clean, QueueOK, t
    <3>2. QueueFor(t, stage)
      BY <2>1, <3>1 DEF QueueFor
    <3> QED
      BY <1>0, <3>1, <3>2 DEF QueueOK
  <2>6. mode # "sync"
    BY <1>0, <2>0 DEF Clean, Calm
  <2>7. Calm' /\ SnapshotOK' /\ ScanOK'
    BY <1>0, <2>0, <2>6 DEF Clean, Calm, SnapshotOK, ScanOK
  <2> QED
    BY <2>4, <2>5, <2>7 DEF Clean
<1> QED
  BY <1>0, <1>1 DEF KeepInv, Quiet

LEMMA KeepFlush ==
    ASSUME TypeInv, KeepInv, TaskFlush
    PROVE  KeepInv'
<1>0. /\ mode # "sync" /\ log' = log \o buf /\ buf' = <<>>
      /\ UNCHANGED <<mode, mem, request, acked, past, queue, task, io_fault, detached, snapshot,
                     backup, stage, scan, errors>>
  BY DEF TaskFlush, compaction
<1>1. ASSUME errors = {} PROVE Clean'
  <2>0. Clean /\ log \in Seq(Entry) /\ buf \in Seq(Entry) /\ queue \in Seq(Entry) /\ BaseDb' = BaseDb
    BY <1>0, <1>1, TotalType DEF KeepInv, BaseDb, Base
  <2> DEFINE u == log \o buf
  <2>1. u \in Seq(Entry) /\ Len(u) \in Nat /\ Len(log) <= Len(u)
    BY <2>0, SeqFacts, ConcatFacts
  <2>2. Total' = Total
    <3>1. Total = u \o queue /\ Total' = (u \o <<>>) \o queue
      BY <1>0 DEF Total
    <3> HIDE DEF u
    <3> QED
      BY <2>1, <3>1, ConcatFacts
  <2>3. Stored' /\ Underway' /\ Cuts'
    BY <1>0, <2>0, <2>1, <2>2, SameContents
  <2>4. Calm' /\ SnapshotOK' /\ ScanOK' /\ QueueOK'
    BY <1>0, <2>0 DEF Clean, Calm, SnapshotOK, ScanOK, QueueOK
  <2> QED
    BY <2>3, <2>4 DEF Clean
<1> QED
  BY <1>0, <1>1 DEF KeepInv, Quiet

(* The log is emptied when the snapshot holds what was acknowledged. *)
LEMMA KeepEmptied ==
    ASSUME TypeInv, Clean, Quiet, stage \in {"swap", "wait"}, stage' = "idle",
           log' = <<>>, buf' = <<>>, queue' = <<>>, ~detached',
           UNCHANGED <<mode, mem, request, acked, past, task, io_fault, snapshot, backup, scan>>
    PROVE  Clean'
<1>0. BaseDb \in Dbs /\ BaseDb' = BaseDb /\ Total' = <<>> /\ request.at = "idle" /\ acked \in past
  <2>1. Total' = <<>> \o <<>> \o <<>>
    BY DEF Total
  <2>2. <<>> \o <<>> = <<>>
    OBVIOUS
  <2> QED
    BY <2>1, <2>2, TotalType DEF BaseDb, Base, Quiet, TypeInv, ClientOK
<1>1. BaseDb.docs[Collection] = acked /\ snapshot # NoFile
  BY DEF Clean, SnapshotOK
<1>2. Dur(BaseDb, <<>>) = acked
  BY <1>0, <1>1, AccStart
<1>3. Stored'
  BY <1>0, <1>2 DEF Stored
<1>4. Underway'
  <2>1. UnderwayFor(request', mem', acked', Act(BaseDb', Total'), Pen(BaseDb', Total'))
    BY <1>0 DEF Clean, Underway, UnderwayFor
  <2> QED
    BY <2>1 DEF Underway
<1>5. Cuts'
  <2>1. CutsFor(BaseDb, <<>>, Len(<<>>), past)
    BY <1>0, <1>2, CutsWhole, EmptySeq
  <2> QED
    BY <1>0, <2>1 DEF Cuts
<1>6. Calm' /\ SnapshotOK' /\ ScanOK'
  BY <1>1 DEF Clean, Calm, SnapshotOK, ScanOK
<1>7. QueueOK'
  BY DEF QueueOK, QueueFor
<1> QED
  BY <1>3, <1>4, <1>5, <1>6, <1>7 DEF Clean

LEMMA KeepSwaps ==
    ASSUME TypeInv, KeepInv, TaskSwaps
    PROVE  KeepInv'
<1>0. /\ queue # <<>> /\ Head(queue) = Compact /\ queue' = Tail(queue) /\ buf' = <<>> /\ stage' = "idle"
      /\ UNCHANGED <<mode, mem, request, acked, past, task, io_fault, detached, snapshot, backup, scan>>
  BY DEF TaskSwaps
<1>1. Quiet'
  BY <1>0 DEF Quiet
<1>2. CASE Fault("swap")
  <2>1. errors' # {}
    BY <1>2, FaultShape DEF TypeInv, ErrorNames
  <2> QED
    BY <1>1, <2>1 DEF KeepInv
<1>3. CASE log' = <<>> /\ UNCHANGED <<errors, spent>>
  <2>1. ASSUME errors = {} PROVE Clean'
    <3>0. Clean /\ queue \in Seq(Entry)
      BY <2>1, TotalType DEF KeepInv
    <3>1. Len(queue) = 1 /\ stage = "wait"
      <4>1. Len(queue) \in Nat \ {0} /\ queue[1] = Compact
        BY <1>0, <3>0
      <4>2. QueueFor(queue, stage)
        BY <3>0 DEF Clean, QueueOK
      <4>3. 1 \in 1 .. Len(queue)
        BY <4>1
      <4>4. 1 = Len(queue) /\ stage = "wait"
        BY <4>1, <4>2, <4>3 DEF QueueFor
      <4> QED
        BY <4>4
    <3>2. Tail(queue) = <<>>
      <4>1. Tail(queue) \in Seq(Entry) /\ Len(Tail(queue)) = Len(queue) - 1
        BY <1>0, <3>0, SeqFacts, MoveHead
      <4>2. Len(Tail(queue)) = 0
        BY <3>1, <4>1
      <4> QED
        BY <4>1, <4>2, EmptySeq
    <3> QED
      BY <1>0, <1>3, <3>0, <3>1, <3>2, KeepEmptied DEF KeepInv, Clean, Calm
  <2> QED
    BY <1>1, <1>3, <2>1 DEF KeepInv
<1> QED
  BY <1>2, <1>3 DEF TaskSwaps

LEMMA KeepSwapLog ==
    ASSUME TypeInv, KeepInv, SwapLog
    PROVE  KeepInv'
<1>0. /\ stage = "swap" /\ mode = "sync" /\ stage' = "idle"
      /\ UNCHANGED <<mode, mem, request, acked, past, queue, task, io_fault, snapshot, backup, scan>>
  BY DEF SwapLog
<1>1. Quiet'
  BY <1>0 DEF Quiet
<1>2. CASE Fault("swap") \/ Fault("reopen")
  <2>1. errors' # {}
    BY <1>2, FaultShape DEF TypeInv, ErrorNames
  <2> QED
    BY <1>1, <2>1 DEF KeepInv
<1>3. CASE log' = <<>> /\ detached' = FALSE /\ buf' = <<>> /\ UNCHANGED <<errors, spent>>
  <2>1. ASSUME errors = {} PROVE Clean'
    <3>1. Clean /\ queue = <<>> /\ Quiet
      BY <1>0, <2>1 DEF KeepInv, Clean, Calm
    <3> QED
      BY <1>0, <1>3, <3>1, KeepEmptied
  <2> QED
    BY <1>1, <1>3, <2>1 DEF KeepInv
<1> QED
  BY <1>2, <1>3 DEF SwapLog

LEMMA KeepSend ==
    ASSUME TypeInv, KeepInv, SwapSend
    PROVE  KeepInv'
<1>0. /\ stage = "swap" /\ mode # "sync" /\ stage' = "wait" /\ queue' = Append(queue, Compact)
      /\ UNCHANGED <<mode, mem, request, acked, past, buf, task, io_fault, detached, log, snapshot,
                     backup, scan, errors>>
  BY DEF SwapSend, files
<1>1. Quiet'
  BY <1>0 DEF KeepInv, Quiet
<1>2. ASSUME errors = {} PROVE Clean'
  <2>0. /\ Clean /\ log \in Seq(Entry) /\ buf \in Seq(Entry) /\ queue \in Seq(Entry)
        /\ Total \in Seq(Entry) /\ BaseDb \in Dbs /\ BaseDb' = BaseDb
        /\ Compact \in Entry /\ Compact.cmd = "COMPACT"
    BY <1>0, <1>2, TotalType, MessageShapes DEF KeepInv, BaseDb, Base
  <2>1. Total' = Append(Total, Compact)
    <3> DEFINE u == log \o buf
    <3>1. u \in Seq(Entry)
      BY <2>0, SeqFacts
    <3>2. Total = u \o queue /\ Total' = u \o Append(queue, Compact)
      BY <1>0 DEF Total
    <3> HIDE DEF u
    <3> QED
      BY <2>0, <3>1, <3>2, ConcatFacts
  <2>2. Stored'
    <3>1. Updated(Dur(BaseDb, Total), Compact) = Dur(BaseDb, Total)
      BY <2>0 DEF Updated
    <3>2. Dur(BaseDb, Append(Total, Compact)) = Dur(BaseDb, Total)
      BY <2>0, <3>1, AccStep
    <3> QED
      BY <1>0, <2>0, <2>1, <3>2 DEF Clean, Stored
  <2>3. Underway'
    <3>1. request.at = "idle"
      BY <1>0 DEF KeepInv, Quiet
    <3>2. UnderwayFor(request', mem', acked', Act(BaseDb', Total'), Pen(BaseDb', Total'))
      BY <1>0, <2>0, <3>1 DEF Clean, Underway, UnderwayFor
    <3> QED
      BY <3>2 DEF Underway
  <2>4. QueueOK'
    <3> DEFINE t == Append(queue, Compact)
    <3>1. Len(t) = Len(queue) + 1 /\ Len(queue) \in Nat
          /\ \A i \in 1 .. Len(queue) : t[i] = queue[i]
      BY <2>0
    <3>2. QueueFor(queue, "swap")
      BY <1>0, <2>0 DEF Clean, QueueOK
    <3> HIDE DEF t
    <3>3. QueueFor(t, "wait")
      BY <3>1, <3>2 DEF QueueFor
    <3> QED
      BY <1>0, <3>3 DEF QueueOK, t
  <2>5. Calm' /\ SnapshotOK' /\ ScanOK' /\ Cuts'
    BY <1>0, <2>0 DEF Clean, Calm, SnapshotOK, ScanOK, Cuts
  <2> QED
    BY <2>2, <2>3, <2>4, <2>5 DEF Clean
<1> QED
  BY <1>0, <1>1, <1>2 DEF KeepInv

LEMMA KeepCompactBegin ==
    ASSUME TypeInv, KeepInv, ~WritesDuringCompaction, CompactBegin
    PROVE  KeepInv'
<1>0. /\ stage = "idle" /\ stage' = "scan" /\ request.at = "idle"
      /\ scan' = [count |-> Cardinality(Present), body |-> <<>>, left |-> Keys]
      /\ UNCHANGED <<mode, mem, request, acked, past, queue, buf, task, io_fault, detached,
                     log, snapshot, backup, errors>>
  BY DEF CompactBegin, files, writer
<1>1. Quiet'
  BY <1>0 DEF Quiet
<1>2. ASSUME errors = {} PROVE Clean'
  <2>0. Clean /\ BaseDb' = BaseDb /\ Total' = Total /\ Len(log) \in Nat
    BY <1>0, <1>2, TotalType DEF KeepInv, BaseDb, Base, Total
  <2>1. Stored' /\ Underway' /\ Cuts'
    BY <1>0, <2>0, SameContents
  <2>2. scan'.left = Keys /\ scan'.body = <<>> /\ scan'.count = Cardinality(Present)
    BY <1>0, ScanBegun, PresentFinite DEF Present
  <2>3. ScanFor(scan', mem')
    <3>1. Loaded(<<>>).docs[Collection] = NoDocs
      BY LoadedSteps, EmptyDbShape, Constants
    <3>2. \A k \in Keys : NoDocs[k] = NoDoc
      BY DEF NoDocs
    <3>3. Cardinality(Present) \in Nat
      BY PresentFinite DEF Present
    <3>4. Len(<<>>) + Cardinality(Present) = Cardinality(Present)
      BY <3>3
    <3> QED
      BY <1>0, <2>2, <3>1, <3>2, <3>4 DEF ScanFor, Present
  <2>4. Calm' /\ SnapshotOK' /\ ScanOK'
    BY <1>0, <2>0, <2>3 DEF Clean, Calm, SnapshotOK, ScanOK
  <2>5. QueueOK'
    BY <1>0, <2>0 DEF Clean, QueueOK, QueueFor
  <2> QED
    BY <2>1, <2>4, <2>5 DEF Clean
<1> QED
  BY <1>0, <1>1, <1>2 DEF KeepInv

(* One document more is loaded, and one fewer is left. *)
LEMMA ScanVisits ==
    ASSUME NEW sc \in Scans, NEW new \in Scans, NEW m \in Maps, NEW k \in sc.left, ScanFor(sc, m),
           new.left = sc.left \ {k}, new.count = sc.count,
           new.body = IF m[k] = NoDoc THEN sc.body
                      ELSE Append(sc.body, InsertEntry(Collection, k, m[k]))
    PROVE  ScanFor(new, m)
<1> DEFINE P == {j \in sc.left : m[j] # NoDoc}
           Q == {j \in new.left : m[j] # NoDoc}
           D(b) == Loaded(b).docs[Collection]
<1>0. /\ sc.left \subseteq Keys /\ sc.body \in Seq(Plain) /\ sc.body \in Seq(Entry) /\ k \in Keys
      /\ sc.count \in Nat
  <2>1. sc.left \subseteq Keys /\ sc.body \in Seq(Plain) /\ sc.count \in Nat
    BY DEF Scans
  <2> QED
    BY <2>1, MessageShapes
<1>1. IsFiniteSet(P) /\ Cardinality(P) \in Nat /\ Len(sc.body) \in Nat
  <2>1. sc.left \in SUBSET Keys /\ Len(sc.body) \in Nat
    BY <1>0
  <2> QED
    BY <2>1, PresentFinite
<1>2. /\ Len(sc.body) + Cardinality(P) = sc.count
      /\ \A j \in Keys : D(sc.body)[j] = IF j \in sc.left THEN NoDoc ELSE m[j]
  BY DEF ScanFor
<1>3. CASE m[k] = NoDoc
  <2>1. Q = P /\ new.body = sc.body
    BY <1>3
  <2> HIDE DEF P, Q, D
  <2>2. Len(new.body) + Cardinality(Q) = new.count
    BY <1>2, <2>1
  <2>3. \A j \in Keys : D(new.body)[j] = IF j \in new.left THEN NoDoc ELSE m[j]
    BY <1>0, <1>2, <1>3, <2>1
  <2> QED
    BY <2>2, <2>3 DEF ScanFor, Q, D
<1>4. CASE m[k] # NoDoc
  <2> DEFINE e == InsertEntry(Collection, k, m[k])
  <2>0. e \in Entry /\ \A x : Updated(x, e) = Put(x, k, m[k])
    <3>1. m[k] \in Values
      BY <1>0 DEF Maps
    <3> QED
      BY <1>0, <3>1, InsertShape, MessageShapes
  <2>1. Q = P \ {k} /\ k \in P /\ new.body = Append(sc.body, e)
    BY <1>4
  <2> HIDE DEF P, Q, e
  <2>2. Cardinality(Q) = Cardinality(P) - 1
    BY <1>1, <2>1, FS_RemoveElement
  <2>3. Len(new.body) = Len(sc.body) + 1
    BY <1>0, <2>0, <2>1
  <2>4. D(new.body) = Put(D(sc.body), k, m[k]) /\ D(sc.body) \in Maps
    <3>1. Loaded(new.body) = ApplyEntry(Loaded(sc.body), e, 0) /\ Loaded(sc.body) \in Dbs
      BY <1>0, <2>0, <2>1, LoadedSteps, LoadedType
    <3>2. ApplyEntry(Loaded(sc.body), e, 0).docs[Collection] = Updated(D(sc.body), e)
      BY <2>0, <3>1, ApplyEffect
    <3>3. Loaded(sc.body).docs[Collection] \in Maps
      BY <3>1, Constants DEF Dbs
    <3> QED
      BY <2>0, <3>1, <3>2, <3>3
  <2> HIDE DEF D
  <2>5. Len(new.body) + Cardinality(Q) = new.count
    BY <1>0, <1>1, <1>2, <2>2, <2>3
  <2>6. \A j \in Keys : D(new.body)[j] = IF j \in new.left THEN NoDoc ELSE m[j]
    BY <1>0, <1>2, <2>4 DEF Put, Maps
  <2> QED
    BY <2>5, <2>6 DEF ScanFor, Q, D
<1> QED
  BY <1>3, <1>4

LEMMA KeepVisit ==
    ASSUME TypeInv, KeepInv, NEW k \in Keys, CompactVisit(k)
    PROVE  KeepInv'
<1>0. /\ stage = "scan" /\ stage' = "scan" /\ k \in scan.left
      /\ UNCHANGED <<mode, mem, request, acked, past, queue, buf, task, io_fault, detached,
                     log, snapshot, backup, errors>>
  BY DEF CompactVisit, files, writer
<1>1. Quiet'
  BY <1>0 DEF KeepInv, Quiet
<1>2. ASSUME errors = {} PROVE Clean'
  <2>0. Clean /\ BaseDb' = BaseDb /\ Total' = Total /\ Len(log) \in Nat
    BY <1>0, <1>2, TotalType DEF KeepInv, BaseDb, Base, Total
  <2>1. Stored' /\ Underway' /\ Cuts'
    BY <1>0, <2>0, SameContents
  <2>2. /\ scan' \in Scans /\ scan'.left = scan.left \ {k} /\ scan'.count = scan.count
        /\ scan'.body = IF mem[k] = NoDoc THEN scan.body
                        ELSE Append(scan.body, InsertEntry(Collection, k, mem[k]))
    BY VisitShape DEF VisitBody
  <2>3. ScanFor(scan, mem) /\ scan \in Scans /\ mem \in Maps
    BY <1>0, <2>0 DEF Clean, ScanOK, TypeInv, ClientOK
  <2>4. ScanFor(scan', mem)
    BY <1>0, <2>2, <2>3, ScanVisits
  <2>5. Calm' /\ SnapshotOK' /\ ScanOK'
    BY <1>0, <2>0, <2>4 DEF Clean, Calm, SnapshotOK, ScanOK
  <2>6. QueueOK'
    BY <1>0, <2>0 DEF Clean, QueueOK
  <2> QED
    BY <2>1, <2>5, <2>6 DEF Clean
<1> QED
  BY <1>0, <1>1, <1>2 DEF KeepInv

LEMMA KeepBackup ==
    ASSUME TypeInv, KeepInv, SnapshotBackup
    PROVE  KeepInv'
<1>0. /\ stage = "scan" /\ scan.left = {} /\ stage' = "install"
      /\ UNCHANGED <<mode, mem, request, acked, past, queue, buf, task, io_fault, detached,
                     log, scan, errors>>
      /\ IF snapshot = NoFile THEN UNCHANGED <<snapshot, backup>>
         ELSE snapshot' = NoFile /\ backup' = snapshot
  BY DEF SnapshotBackup, writer
<1>1. Quiet'
  BY <1>0 DEF KeepInv, Quiet
<1>2. ASSUME errors = {} PROVE Clean'
  <2>0. Clean /\ Total' = Total /\ Len(log) \in Nat
    BY <1>0, <1>2, TotalType DEF KeepInv, Total
  <2>1. Base' = Base /\ snapshot' = NoFile
    BY <1>0 DEF Base
  <2>2. BaseDb' = BaseDb
    BY <2>1 DEF BaseDb
  <2>3. Stored' /\ Underway' /\ Cuts'
    BY <1>0, <2>0, <2>2, SameContents
  <2>4. Calm' /\ SnapshotOK' /\ ScanOK'
    BY <1>0, <2>0, <2>1 DEF Clean, Calm, SnapshotOK, ScanOK
  <2>5. QueueOK'
    BY <1>0, <2>0 DEF Clean, QueueOK, QueueFor
  <2> QED
    BY <2>3, <2>4, <2>5 DEF Clean
<1> QED
  BY <1>0, <1>1, <1>2 DEF KeepInv

(***************************************************************************)
(* The new snapshot holds what the log leads to, so the whole log can be   *)
(* replayed over it, as a start does until the log is swapped.             *)
(***************************************************************************)
LEMMA KeepInstall ==
    ASSUME TypeInv, KeepInv, SnapshotInstall
    PROVE  KeepInv'
<1>0. /\ stage = "install" /\ stage' = "swap"
      /\ snapshot' = [count |-> scan.count, body |-> scan.body]
      /\ UNCHANGED <<mode, mem, request, acked, past, queue, buf, task, io_fault, detached,
                     log, backup, errors>>
  BY DEF SnapshotInstall, writer
<1>1. Quiet' /\ request.at = "idle"
  BY <1>0 DEF KeepInv, Quiet
<1>2. ASSUME errors = {} PROVE Clean'
  <2>0. /\ Clean /\ Total' = Total /\ Total \in Seq(Entry) /\ BaseDb \in Dbs
        /\ mem \in Maps /\ scan \in Scans
    BY <1>0, <1>2, TotalType DEF KeepInv, Total, TypeInv, ClientOK
  <2>1. ScanFor(scan, mem) /\ scan.left = {} /\ mem = acked
    BY <1>0, <1>1, <2>0 DEF Clean, ScanOK, Underway, UnderwayFor
  <2>2. scan.body \in Seq(Entry) /\ scan.count \in Nat
    <3>1. scan.body \in Seq(Plain) /\ scan.count \in Nat
      BY <2>0 DEF Scans
    <3> QED
      BY <3>1, MessageShapes
  <2>3. Len(scan.body) = scan.count
    <3>1. {k \in scan.left : mem[k] # NoDoc} = {}
      BY <2>1
    <3>2. Cardinality({}) = 0
      BY FS_EmptySet
    <3> QED
      BY <2>1, <2>2, <3>1, <3>2 DEF ScanFor
  <2> DEFINE L == Loaded(scan.body)
             f == [count |-> scan.count, body |-> scan.body]
  <2>4. f # NoFile /\ LoadSnapshot(f) = L
    BY <2>2, <2>3, LoadSnapshotWhole
  <2>5. L \in Dbs /\ L.docs[Collection] \in Maps
    <3>1. L \in Dbs
      BY <2>2, LoadedType
    <3> QED
      BY <3>1, Constants DEF Dbs
  <2>6. L.docs[Collection] = acked
    <3>1. \A k \in Keys : L.docs[Collection][k] = mem[k]
      BY <2>1 DEF ScanFor
    <3> QED
      BY <2>0, <2>1, <2>5, <3>1 DEF Maps
  <2> HIDE DEF L, f
  <2>7. snapshot' # NoFile /\ BaseDb' = L
    BY <1>0, <2>4 DEF BaseDb, Base, f
  <2>8. Dur(L, Total) = acked
    BY <2>0, <2>5, <2>6, ReplayAgain DEF Clean, Stored
  <2>9. Stored'
    BY <1>0, <2>0, <2>7, <2>8 DEF Stored
  <2>10. Underway'
    <3>1. UnderwayFor(request', mem', acked', Act(BaseDb', Total'), Pen(BaseDb', Total'))
      BY <1>0, <1>1, <2>1 DEF UnderwayFor
    <3> QED
      BY <3>1 DEF Underway
  <2>11. SnapshotOK'
    BY <1>0, <2>6, <2>7 DEF SnapshotOK
  <2>12. Calm' /\ ScanOK' /\ Cuts'
    BY <1>0, <2>0 DEF Clean, Calm, ScanOK, Cuts
  <2>13. QueueOK'
    BY <1>0, <2>0 DEF Clean, QueueOK, QueueFor
  <2> QED
    BY <2>9, <2>10, <2>11, <2>12, <2>13 DEF Clean
<1> QED
  BY <1>0, <1>1, <1>2 DEF KeepInv

(* A start builds its memory from the files it then goes on with. *)
LEMMA KeepRestart ==
    ASSUME TypeInv, Crash \/ Shutdown
    PROVE  KeepInv'
<1>1. PICK s \in {log, log \o buf} : mem' = Rebuild(snapshot, s) /\ Restart(s)
  BY RestartTypes
<1>2. s \in Seq(Entry)
  <2>1. log \in Seq(Entry) /\ buf \in Seq(Entry)
    BY TotalType
  <2>2. log \o buf \in Seq(Entry)
    BY <2>1
  <2> QED
    BY <1>1, <2>1, <2>2
<1>3. /\ log' = s /\ acked' = mem' /\ past' = {mem'} /\ request' = NoRequest /\ queue' = <<>>
      /\ buf' = <<>> /\ task' = "running" /\ ~io_fault' /\ ~detached' /\ stage' = "idle"
      /\ backup' = NoFile /\ snapshot' = snapshot
  BY <1>1 DEF Restart
<1>4. Total' = s
  <2>1. Total' = (s \o <<>>) \o <<>>
    BY <1>3 DEF Total
  <2> QED
    BY <1>2, <2>1, ConcatFacts
<1>5. BaseDb' = LoadSnapshot(snapshot)
  BY <1>3 DEF BaseDb, Base
<1>6. Dur(BaseDb', s) = mem'
  BY <1>1, <1>5, RebuildIs
<1>7. Stored'
  BY <1>3, <1>4, <1>6 DEF Stored
<1>8. Underway'
  <2>1. UnderwayFor(request', mem', acked', Act(BaseDb', Total'), Pen(BaseDb', Total'))
    BY <1>3, IdleShape DEF UnderwayFor
  <2> QED
    BY <2>1 DEF Underway
<1>9. Cuts'
  <2>1. CutsFor(BaseDb', s, Len(s), past')
    BY <1>2, <1>3, <1>6, CutsWhole
  <2> QED
    BY <1>3, <1>4, <2>1 DEF Cuts
<1>10. Calm' /\ SnapshotOK' /\ ScanOK'
  BY <1>3 DEF Calm, SnapshotOK, ScanOK
<1>11. QueueOK'
  BY <1>3 DEF QueueOK, QueueFor
<1>12. Quiet'
  BY <1>3 DEF Quiet
<1> QED
  BY <1>7, <1>8, <1>9, <1>10, <1>11, <1>12 DEF Clean, KeepInv

LEMMA KeepInit == Init => KeepInv
<1> SUFFICES ASSUME Init PROVE KeepInv
  OBVIOUS
<1>0. /\ mem = NoDocs /\ acked = NoDocs /\ past = {NoDocs} /\ request = NoRequest /\ queue = <<>>
      /\ buf = <<>> /\ log = <<>> /\ snapshot = NoFile /\ backup = NoFile /\ stage = "idle"
      /\ task = "running" /\ ~io_fault /\ ~detached
  BY DEF Init
<1>1. Total = <<>> /\ BaseDb = EmptyDb
  <2>1. Total = <<>> \o <<>> \o <<>>
    BY <1>0 DEF Total
  <2>2. <<>> \o <<>> = <<>>
    OBVIOUS
  <2> QED
    BY <1>0, <2>1, <2>2, LoadSnapshotIs DEF BaseDb, Base
<1>2. Dur(EmptyDb, <<>>) = NoDocs
  BY AccStart, EmptyDbShape, Constants
<1>3. Stored
  BY <1>0, <1>1, <1>2 DEF Stored
<1>4. Underway
  BY <1>0, IdleShape DEF Underway, UnderwayFor
<1>5. Cuts
  <2>1. CutsFor(EmptyDb, <<>>, Len(<<>>), {NoDocs})
    BY <1>2, CutsWhole, EmptySeq
  <2> QED
    BY <1>0, <1>1, <2>1 DEF Cuts
<1>6. Calm /\ SnapshotOK /\ ScanOK /\ QueueOK /\ Quiet
  BY <1>0 DEF Calm, SnapshotOK, ScanOK, QueueOK, QueueFor, Quiet
<1> QED
  BY <1>3, <1>4, <1>5, <1>6 DEF Clean, KeepInv

LEMMA KeepStep ==
    ASSUME ~WritesDuringCompaction
    PROVE  TypeInv /\ KeepInv /\ [Next]_vars => KeepInv'
<1> SUFFICES ASSUME TypeInv, KeepInv, [Next]_vars PROVE KeepInv'
  OBVIOUS
<1>1. CASE Next
  <2>1. CASE \E k \in Keys, b \in Values : Begin(k, b)
    BY <2>1, KeepBegin
  <2>2. CASE Request
    BY <2>2, KeepApply, KeepCommit, KeepFaults DEF Request
  <2>3. CASE Task
    BY <2>3, KeepReceive, KeepFlush, KeepSwaps, KeepFaults DEF Task
  <2>4. CASE Compactor
    BY <2>4, KeepVisit, KeepBackup, KeepInstall, KeepSwapLog, KeepSend, KeepFaults DEF Compactor
  <2>5. CASE SyncWriteFails \/ TaskWriteFails \/ TaskReopenFails \/ SnapshotFails
    BY <2>5, KeepFaults
  <2>6. CASE CompactBegin
    BY <2>6, KeepCompactBegin
  <2>7. CASE Crash \/ Shutdown
    BY <2>7, KeepRestart
  <2> QED
    BY <1>1, <2>1, <2>2, <2>3, <2>4, <2>5, <2>6, <2>7 DEF Next, Values
<1>2. CASE UNCHANGED vars
  <2>1. Total' = Total /\ BaseDb' = BaseDb /\ Len(log) \in Nat
    BY <1>2, TotalType DEF vars, Total, BaseDb, Base
  <2>2. ASSUME errors = {} PROVE Clean'
    <3>1. Clean
      BY <2>2 DEF KeepInv
    <3>2. Stored' /\ Underway' /\ Cuts'
      BY <1>2, <2>1, <3>1, SameContents DEF vars
    <3>3. Calm' /\ SnapshotOK' /\ ScanOK' /\ QueueOK'
      BY <1>2, <2>1, <3>1 DEF vars, Clean, Calm, SnapshotOK, ScanOK, QueueOK
    <3> QED
      BY <3>2, <3>3 DEF Clean
  <2> QED
    BY <1>2, <2>2 DEF vars, KeepInv, Quiet
<1> QED
  BY <1>1, <1>2

LEMMA KeepAlways ==
    ASSUME ~WritesDuringCompaction
    PROVE  Spec => [](TypeInv /\ KeepInv)
<1>1. TypeInv /\ KeepInv /\ [Next]_vars => KeepInv'
  BY KeepStep
<1> QED
  BY <1>1, KeepInit, TypeInit, TypeStep, PTL DEF Spec
-----------------------------------------------------------------------------
(* Only a crash and a shutdown start the process again. *)
LEMMA OnlyRestarts ==
    ASSUME TypeInv, [Next]_vars, Restarts
    PROVE  Crash \/ Shutdown
<1>0. spent \in Counters /\ errors \subseteq ErrorNames /\ spent'.restarts # spent.restarts
  BY DEF TypeInv, Restarts
<1>1. ASSUME spent' = spent PROVE FALSE
  BY <1>0, <1>1
<1>2. ASSUME NEW what \in {"writes", "compactions"}, Spend(what) PROVE FALSE
  BY <1>0, <1>2, CountersMove
<1>3. ASSUME NEW what \in ErrorNames, Fault(what) PROVE FALSE
  BY <1>0, <1>3, FaultShape
<1>4. ~ \E k \in Keys, b \in Values : Begin(k, b)
  BY <1>2 DEF Begin
<1>5. ~Request
  BY <1>1 DEF Request, Apply, Commit, RequestFails
<1>6. ~Task
  BY <1>1, <1>3 DEF Task, TaskReceive, TaskFlush, TaskEnds, TaskSwaps, ErrorNames
<1>7. ~Compactor
  BY <1>1, <1>3 DEF Compactor, CompactVisit, SnapshotBackup, SnapshotInstall, SwapLog, SwapSend,
                    SwapRefused, ErrorNames
<1>8. ~ (SyncWriteFails \/ TaskWriteFails \/ TaskReopenFails \/ SnapshotFails)
  BY <1>3 DEF SyncWriteFails, TaskWriteFails, TaskReopenFails, SnapshotFails, ErrorNames
<1>9. ~CompactBegin
  BY <1>2 DEF CompactBegin
<1>10. ~ UNCHANGED vars
  BY <1>1 DEF vars
<1> QED
  BY <1>4, <1>5, <1>6, <1>7, <1>8, <1>9, <1>10 DEF Next, Values

(* What the next process reads, and where it stands in what was written. *)
LEMMA RestartReads ==
    ASSUME TypeInv, KeepInv, [Next]_vars, Restarts, errors = {}
    PROVE  /\ \E s \in {log, log \o buf} : mem' = Rebuild(snapshot, s)
           /\ Dur(BaseDb, Total) = acked
           /\ snapshot = NoFile => backup = NoFile \/ stage = "install"
           /\ mode = "sync" => buf = <<>> /\ queue = <<>>
           /\ stage = "idle" => /\ BaseDb = LoadSnapshot(snapshot)
                                /\ \A s \in {log, log \o buf} : Dur(BaseDb, s) \in past
<1>0. Clean /\ log \in Seq(Entry) /\ buf \in Seq(Entry) /\ queue \in Seq(Entry) /\ (Crash \/ Shutdown)
  BY TotalType, OnlyRestarts DEF KeepInv
<1>1. \E s \in {log, log \o buf} : mem' = Rebuild(snapshot, s)
  BY <1>0, RestartTypes
<1>2. ASSUME stage = "idle" PROVE BaseDb = LoadSnapshot(snapshot)
  BY <1>0, <1>2 DEF Clean, SnapshotOK, BaseDb, Base
<1>3. ASSUME stage = "idle", NEW s \in {log, log \o buf} PROVE Dur(BaseDb, s) \in past
  <2> DEFINE u == log \o buf
  <2>1. u \in Seq(Entry) /\ Len(u) = Len(log) + Len(buf) /\ SubSeq(u, 1, Len(log)) = log
        /\ Len(log) \in Nat /\ Len(buf) \in Nat
    BY <1>0, SeqFacts, ConcatFacts
  <2>2. s \in {log, u}
    BY <1>3
  <2>3. Total = u \o queue
    BY DEF Total
  <2> HIDE DEF u
  <2>4. Len(Total) = Len(u) + Len(queue) /\ Len(queue) \in Nat /\ SubSeq(Total, 1, Len(u)) = u
    <3> DEFINE v == u \o queue
    <3>1. Len(v) = Len(u) + Len(queue) /\ Len(queue) \in Nat /\ SubSeq(v, 1, Len(u)) = u
      BY <1>0, <2>1, ConcatFacts, MessageShapes
    <3> HIDE DEF v
    <3>2. Total = v
      BY <2>3 DEF v
    <3> QED
      BY <3>1, <3>2
  <2>5. SubSeq(Total, 1, Len(log)) = log
    <3>1. Total \in Seq(Entry)
      BY TotalType
    <3>2. \A i \in 1 .. Len(log) : Total[i] = log[i]
      <4>1. \A i \in 1 .. Len(log) : u[i] = log[i]
        BY <1>0 DEF u
      <4>2. \A i \in 1 .. Len(u) : Total[i] = u[i]
        BY <1>0, <2>1, <2>3
      <4> QED
        BY <2>1, <4>1, <4>2
    <3> QED
      BY <1>0, <2>1, <2>4, <3>1, <3>2
  <2>6. SubSeq(Total, 1, Len(s)) = s /\ Len(s) \in Len(log) .. Len(Total)
    BY <2>1, <2>2, <2>4, <2>5
  <2>7. CutsFor(BaseDb, Total, Len(log), past)
    BY <1>0, <1>3 DEF Clean, Cuts
  <2> QED
    BY <2>6, <2>7 DEF CutsFor
<1>4. (snapshot = NoFile => backup = NoFile \/ stage = "install") /\ Dur(BaseDb, Total) = acked
      /\ (mode = "sync" => buf = <<>> /\ queue = <<>>)
  BY <1>0 DEF Clean, SnapshotOK, Stored, Calm
<1> QED
  BY <1>1, <1>2, <1>3, <1>4

(* With nothing left to write, the log is all there is. *)
LEMMA NothingUnwritten ==
    ASSUME TypeInv, buf = <<>>, queue = <<>>
    PROVE  Total = log /\ log \o buf = log
<1>1. log \in Seq(Entry)
  BY TotalType
<1>2. log \o <<>> = log
  BY <1>1, ConcatFacts
<1> QED
  BY <1>2 DEF Total

(***************************************************************************)
(* A restart brings back exactly the acknowledged writes, with any log and *)
(* at every point of a compaction but the one between the two renames, if  *)
(* no I/O error was reported and the writer had nothing left to write      *)
(* (RestartKeepsAcked).  Both conditions are needed: between the renames   *)
(* the statement is false (MCDiskWindow.cfg), and with requests that       *)
(* write while a compaction runs as well (run `disk_race').                *)
(***************************************************************************)
THEOREM DiskRestartKeepsAcked ==
    ASSUME ~WritesDuringCompaction
    PROVE  Spec => RestartKeepsAcked
<1> DEFINE Kept == Restarts /\ errors = {} /\ ~Unwritten /\ ~NoSnapshot => mem' = acked
<1>1. TypeInv /\ KeepInv /\ [Next]_vars => Kept
  <2> SUFFICES ASSUME TypeInv, KeepInv, [Next]_vars, Restarts, errors = {}, ~Unwritten,
                      ~NoSnapshot
               PROVE  mem' = acked
    OBVIOUS
  <2>1. Total = log /\ log \o buf = log
    BY NothingUnwritten DEF Unwritten
  <2>2. mem' = Rebuild(snapshot, log) /\ Dur(BaseDb, log) = acked
    BY <2>1, RestartReads
  <2>3. Rebuild(Base, log) = acked
    BY <2>2, RebuildIs DEF BaseDb
  <2>4. Base = snapshot
    BY DEF Base, NoSnapshot
  <2> QED
    BY <2>2, <2>3, <2>4
<1>2. TypeInv /\ KeepInv /\ [Next]_vars => [Kept]_vars
  BY <1>1
<1>3. Spec => [](TypeInv /\ KeepInv)
  BY KeepAlways
<1> HIDE DEF Kept
<1>4. Spec => [][Kept]_vars
  BY <1>2, <1>3, PTL DEF Spec
<1> QED
  BY <1>4 DEF RestartKeepsAcked, Kept

(***************************************************************************)
(* The synchronous backend loses nothing (ZeroDataLoss, the promise of     *)
(* sync_storage.rs), as long as no request writes while a compaction runs. *)
(***************************************************************************)
THEOREM DiskZeroDataLoss ==
    ASSUME ~WritesDuringCompaction
    PROVE  Spec => ZeroDataLoss
<1> DEFINE Kept == Restarts /\ mode = "sync" /\ errors = {} /\ request.at = "idle" /\ stage = "idle"
                     => mem' = acked
<1>1. TypeInv /\ KeepInv /\ [Next]_vars => Kept
  <2> SUFFICES ASSUME TypeInv, KeepInv, [Next]_vars, Restarts, errors = {}, mode = "sync", stage = "idle"
               PROVE  mem' = acked
    OBVIOUS
  <2>1. buf = <<>> /\ queue = <<>> /\ BaseDb = LoadSnapshot(snapshot)
    BY RestartReads
  <2>2. Total = log /\ log \o buf = log
    BY <2>1, NothingUnwritten
  <2>3. mem' = Rebuild(snapshot, log) /\ Dur(BaseDb, log) = acked
    BY <2>2, RestartReads
  <2> QED
    BY <2>1, <2>3, RebuildIs
<1>2. TypeInv /\ KeepInv /\ [Next]_vars => [Kept]_vars
  BY <1>1
<1>3. Spec => [](TypeInv /\ KeepInv)
  BY KeepAlways
<1> HIDE DEF Kept
<1>4. Spec => [][Kept]_vars
  BY <1>2, <1>3, PTL DEF Spec
<1> QED
  BY <1>4 DEF ZeroDataLoss, Kept

(***************************************************************************)
(* Killed or shut down at any moment outside a compaction, with no I/O     *)
(* error reported, either backend comes back with a state clients were     *)
(* told of, never half a transaction (CrashLosesSuffix).                   *)
(***************************************************************************)
THEOREM DiskCrashLosesSuffix ==
    ASSUME ~WritesDuringCompaction
    PROVE  Spec => CrashLosesSuffix
<1> DEFINE Kept == Restarts /\ errors = {} /\ stage = "idle" => mem' \in past
<1>1. TypeInv /\ KeepInv /\ [Next]_vars => Kept
  <2> SUFFICES ASSUME TypeInv, KeepInv, [Next]_vars, Restarts, errors = {}, stage = "idle"
               PROVE  mem' \in past
    OBVIOUS
  <2>1. PICK s \in {log, log \o buf} : mem' = Rebuild(snapshot, s)
    BY RestartReads
  <2>2. BaseDb = LoadSnapshot(snapshot) /\ Dur(BaseDb, s) \in past
    BY RestartReads
  <2> QED
    BY <2>1, <2>2, RebuildIs
<1>2. TypeInv /\ KeepInv /\ [Next]_vars => [Kept]_vars
  BY <1>1
<1>3. Spec => [](TypeInv /\ KeepInv)
  BY KeepAlways
<1> HIDE DEF Kept
<1>4. Spec => [][Kept]_vars
  BY <1>2, <1>3, PTL DEF Spec
<1> QED
  BY <1>4 DEF CrashLosesSuffix, Kept
=============================================================================
