----------------------------- MODULE TtlProofs -----------------------------
(***************************************************************************)
(* Theorems about module CollectionTtl, for any number of collections,     *)
(* keys, requests and restarts, any TTLs and any length of the log.        *)
(***************************************************************************)
EXTENDS CollectionTtl, FiniteSetTheorems, SequenceTheorems, TLAPS

ReplayOp(t, db, e) == ApplyEntry(db, e, t)
SendOp(e, queue, k) == Send(queue, e)

Replaying == INSTANCE FoldFacts WITH Op <- ReplayOp
Sending == INSTANCE FoldFacts WITH Op <- SendOp

USE DEF history

LEMMA Constants ==
    /\ Collections # {} /\ IsFiniteSet(Keys) /\ Ttls \subseteq Nat
    /\ MaxTime \in Nat /\ Capacity \in Nat /\ Capacity > 0
    /\ NoExpiry = -1
BY TtlAssumption DEF NoExpiry
-----------------------------------------------------------------------------
(***************************************************************************)
(* What replaying a log at instant t gives.                                *)
(***************************************************************************)
Stored == Nat \cup {NoDoc}
Dbs == [cols : SUBSET Collections, docs : [Collections -> [Keys -> Stored]],
        ttl : [Collections -> Int], schemas : [Collections -> {NoSchema}]]

(* The entries a collection with a TTL leaves in the log. *)
Drops == {DropEntry(c) : c \in Collections}
Inserts == {InsertEntry(c, k, n) : c \in Collections, k \in Keys, n \in Nat}
Expiries == {TtlEntry(c, at) : c \in Collections, at \in Nat}
Entries == Drops \cup Inserts \cup Expiries

Rebuilt(t, s) == Replaying!Fold(t, EmptyDb, s)

LEMMA ReplayedIsRebuilt ==
    ASSUME NEW t
    PROVE  Replayed(t) = Rebuilt(t, log)
BY DEF Replayed, Rebuilt, Replaying!Fold, ReplayOp, FoldLeft, MapThenFoldSet, Max,
       Replaying!FoldLeft, Replaying!MapThenFoldSet, Replaying!Max

LEMMA RebuiltSteps ==
    ASSUME NEW t
    PROVE  /\ Rebuilt(t, <<>>) = EmptyDb
           /\ \A s \in Seq(Entries), e \in Entries :
                 Rebuilt(t, Append(s, e)) = ApplyEntry(Rebuilt(t, s), e, t)
BY Replaying!FoldEmpty, Replaying!FoldAppend DEF Rebuilt, ReplayOp

LEMMA EmptyDbShape ==
    /\ EmptyDb \in Dbs
    /\ \A c \in Collections, k \in Keys : EmptyDb.docs[c][k] = NoDoc
<1> DEFINE d == [c \in Collections |-> NoDocs]
           x == [c \in Collections |-> NoExpiry]
           y == [c \in Collections |-> NoSchema]
<1>1. d \in [Collections -> [Keys -> Stored]] /\ \A c \in Collections, k \in Keys : d[c][k] = NoDoc
  BY DEF NoDocs, Stored
<1>2. x \in [Collections -> Int] /\ y \in [Collections -> {NoSchema}]
  BY Constants
<1> HIDE DEF d, x, y
<1>3. DbOf({}, d, x, y) \in Dbs /\ DbOf({}, d, x, y).docs = d
  BY <1>1, <1>2 DEF DbOf, Dbs
<1> QED
  BY <1>1, <1>3 DEF EmptyDb, d, x, y

(* DROP, and a TTL_EXPIRY that has passed, empty the collection. *)
LEMMA RemovalEffect ==
    ASSUME NEW db \in Dbs, NEW c \in Collections
    PROVE  /\ RemoveCollection(db, c) \in Dbs
           /\ \A k \in Keys : RemoveCollection(db, c).docs[c][k] = NoDoc
           /\ \A d \in Collections : d # c => RemoveCollection(db, c).docs[d] = db.docs[d]
<1> DEFINE D == [db.docs EXCEPT ![c] = NoDocs]
           x == [db.ttl EXCEPT ![c] = NoExpiry]
           a == db.cols \ {c}
           y == db.schemas
<1>1. /\ D \in [Collections -> [Keys -> Stored]]
      /\ \A k \in Keys : D[c][k] = NoDoc
      /\ \A d \in Collections : d # c => D[d] = db.docs[d]
  BY DEF NoDocs, Stored, Dbs
<1>2. x \in [Collections -> Int] /\ y \in [Collections -> {NoSchema}] /\ a \in SUBSET Collections
  BY Constants DEF Dbs
<1> HIDE DEF D, x, a, y
<1>3. DbOf(a, D, x, y) \in Dbs /\ DbOf(a, D, x, y).docs = D
  BY <1>1, <1>2 DEF DbOf, Dbs
<1> QED
  BY <1>1, <1>3 DEF RemoveCollection, D, x, a, y

LEMMA ExpiryEffect ==
    ASSUME NEW db \in Dbs, NEW c \in Collections, NEW at \in Nat
    PROVE  /\ SetExpiry(db, c, at) \in Dbs
           /\ SetExpiry(db, c, at).docs = db.docs
<1> DEFINE D == db.docs
           x == [db.ttl EXCEPT ![c] = at]
           a == db.cols
           y == db.schemas
<1>1. D \in [Collections -> [Keys -> Stored]]
  BY DEF Dbs
<1>2. x \in [Collections -> Int] /\ y \in [Collections -> {NoSchema}] /\ a \in SUBSET Collections
  BY Constants DEF Dbs
<1> HIDE DEF D, x, a, y
<1>3. DbOf(a, D, x, y) \in Dbs /\ DbOf(a, D, x, y).docs = D
  BY <1>1, <1>2 DEF DbOf, Dbs
<1> QED
  BY <1>1, <1>3 DEF SetExpiry, D, x, a, y

LEMMA PutEffect ==
    ASSUME NEW db \in Dbs, NEW c \in Collections, NEW k \in Keys, NEW n \in Nat
    PROVE  /\ PutDoc(db, c, k, n) \in Dbs
           /\ \A d \in Collections : d # c => PutDoc(db, c, k, n).docs[d] = db.docs[d]
           /\ \A j \in Keys : PutDoc(db, c, k, n).docs[c][j] \in {db.docs[c][j], n}
<1> DEFINE D == [db.docs EXCEPT ![c][k] = n]
           x == db.ttl
           a == db.cols \cup {c}
           y == db.schemas
<1>1. /\ D \in [Collections -> [Keys -> Stored]]
      /\ \A d \in Collections : d # c => D[d] = db.docs[d]
      /\ \A j \in Keys : D[c][j] \in {db.docs[c][j], n}
  BY DEF Stored, Dbs
<1>2. x \in [Collections -> Int] /\ y \in [Collections -> {NoSchema}] /\ a \in SUBSET Collections
  BY Constants DEF Dbs
<1> HIDE DEF D, x, a, y
<1>3. DbOf(a, D, x, y) \in Dbs /\ DbOf(a, D, x, y).docs = D
  BY <1>1, <1>2 DEF DbOf, Dbs
<1> QED
  BY <1>1, <1>3 DEF PutDoc, D, x, a, y

LEMMA DropApplied ==
    ASSUME NEW db, NEW c \in Collections, NEW t
    PROVE  DropEntry(c) \in Entries /\ ApplyEntry(db, DropEntry(c), t) = RemoveCollection(db, c)
<1>1. DropEntry(c) \in Entries
  BY DEF Entries, Drops
<1>2. DropEntry(c).cmd = "DROP" /\ DropEntry(c).collection = c
  BY DEF DropEntry, LogEntry
<1> QED
  BY <1>1, <1>2 DEF ApplyEntry

LEMMA InsertApplied ==
    ASSUME NEW db, NEW c \in Collections, NEW k \in Keys, NEW n \in Nat, NEW t
    PROVE  /\ InsertEntry(c, k, n) \in Entries
           /\ ApplyEntry(db, InsertEntry(c, k, n), t) = PutDoc(db, c, k, n)
<1>1. InsertEntry(c, k, n) \in Entries
  BY DEF Entries, Inserts
<1>2. InsertEntry(c, k, n).cmd = "INSERT" /\ InsertEntry(c, k, n).collection = c
      /\ InsertEntry(c, k, n).key = k /\ InsertEntry(c, k, n).value = n
  BY DEF InsertEntry, LogEntry
<1> QED
  BY <1>1, <1>2 DEF ApplyEntry

LEMMA ExpiryApplied ==
    ASSUME NEW db, NEW c \in Collections, NEW at \in Nat, NEW t \in Nat
    PROVE  /\ TtlEntry(c, at) \in Entries
           /\ ApplyEntry(db, TtlEntry(c, at), t) =
                 IF at > t THEN SetExpiry(db, c, at) ELSE RemoveCollection(db, c)
<1>1. TtlEntry(c, at) \in Entries
  BY DEF Entries, Expiries
<1>2. TtlEntry(c, at).cmd = "TTL_EXPIRY" /\ TtlEntry(c, at).collection = c
      /\ TtlEntry(c, at).key = at
  BY DEF TtlEntry, LogEntry
<1> QED
  BY <1>1, <1>2 DEF ApplyEntry

LEMMA RebuiltType ==
    ASSUME NEW t \in Nat, NEW s \in Seq(Entries)
    PROVE  Rebuilt(t, s) \in Dbs
<1> DEFINE T == {u \in Seq(Entries) : Rebuilt(t, u) \in Dbs}
<1>1. <<>> \in T
  BY RebuiltSteps, EmptyDbShape, EmptySeq
<1>2. ASSUME NEW u \in Seq(Entries), NEW e \in Entries, u \in T PROVE Append(u, e) \in T
  <2> DEFINE db == Rebuilt(t, u)
  <2>1. db \in Dbs /\ Append(u, e) \in Seq(Entries)
    BY <1>2
  <2>2. Rebuilt(t, Append(u, e)) = ApplyEntry(db, e, t)
    BY RebuiltSteps
  <2> HIDE DEF db
  <2>3. ApplyEntry(db, e, t) \in Dbs
    <3>1. CASE e \in Drops
      <4>1. PICK c \in Collections : e = DropEntry(c)
        BY <3>1 DEF Drops
      <4> QED
        BY <2>1, <4>1, DropApplied, RemovalEffect
    <3>2. CASE e \in Inserts
      <4>1. PICK c \in Collections, k \in Keys, n \in Nat : e = InsertEntry(c, k, n)
        BY <3>2 DEF Inserts
      <4> QED
        BY <2>1, <4>1, InsertApplied, PutEffect
    <3>3. CASE e \in Expiries
      <4>1. PICK c \in Collections, at \in Nat : e = TtlEntry(c, at)
        BY <3>3 DEF Expiries
      <4> QED
        BY <2>1, <4>1, ExpiryApplied, RemovalEffect, ExpiryEffect
    <3> QED
      BY <3>1, <3>2, <3>3 DEF Entries
  <2> QED
    BY <2>1, <2>2, <2>3
<1> HIDE DEF T
<1>3. \A u \in Seq(Entries) : u \in T
  BY <1>1, <1>2, Replaying!SeqSetInduction
<1> QED
  BY <1>3 DEF T
-----------------------------------------------------------------------------
(***************************************************************************)
(* The batch of an insert: one INSERT entry and one event for each key.    *)
(***************************************************************************)
LEMMA BatchInOrder ==
    ASSUME NEW S, IsFiniteSet(S)
    PROVE  SetToSeq(S) \in Seq(S)
<1> DEFINE n == Cardinality(S)
<1>1. n \in Nat /\ ExistsBijection(1 .. n, S)
  BY FS_CardinalityType
<1>2. \E f \in [1 .. n -> S] : IsInjective(f)
  BY <1>1 DEF ExistsBijection, Bijection, Injection, IsInjective
<1>3. SetToSeq(S) \in [1 .. n -> S]
  BY <1>2 DEF SetToSeq
<1> HIDE DEF n
<1> QED
  BY <1>1, <1>3

Batch(c, s, n) == [i \in DOMAIN s |-> InsertEntry(c, s[i], n)]

LEMMA BatchAppend ==
    ASSUME NEW c \in Collections, NEW n \in Nat, NEW s \in Seq(Keys), NEW k \in Keys
    PROVE  /\ Batch(c, s, n) \in Seq(Entries)
           /\ Batch(c, Append(s, k), n) = Append(Batch(c, s, n), InsertEntry(c, k, n))
<1> DEFINE E(x) == InsertEntry(c, x, n)
<1>1. \A x \in Keys : E(x) \in Entries
  BY InsertApplied
<1> HIDE DEF E
<1> DEFINE B(u) == [i \in DOMAIN u |-> E(u[i])]
<1>2. B(s) \in Seq(Entries)
  BY <1>1
<1>3. B(Append(s, k)) = Append(B(s), E(k))
  BY <1>1
<1> QED
  BY <1>2, <1>3 DEF Batch, E

(* Replaying a batch changes documents of its collection to the present life only. *)
BatchEffect(db, new, c, n) ==
    /\ \A d \in Collections : d # c => new.docs[d] = db.docs[d]
    /\ \A k \in Keys : new.docs[c][k] \in {db.docs[c][k], n}

LEMMA BatchReplayed ==
    ASSUME NEW t \in Nat, NEW s \in Seq(Entries), NEW c \in Collections, NEW n \in Nat,
           NEW keys \in Seq(Keys)
    PROVE  /\ s \o Batch(c, keys, n) \in Seq(Entries)
           /\ BatchEffect(Rebuilt(t, s), Rebuilt(t, s \o Batch(c, keys, n)), c, n)
<1> DEFINE Ok(u) == /\ s \o Batch(c, u, n) \in Seq(Entries)
                    /\ BatchEffect(Rebuilt(t, s), Rebuilt(t, s \o Batch(c, u, n)), c, n)
           T == {u \in Seq(Keys) : Ok(u)}
<1>1. <<>> \in T
  <2>1. Batch(c, <<>>, n) = <<>>
    BY DEF Batch
  <2>2. s \o <<>> = s
    BY ConcatEmptySeq
  <2>3. BatchEffect(Rebuilt(t, s), Rebuilt(t, s), c, n)
    BY DEF BatchEffect
  <2> QED
    BY <2>1, <2>2, <2>3, EmptySeq
<1>2. ASSUME NEW u \in Seq(Keys), NEW k \in Keys, u \in T PROVE Append(u, k) \in T
  <2> DEFINE v == s \o Batch(c, u, n)
             w == s \o Batch(c, Append(u, k), n)
             e == InsertEntry(c, k, n)
             db == Rebuilt(t, s)
             old == Rebuilt(t, v)
             b == Batch(c, u, n)
  <2>1. v \in Seq(Entries) /\ BatchEffect(db, old, c, n)
    BY <1>2
  <2>2. e \in Entries /\ b \in Seq(Entries) /\ Batch(c, Append(u, k), n) = Append(b, e)
    BY BatchAppend, InsertApplied
  <2>3. w = Append(v, e)
    <3>1. w = s \o Append(b, e) /\ v = s \o b
      BY <2>2
    <3> HIDE DEF w, v, e, b
    <3> QED
      BY <2>2, <3>1
  <2>4. Append(u, k) \in Seq(Keys)
    OBVIOUS
  <2>5. Rebuilt(t, w) = PutDoc(old, c, k, n) /\ old \in Dbs
    <3>1. old \in Dbs /\ ApplyEntry(old, e, t) = PutDoc(old, c, k, n)
      BY <2>1, RebuiltType, InsertApplied
    <3> HIDE DEF w, v, e
    <3> QED
      BY <2>1, <2>2, <2>3, <3>1, RebuiltSteps
  <2>6. w \in Seq(Entries)
    <3> HIDE DEF w, v, e
    <3> QED
      BY <2>1, <2>2, <2>3
  <2>7. BatchEffect(db, Rebuilt(t, w), c, n)
    <3> DEFINE new == Rebuilt(t, w)
    <3>1. new = PutDoc(old, c, k, n) /\ old \in Dbs
      BY <2>5
    <3> HIDE DEF w, old, db, new
    <3>2. BatchEffect(old, new, c, n)
      BY <3>1, PutEffect DEF BatchEffect
    <3>3. BatchEffect(db, new, c, n)
      BY <2>1, <3>2 DEF BatchEffect
    <3> QED
      BY <3>3 DEF new
  <2> QED
    BY <2>4, <2>6, <2>7
<1> HIDE DEF T
<1>3. \A u \in Seq(Keys) : u \in T
  BY <1>1, <1>2, Replaying!SeqSetInduction
<1> QED
  BY <1>3 DEF T
-----------------------------------------------------------------------------
(***************************************************************************)
(* The channel loses nothing unless it is full.                            *)
(***************************************************************************)
Changes == {Change(c) : c \in Collections}
Announcements == {TtlEvent(c, at) : c \in Collections, at \in Nat}
Events == Changes \cup Announcements

(* Every event of one queue is in the other. *)
Kept(old, new) == \A i \in DOMAIN old : \E j \in DOMAIN new : new[j] = old[i]

Queues == {q \in Seq(Events) : Len(q) <= Capacity}

LEMMA SendKeeps ==
    ASSUME NEW q \in Queues, NEW e \in Events
    PROVE  /\ Send(q, e) \in Queues
           /\ Len(Send(q, e)) < Capacity => Send(q, e) = Append(q, e)
           /\ Len(q) < Capacity =>
                Kept(q, Send(q, e)) /\ \E j \in DOMAIN Send(q, e) : Send(q, e)[j] = e
<1>0. q \in Seq(Events) /\ Len(q) <= Capacity /\ Len(q) \in Nat /\ Capacity \in Nat /\ Capacity > 0
  BY Constants DEF Queues
<1>1. CASE Len(q) = Capacity
  <2>1. q # <<>>
    BY <1>0, <1>1
  <2>2. Tail(q) \in Seq(Events) /\ Len(Tail(q)) = Len(q) - 1
    BY <1>0, <2>1
  <2>3. Append(Tail(q), e) \in Seq(Events) /\ Len(Append(Tail(q), e)) = Capacity
    BY <1>0, <1>1, <2>2
  <2> QED
    BY <1>0, <1>1, <2>3 DEF Send, Queues
<1>2. CASE Len(q) < Capacity
  <2>1. Append(q, e) \in Seq(Events) /\ Len(Append(q, e)) = Len(q) + 1
    BY <1>0
  <2>2. DOMAIN q = 1 .. Len(q) /\ DOMAIN Append(q, e) = 1 .. Len(q) + 1
        /\ Append(q, e)[Len(q) + 1] = e /\ \A i \in 1 .. Len(q) : Append(q, e)[i] = q[i]
    BY <1>0
  <2>3. Send(q, e) = Append(q, e)
    BY <1>0, <1>2 DEF Send
  <2>4. Kept(q, Append(q, e)) /\ \E j \in DOMAIN Append(q, e) : Append(q, e)[j] = e
    BY <1>0, <2>2 DEF Kept
  <2> QED
    BY <1>0, <1>2, <2>1, <2>3, <2>4 DEF Queues
<1> QED
  BY <1>0, <1>1, <1>2

SentAll(e, q, s) == Sending!Fold(e, q, s)

LEMMA SentIsFold ==
    ASSUME NEW c, NEW q, NEW s
    PROVE  FoldLeft(LAMBDA r, k : Send(r, Change(c)), q, s) = SentAll(Change(c), q, s)
BY DEF SentAll, Sending!Fold, SendOp, FoldLeft, MapThenFoldSet, Max,
       Sending!FoldLeft, Sending!MapThenFoldSet, Sending!Max

LEMMA SentKeeps ==
    ASSUME NEW q \in Queues, NEW e \in Events, NEW keys \in Seq(Keys)
    PROVE  /\ SentAll(e, q, keys) \in Queues
           /\ Len(SentAll(e, q, keys)) < Capacity => Kept(q, SentAll(e, q, keys))
<1> DEFINE Ok(r) == r \in Queues /\ (Len(r) < Capacity => Kept(q, r))
           T == {u \in Seq(Keys) : Ok(SentAll(e, q, u))}
<1>1. <<>> \in T
  <2>1. SentAll(e, q, <<>>) = q
    BY Sending!FoldEmpty DEF SentAll
  <2>2. Kept(q, q)
    BY DEF Kept
  <2> QED
    BY <2>1, <2>2, EmptySeq
<1>2. ASSUME NEW u \in Seq(Keys), NEW k \in Keys, u \in T PROVE Append(u, k) \in T
  <2> DEFINE r == SentAll(e, q, u)
  <2>1. Ok(r) /\ Append(u, k) \in Seq(Keys)
    BY <1>2
  <2>2. SentAll(e, q, Append(u, k)) = Send(r, e)
    BY Sending!FoldAppend DEF SentAll, SendOp
  <2> HIDE DEF r
  <2>3. Ok(Send(r, e))
    <3>1. Send(r, e) \in Queues
      BY <2>1, SendKeeps
    <3>2. ASSUME Len(Send(r, e)) < Capacity PROVE Kept(q, Send(r, e))
      <4>1. Send(r, e) = Append(r, e) /\ r \in Seq(Events)
        BY <2>1, <3>2, SendKeeps DEF Queues
      <4>2. Len(r) < Capacity
        BY <3>2, <4>1, Constants
      <4>3. Kept(q, r) /\ Kept(r, Send(r, e))
        BY <2>1, <4>2, SendKeeps
      <4> QED
        BY <4>3 DEF Kept
    <3> QED
      BY <3>1, <3>2
  <2> QED
    BY <2>1, <2>2, <2>3
<1> HIDE DEF T
<1>3. \A u \in Seq(Keys) : u \in T
  BY <1>1, <1>2, Sending!SeqSetInduction
<1> QED
  BY <1>3 DEF T
-----------------------------------------------------------------------------
(***************************************************************************)
(* The shape of the state.                                                 *)
(***************************************************************************)
Places == {"idle", "forget", "evicted", "store", "renew", "persist"}
Requests == [at : Places, c : Collections, keys : SUBSET (Keys \cup Nat)]
Passes == [at : {"wait", "pass", "drop", "forget"}, c : Collections, now : Nat]
Counts == [requests : Nat, restarts : Nat]

(* The keys of a batch; the instant of a renewal that is not logged yet. *)
RequestShape(r) ==
    /\ r \in Requests
    /\ IF r.at = "persist" THEN \E at \in Nat : r.keys = {at} ELSE r.keys \subseteq Keys

HeapShape(h) == \A e \in BagToSet(h) : h[e] \in Nat /\ h[e] > 0 /\ e[2] \in Collections

ShapeInv ==
    /\ now \in Nat
    /\ ttl_defaults \in [Collections -> Nat]
    /\ ttl_expiry \in [Collections -> Int]
    /\ life \in [Collections -> Nat]
    /\ log \in Seq(Entries)
    /\ events \in Queues
    /\ HeapShape(heap)
    /\ RequestShape(client)
    /\ sweep \in Passes
    /\ spent \in Counts

LEMMA IdleShape == RequestShape(Idle) /\ Idle.at = "idle" /\ Asleep \in Passes /\ Asleep.at = "wait"
BY Constants DEF RequestShape, Requests, Idle, Asleep, Passes, Places

(* Where a request goes: to another place, with another content. *)
LEMMA RequestTo ==
    ASSUME NEW r \in Requests, NEW x \in Places
    PROVE  /\ [r EXCEPT !.at = x] \in Requests
           /\ [r EXCEPT !.at = x].at = x /\ [r EXCEPT !.at = x].c = r.c
           /\ [r EXCEPT !.at = x].keys = r.keys
BY DEF Requests

LEMMA RequestRenewed ==
    ASSUME NEW r \in Requests, NEW at \in Nat
    PROVE  LET s == [r EXCEPT !.at = "persist", !.keys = {at}] IN
           RequestShape(s) /\ s.at = "persist" /\ s.c = r.c /\ s.keys = {at}
<1> DEFINE s == [r EXCEPT !.at = "persist", !.keys = {at}]
<1>1. s \in Requests /\ s.at = "persist" /\ s.c = r.c /\ s.keys = {at}
  BY DEF Requests, Places
<1> HIDE DEF s
<1>2. RequestShape(s)
  BY <1>1 DEF RequestShape
<1> QED
  BY <1>1, <1>2 DEF s

LEMMA RequestMade ==
    ASSUME NEW x \in {"forget", "evicted", "store"}, NEW c \in Collections, NEW K \in SUBSET Keys
    PROVE  LET s == [at |-> x, c |-> c, keys |-> K] IN
           RequestShape(s) /\ s.at = x /\ s.c = c
<1> DEFINE s == [at |-> x, c |-> c, keys |-> K]
<1>1. s \in Requests /\ s.at = x /\ s.c = c /\ s.keys = K
  BY DEF Requests, Places
<1> HIDE DEF s
<1>2. RequestShape(s)
  BY <1>1 DEF RequestShape
<1> QED
  BY <1>1, <1>2 DEF s

LEMMA PassTo ==
    ASSUME NEW p \in Passes, NEW x \in {"pass", "forget"}
    PROVE  /\ [p EXCEPT !.at = x] \in Passes
           /\ [p EXCEPT !.at = x].at = x /\ [p EXCEPT !.at = x].c = p.c
BY DEF Passes

LEMMA PassStarts ==
    ASSUME NEW p \in Passes, NEW n \in Nat
    PROVE  /\ [p EXCEPT !.at = "pass", !.now = n] \in Passes
           /\ [p EXCEPT !.at = "pass", !.now = n].at = "pass"
BY DEF Passes

LEMMA PassDrops ==
    ASSUME NEW p \in Passes, NEW c \in Collections
    PROVE  /\ [p EXCEPT !.at = "drop", !.c = c] \in Passes
           /\ [p EXCEPT !.at = "drop", !.c = c].at = "drop"
           /\ [p EXCEPT !.at = "drop", !.c = c].c = c
BY DEF Passes

LEMMA CountMoves ==
    ASSUME NEW n \in Counts
    PROVE  /\ [n EXCEPT !.requests = @ + 1] \in Counts
           /\ [n EXCEPT !.requests = @ + 1].restarts = n.restarts
           /\ [n EXCEPT !.restarts = @ + 1] \in Counts
           /\ [n EXCEPT !.restarts = @ + 1].restarts # 0
BY DEF Counts

LEMMA HeapPush ==
    ASSUME NEW h, HeapShape(h), NEW at, NEW c \in Collections
    PROVE  /\ HeapShape(Push(h, at, c))
           /\ BagToSet(Push(h, at, c)) = BagToSet(h) \cup {<<at, c>>}
BY DEF HeapShape, Push, (+), SetToBag, BagToSet

LEMMA HeapPop ==
    ASSUME NEW h, HeapShape(h), NEW e
    PROVE  /\ HeapShape(h (-) SetToBag({e}))
           /\ \A f \in BagToSet(h) : f # e => f \in BagToSet(h (-) SetToBag({e}))
BY DEF HeapShape, (-), SetToBag, BagToSet

LEMMA EventShapes ==
    ASSUME NEW c \in Collections, NEW at \in Nat
    PROVE  Change(c) \in Events /\ TtlEvent(c, at) \in Events
BY DEF Events, Changes, Announcements

LEMMA EventParts ==
    ASSUME NEW e \in Events
    PROVE  e[2] \in Collections
<1>1. \A c \in Collections, at \in Nat : Change(c)[2] = c /\ TtlEvent(c, at)[2] = c
  BY DEF Change, TtlEvent
<1> QED
  BY <1>1 DEF Events, Changes, Announcements

LEMMA DropShape ==
    ASSUME ShapeInv, NEW c \in Collections, DropDocs(c)
    PROVE  /\ log' = Append(log, DropEntry(c)) /\ log' \in Seq(Entries)
           /\ events' = Send(events, Change(c)) /\ events' \in Queues
<1>1. DropEntry(c) \in Entries /\ log \in Seq(Entries)
  BY DropApplied DEF ShapeInv
<1>2. log' = Append(log, DropEntry(c)) /\ events' = Send(events, Change(c))
  BY DEF DropDocs
<1>3. events' \in Queues
  BY <1>2, SendKeeps, EventShapes DEF ShapeInv
<1> QED
  BY <1>1, <1>2, <1>3

LEMMA ForgetShape ==
    ASSUME ShapeInv, NEW c \in Collections, Forget(c)
    PROVE  /\ ttl_defaults' \in [Collections -> Nat] /\ ttl_expiry' \in [Collections -> Int]
           /\ ttl_expiry'[c] = NoExpiry
           /\ \A d \in Collections : d # c => ttl_expiry'[d] = ttl_expiry[d]
                                              /\ ttl_defaults'[d] = ttl_defaults[d]
BY Constants DEF ShapeInv, Forget

LEMMA StoreShape ==
    ASSUME ShapeInv, InsertStore
    PROVE  \E keys \in Seq(Keys) :
              /\ log' = log \o Batch(client.c, keys, life[client.c]) /\ log' \in Seq(Entries)
              /\ events' = SentAll(Change(client.c), events, keys) /\ events' \in Queues
<1> DEFINE keys == SetToSeq(client.keys)
           c == client.c
<1>1. client.keys \subseteq Keys /\ c \in Collections /\ life[c] \in Nat /\ log \in Seq(Entries)
      /\ events \in Queues
  BY DEF ShapeInv, RequestShape, InsertStore, Requests
<1>2. keys \in Seq(Keys)
  <2>1. IsFiniteSet(client.keys)
    BY <1>1, Constants, FS_Subset
  <2>2. keys \in Seq(client.keys)
    BY <2>1, BatchInOrder
  <2> HIDE DEF keys
  <2> QED
    BY <1>1, <2>2
<1>3. log' = log \o Batch(c, keys, life[c])
  BY DEF InsertStore, Batch
<1>4. events' = SentAll(Change(c), events, keys)
  BY SentIsFold DEF InsertStore
<1>5. log' \in Seq(Entries)
  <2> HIDE DEF keys, c
  <2>1. log \o Batch(c, keys, life[c]) \in Seq(Entries)
    BY <1>1, <1>2, BatchReplayed
  <2> QED
    BY <1>3, <2>1
<1>6. events' \in Queues
  <2> HIDE DEF keys, c
  <2> QED
    BY <1>1, <1>2, <1>4, SentKeeps, EventShapes
<1> QED
  BY <1>2, <1>3, <1>4, <1>5, <1>6

LEMMA ShapeInit == Init => ShapeInv
<1> SUFFICES ASSUME Init PROVE ShapeInv
  OBVIOUS
<1>1. now \in Nat /\ ttl_defaults \in [Collections -> Nat] /\ ttl_expiry \in [Collections -> Int]
      /\ life \in [Collections -> Nat] /\ spent \in Counts
  BY Constants DEF Init, Counts
<1>2. log \in Seq(Entries) /\ events \in Queues
  <2>1. <<>> \in Seq(Entries) /\ <<>> \in Seq(Events) /\ Len(<<>>) = 0
    BY EmptySeq
  <2> QED
    BY <2>1, Constants DEF Init, Queues
<1>3. HeapShape(heap)
  BY DEF Init, EmptyBag, SetToBag, HeapShape, BagToSet
<1>4. RequestShape(client) /\ sweep \in Passes
  BY IdleShape DEF Init
<1> QED
  BY <1>1, <1>2, <1>3, <1>4 DEF ShapeInv

(* What a request does to itself and to the expiries: its record keeps its shape. *)
LEMMA ClientShape ==
    ASSUME ShapeInv, Client
    PROVE  /\ RequestShape(client') /\ ttl_defaults' \in [Collections -> Nat]
           /\ ttl_expiry' \in [Collections -> Int]
           /\ log' \in Seq(Entries) /\ events' \in Queues
           /\ UNCHANGED <<now, heap, sweep, history, spent>>
<1>0. /\ client \in Requests /\ client.c \in Collections /\ RequestShape(client)
      /\ now \in Nat /\ ttl_defaults \in [Collections -> Nat] /\ ttl_expiry \in [Collections -> Int]
      /\ log \in Seq(Entries) /\ events \in Queues
  BY DEF ShapeInv, RequestShape, Requests
<1>1. CASE DropForget
  BY <1>0, <1>1, ForgetShape, IdleShape DEF DropForget
<1>2. CASE InsertUnset
  <2>1. client.keys \subseteq Keys
    BY <1>0, <1>2 DEF InsertUnset, RequestShape
  <2>2. "store" \in Places /\ client' = [client EXCEPT !.at = "store"]
    BY <1>2 DEF InsertUnset, Places
  <2>3. client' \in Requests /\ client'.at # "persist" /\ client'.keys = client.keys
    BY <1>0, <2>2, RequestTo
  <2>4. RequestShape(client')
    BY <2>1, <2>3 DEF RequestShape
  <2> QED
    BY <1>0, <1>2, <2>4, Constants DEF InsertUnset
<1>3. CASE InsertStore
  <2>1. client.keys \subseteq Keys
    BY <1>0, <1>3 DEF InsertStore, RequestShape
  <2>2. "renew" \in Places /\ client' = [client EXCEPT !.at = "renew"]
    BY <1>3 DEF InsertStore, Places
  <2>3. client' \in Requests /\ client'.at # "persist" /\ client'.keys = client.keys
    BY <1>0, <2>2, RequestTo
  <2>4. RequestShape(client')
    BY <2>1, <2>3 DEF RequestShape
  <2> QED
    BY <1>0, <1>3, <2>4, StoreShape DEF InsertStore
<1>4. CASE InsertRenew
  <2> DEFINE at == now + ttl_defaults[client.c]
  <2>0. at \in Nat
    BY <1>0
  <2>1. CASE ttl_defaults[client.c] = 0
    BY <1>0, <1>4, <2>1, IdleShape DEF InsertRenew
  <2>2. CASE ttl_defaults[client.c] # 0
    <3>1. client' = [client EXCEPT !.at = "persist", !.keys = {at}]
          /\ ttl_expiry' = [ttl_expiry EXCEPT ![client.c] = at]
      BY <1>4, <2>2 DEF InsertRenew
    <3> HIDE DEF at
    <3>2. RequestShape(client')
      BY <1>0, <2>0, <3>1, RequestRenewed
    <3>3. ttl_expiry' \in [Collections -> Int]
      BY <1>0, <2>0, <3>1
    <3> QED
      BY <1>0, <1>4, <3>2, <3>3 DEF InsertRenew
  <2> QED
    BY <2>1, <2>2
<1>5. CASE InsertPersist
  <2>1. PICK at \in Nat : client.keys = {at}
    BY <1>0, <1>5 DEF InsertPersist, RequestShape
  <2>2. log' = Append(log, TtlEntry(client.c, at)) /\ events' = Send(events, TtlEvent(client.c, at))
    BY <1>5, <2>1 DEF InsertPersist
  <2>3. TtlEntry(client.c, at) \in Entries
    BY <1>0, ExpiryApplied
  <2>4. log' \in Seq(Entries)
    BY <1>0, <2>2, <2>3
  <2>5. events' \in Queues
    BY <1>0, <2>2, SendKeeps, EventShapes
  <2> QED
    BY <1>0, <1>5, <2>4, <2>5, IdleShape DEF InsertPersist
<1> QED
  BY <1>1, <1>2, <1>3, <1>4, <1>5 DEF Client

LEMMA SweepShape ==
    ASSUME ShapeInv, Sweep
    PROVE  /\ HeapShape(heap') /\ sweep' \in Passes
           /\ ttl_defaults' \in [Collections -> Nat] /\ ttl_expiry' \in [Collections -> Int]
           /\ log' \in Seq(Entries) /\ events' \in Queues
           /\ UNCHANGED <<now, client, life, overtaken, spent>> /\ unswept \subseteq unswept'
<1> USE DEF engine
<1>0. /\ sweep.c \in Collections /\ sweep \in Passes /\ HeapShape(heap) /\ now \in Nat
      /\ ttl_defaults \in [Collections -> Nat] /\ ttl_expiry \in [Collections -> Int]
      /\ log \in Seq(Entries) /\ events \in Queues
  BY DEF ShapeInv, Passes
<1>1. CASE SweepReceive
  <2>1. events \in Seq(Events) /\ events # <<>> /\ Len(events) <= Capacity
    BY <1>0, <1>1 DEF SweepReceive, Queues
  <2>2. Tail(events) \in Queues
    BY <2>1, Constants DEF Queues
  <2>3. HeapShape(heap')
    <3>1. Head(events) \in Events
      BY <2>1
    <3> QED
      BY <1>0, <1>1, <3>1, HeapPush, EventParts DEF SweepReceive
  <2> QED
    BY <1>0, <1>1, <2>2, <2>3 DEF SweepReceive
<1>2. CASE SweepWake
  BY <1>0, <1>2, PassStarts DEF SweepWake
<1>3. CASE SweepDrop
  <2>1. sweep' \in Passes
    BY <1>0, <1>3, PassTo DEF SweepDrop
  <2>2. log' \in Seq(Entries) /\ events' \in Queues
    BY <1>0, <1>3, DropShape DEF SweepDrop
  <2> QED
    BY <1>0, <1>3, <2>1, <2>2 DEF SweepDrop
<1>7. CASE SweepDropFails
  <2>1. sweep' \in Passes
    BY <1>0, <1>7, PassTo DEF SweepDropFails
  <2> QED
    BY <1>0, <1>7, <2>1 DEF SweepDropFails, DropFails
<1>4. CASE SweepForget
  <2>1. sweep' \in Passes
    BY <1>0, <1>4, PassTo DEF SweepForget
  <2>2. ttl_defaults' \in [Collections -> Nat] /\ ttl_expiry' \in [Collections -> Int]
    BY <1>0, <1>4, ForgetShape DEF SweepForget
  <2> QED
    BY <1>0, <1>4, <2>1, <2>2 DEF SweepForget
<1>5. CASE SweepSleep
  BY <1>0, <1>5, IdleShape DEF SweepSleep
<1>6. ASSUME NEW e \in BagToSet(heap), SweepPop(e)
      PROVE  /\ HeapShape(heap') /\ sweep' \in Passes
             /\ UNCHANGED <<now, engine, events, client, history, spent>>
  <2> DEFINE c == e[2]
             h == heap (-) SetToBag({e})
  <2>1. c \in Collections /\ HeapShape(h)
    BY <1>0, HeapPop DEF HeapShape
  <2>2. CASE ttl_expiry[c] # NoExpiry /\ ttl_expiry[c] > sweep.now
    <3>1. heap' = Push(h, ttl_expiry[c], c) /\ sweep' = sweep
      BY <1>6, <2>2 DEF SweepPop
    <3> HIDE DEF c, h
    <3>2. HeapShape(heap')
      BY <2>1, <3>1, HeapPush
    <3> QED
      BY <1>0, <1>6, <3>1, <3>2 DEF SweepPop
  <2>3. CASE ~ (ttl_expiry[c] # NoExpiry /\ ttl_expiry[c] > sweep.now)
    <3>1. heap' = h /\ sweep' = [sweep EXCEPT !.at = "drop", !.c = c]
      BY <1>6, <2>3 DEF SweepPop
    <3> HIDE DEF c, h
    <3>2. HeapShape(heap') /\ sweep' \in Passes
      BY <1>0, <2>1, <3>1, PassDrops
    <3> QED
      BY <1>6, <3>2 DEF SweepPop
  <2> QED
    BY <2>2, <2>3
<1> QED
  BY <1>0, <1>1, <1>2, <1>3, <1>4, <1>5, <1>6, <1>7 DEF Sweep

LEMMA RestartShape ==
    ASSUME ShapeInv, NEW t \in now .. MaxTime, Restart(t)
    PROVE  /\ t \in Nat /\ Replayed(t) \in Dbs
           /\ ttl_expiry' = Replayed(t).ttl /\ ttl_expiry' \in [Collections -> Int]
           /\ BagToSet(heap') = {<<ttl_expiry'[c], c>> :
                                    c \in {d \in Collections : ttl_expiry'[d] # NoExpiry}}
           /\ HeapShape(heap')
<1>1. t \in Nat
  BY Constants DEF ShapeInv
<1>2. Replayed(t) \in Dbs
  BY <1>1, ReplayedIsRebuilt, RebuiltType DEF ShapeInv
<1>3. ttl_expiry' = Replayed(t).ttl /\ ttl_expiry' \in [Collections -> Int]
  BY <1>2 DEF Restart, Dbs
<1> DEFINE H == {<<ttl_expiry'[c], c>> : c \in {d \in Collections : ttl_expiry'[d] # NoExpiry}}
<1>4. heap' = SetToBag(H)
  BY <1>3 DEF Restart
<1>5. \A e \in H : e[2] \in Collections
  OBVIOUS
<1> HIDE DEF H
<1>6. BagToSet(heap') = H /\ HeapShape(heap')
  BY <1>4, <1>5 DEF SetToBag, BagToSet, HeapShape
<1> QED
  BY <1>1, <1>2, <1>3, <1>6 DEF H

LEMMA ShapeStep ==
    ASSUME ShapeInv, [Next]_vars
    PROVE  ShapeInv'
<1> USE DEF ShapeInv
<1>0. [spent EXCEPT !.requests = @ + 1] \in Counts
  BY CountMoves
<1>1. ASSUME NEW c \in Collections, NEW secs \in Ttls, SetTtlDefault(c, secs) PROVE ShapeInv'
  BY <1>0, <1>1, Constants DEF SetTtlDefault, Arrive
<1>2. ASSUME NEW c \in Collections, DropCollection(c) PROVE ShapeInv'
  <2>1. RequestShape(client')
    BY <1>2, RequestMade DEF DropCollection
  <2>2. log' \in Seq(Entries) /\ events' \in Queues
    BY <1>2, DropShape DEF DropCollection, DropFails
  <2> QED
    BY <1>0, <1>2, <2>1, <2>2 DEF DropCollection, Arrive
<1>3. ASSUME NEW c \in Collections, NEW keys \in (SUBSET Keys) \ {{}}, Insert(c, keys)
      PROVE  ShapeInv'
  <2>1. RequestShape(client')
    BY <1>3, RequestMade DEF Insert
  <2>2. log' \in Seq(Entries) /\ events' \in Queues
    BY <1>3, DropShape DEF Insert, DropFails
  <2> QED
    BY <1>0, <1>3, <2>1, <2>2 DEF Insert, Arrive
<1>4. CASE Client
  BY <1>4, ClientShape
<1>5. CASE Sweep
  BY <1>5, SweepShape
<1>6. CASE Tick
  BY <1>6 DEF Tick, engine
<1>7. ASSUME NEW t \in now .. MaxTime, Restart(t) PROVE ShapeInv'
  <2>1. events' \in Queues
    <3>1. <<>> \in Seq(Events) /\ Len(<<>>) = 0
      BY EmptySeq
    <3> QED
      BY <1>7, <3>1, Constants DEF Restart, Queues
  <2>2. ttl_defaults' \in [Collections -> Nat]
    BY <1>7 DEF Restart
  <2> QED
    BY <1>7, <2>1, <2>2, RestartShape, IdleShape, CountMoves DEF Restart
<1>8. CASE UNCHANGED vars
  BY <1>8 DEF vars, HeapShape, RequestShape
<1> QED
  BY <1>1, <1>2, <1>3, <1>4, <1>5, <1>6, <1>7, <1>8 DEF Next
-----------------------------------------------------------------------------
(***************************************************************************)
(* The sweep's heap.  A request covers the collection it is busy with only *)
(* where it will still forget or announce the expiry: at the other places  *)
(* the expiry in force is an older one, which others cover.                *)
(***************************************************************************)
Busy(c) == client.at \in {"forget", "evicted", "persist"} /\ client.c = c
Dropping(c) == (sweep.at \in {"drop", "forget"} /\ sweep.c = c) \/ c \in unswept
InHeap(c) == \E e \in BagToSet(heap) : e[2] = c /\ e[1] <= ttl_expiry[c]
Announces(e, c, at) == e[1] = "ttl_expiry" /\ e[2] = c /\ e[3] <= at
OnItsWay(c) == \E i \in DOMAIN events : Announces(events[i], c, ttl_expiry[c])

Covered(c) == InHeap(c) \/ OnItsWay(c) \/ Busy(c) \/ Dropping(c)

CoverInv ==
    /\ \A c \in Collections : ttl_expiry[c] # NoExpiry => Covered(c)
    /\ client.at = "persist" =>
          \E at : client.keys = {at} /\ ttl_expiry[client.c] \in {NoExpiry, at}

(* The channel is not full: what is sent next displaces nothing. *)
Room == Len(events) < Capacity

CoverKept(c) ==
    /\ ttl_expiry'[c] = ttl_expiry[c]
    /\ \A e \in BagToSet(heap) : e[2] = c => e \in BagToSet(heap')
    /\ Kept(events, events')
    /\ Busy(c) => Busy(c)'
    /\ Dropping(c) => Dropping(c)'

LEMMA StillCovered ==
    ASSUME NEW c, CoverKept(c), Covered(c)
    PROVE  Covered(c)'
<1>1. CASE InHeap(c)
  <2>1. InHeap(c)'
    BY <1>1 DEF CoverKept, InHeap
  <2> QED
    BY <2>1 DEF Covered
<1>2. CASE OnItsWay(c)
  <2>1. PICK i \in DOMAIN events : Announces(events[i], c, ttl_expiry[c])
    BY <1>2 DEF OnItsWay
  <2>2. PICK j \in DOMAIN events' : events'[j] = events[i]
    BY <2>1 DEF CoverKept, Kept
  <2>3. OnItsWay(c)'
    BY <2>1, <2>2 DEF OnItsWay, CoverKept, Announces
  <2> QED
    BY <2>3 DEF Covered
<1>3. CASE Busy(c) \/ Dropping(c)
  BY <1>3 DEF CoverKept, Covered
<1> QED
  BY <1>1, <1>2, <1>3 DEF Covered

LEMMA QueueSame == \A q : Kept(q, q)
BY DEF Kept

(* A step that leaves nobody uncovered and no request waiting to announce. *)
LEMMA CoverByAll ==
    ASSUME CoverInv, client'.at # "persist",
           \A c \in Collections : ttl_expiry'[c] = NoExpiry \/ CoverKept(c) \/ Covered(c)'
    PROVE  CoverInv'
<1>1. ASSUME NEW c \in Collections, ttl_expiry'[c] # NoExpiry PROVE Covered(c)'
  <2>1. CASE CoverKept(c)
    <3>1. ttl_expiry[c] # NoExpiry
      BY <1>1, <2>1 DEF CoverKept
    <3> QED
      BY <2>1, <3>1, StillCovered DEF CoverInv
  <2> QED
    BY <1>1, <2>1
<1> QED
  BY <1>1 DEF CoverInv

LEMMA CoverInit == Init => CoverInv
BY IdleShape DEF Init, CoverInv

LEMMA CoverArrivals ==
    ASSUME ShapeInv, CoverInv, Room,
           \/ \E c \in Collections, secs \in Ttls : SetTtlDefault(c, secs)
           \/ \E c \in Collections : DropCollection(c)
           \/ \E c \in Collections, keys \in (SUBSET Keys) \ {{}} : Insert(c, keys)
    PROVE  CoverInv'
<1>0. client.at = "idle" /\ ttl_expiry \in [Collections -> Int] /\ heap' = heap /\ sweep' = sweep
      /\ unswept' = unswept
  BY DEF SetTtlDefault, DropCollection, Insert, Arrive, ShapeInv
<1>1. \A c : ~ Busy(c) /\ (Dropping(c) => Dropping(c)')
  BY <1>0 DEF Busy, Dropping
<1>2. ASSUME NEW c \in Collections, DropDocs(c) PROVE Kept(events, events')
  <2>1. events \in Queues /\ events' = Send(events, Change(c)) /\ Change(c) \in Events
    BY <1>2, DropShape, EventShapes DEF ShapeInv
  <2> QED
    BY <2>1, SendKeeps DEF Room
<1>3. ASSUME NEW c \in Collections, NEW secs \in Ttls, SetTtlDefault(c, secs) PROVE CoverInv'
  <2>1. client' = client /\ events' = events
        /\ \A d \in Collections : ttl_expiry'[d] = NoExpiry \/ ttl_expiry'[d] = ttl_expiry[d]
    BY <1>0, <1>3 DEF SetTtlDefault
  <2>2. \A d \in Collections : ttl_expiry'[d] = NoExpiry \/ CoverKept(d)
    BY <1>0, <1>1, <2>1, QueueSame DEF CoverKept
  <2> QED
    BY <1>0, <2>1, <2>2, CoverByAll
<1>4. ASSUME NEW c \in Collections, DropCollection(c) PROVE CoverInv'
  <2>1. client'.at # "persist" /\ ttl_expiry' = ttl_expiry
    BY <1>0, <1>4, RequestMade DEF DropCollection
  <2>3. Kept(events, events')
    BY <1>2, <1>4, QueueSame DEF DropCollection, DropFails
  <2>2. \A d \in Collections : CoverKept(d)
    BY <1>0, <1>1, <2>1, <2>3 DEF CoverKept
  <2> QED
    BY <2>1, <2>2, CoverByAll
<1>5. ASSUME NEW c \in Collections, NEW keys \in (SUBSET Keys) \ {{}}, Insert(c, keys)
      PROVE  CoverInv'
  <2>1. client'.at # "persist" /\ ttl_expiry' = ttl_expiry
    BY <1>5, RequestMade DEF Insert
  <2>2. Kept(events, events')
    BY <1>2, <1>5, QueueSame DEF Insert, DropFails
  <2>3. \A d \in Collections : CoverKept(d)
    BY <1>0, <1>1, <2>1, <2>2 DEF CoverKept
  <2> QED
    BY <2>1, <2>3, CoverByAll
<1> QED
  BY <1>3, <1>4, <1>5

LEMMA CoverClient ==
    ASSUME ShapeInv, CoverInv, Room, Room', Client
    PROVE  CoverInv'
<1>0. /\ client \in Requests /\ client.c \in Collections /\ RequestShape(client)
      /\ now \in Nat /\ ttl_defaults \in [Collections -> Nat] /\ ttl_expiry \in [Collections -> Int]
      /\ events \in Queues
  BY DEF ShapeInv, RequestShape, Requests
<1>00. heap' = heap /\ sweep' = sweep /\ unswept' = unswept
  BY ClientShape
<1>01. \A c : Dropping(c) => Dropping(c)'
  BY <1>00 DEF Dropping
<1>1. CASE DropForget
  <2>1. client' = Idle /\ events' = events /\ ttl_expiry'[client.c] = NoExpiry
        /\ \A d \in Collections : d # client.c => ttl_expiry'[d] = ttl_expiry[d]
    BY <1>0, <1>1, ForgetShape DEF DropForget
  <2>2. \A d \in Collections : d # client.c => CoverKept(d)
    BY <1>00, <1>01, <2>1, QueueSame DEF CoverKept, Busy
  <2> QED
    BY <2>1, <2>2, IdleShape, CoverByAll
<1>2. CASE InsertUnset
  <2>1. client'.at = "store" /\ events' = events /\ ttl_expiry'[client.c] = NoExpiry
        /\ \A d \in Collections : d # client.c => ttl_expiry'[d] = ttl_expiry[d]
    BY <1>0, <1>2, RequestTo DEF InsertUnset, Places
  <2>2. \A d \in Collections : d # client.c => CoverKept(d)
    BY <1>00, <1>01, <2>1, QueueSame DEF CoverKept, Busy
  <2> QED
    BY <2>1, <2>2, CoverByAll
<1>3. CASE InsertStore
  <2>1. client.at = "store" /\ client'.at = "renew" /\ ttl_expiry' = ttl_expiry
    BY <1>0, <1>3, RequestTo DEF InsertStore, Places
  <2>2. Kept(events, events')
    <3>1. PICK keys \in Seq(Keys) : events' = SentAll(Change(client.c), events, keys)
      BY <1>3, StoreShape
    <3>2. Change(client.c) \in Events
      BY <1>0, EventShapes
    <3> QED
      BY <1>0, <3>1, <3>2, SentKeeps DEF Room
  <2>3. \A d \in Collections : CoverKept(d)
    BY <1>00, <1>01, <2>1, <2>2 DEF CoverKept, Busy
  <2> QED
    BY <2>1, <2>3, CoverByAll
<1>4. CASE InsertRenew
  <2> DEFINE at == now + ttl_defaults[client.c]
  <2>1. CASE ttl_defaults[client.c] = 0
    <3>1. client.at = "renew" /\ client' = Idle /\ ttl_expiry' = ttl_expiry /\ events' = events
      BY <1>4, <2>1 DEF InsertRenew
    <3>2. \A d \in Collections : CoverKept(d)
      BY <1>00, <1>01, <3>1, QueueSame DEF CoverKept, Busy
    <3> QED
      BY <3>1, <3>2, IdleShape, CoverByAll
  <2>2. CASE ttl_defaults[client.c] # 0
    <3>0. at \in Nat
      BY <1>0
    <3>1. client' = [client EXCEPT !.at = "persist", !.keys = {at}]
          /\ ttl_expiry' = [ttl_expiry EXCEPT ![client.c] = at] /\ client.at = "renew"
          /\ events' = events
      BY <1>4, <2>2 DEF InsertRenew
    <3> HIDE DEF at
    <3>2. client'.at = "persist" /\ client'.c = client.c /\ client'.keys = {at}
      BY <1>0, <3>0, <3>1, RequestRenewed
    <3>3. ttl_expiry'[client.c] = at
          /\ \A d \in Collections : d # client.c => ttl_expiry'[d] = ttl_expiry[d]
      BY <1>0, <3>1
    <3>4. \A d \in Collections : d # client.c => CoverKept(d)
      BY <1>00, <1>01, <3>1, <3>3, QueueSame DEF CoverKept, Busy
    <3>5. ASSUME NEW d \in Collections, ttl_expiry'[d] # NoExpiry PROVE Covered(d)'
      <4>1. CASE d = client.c
        BY <3>2, <4>1 DEF Covered, Busy
      <4>2. CASE d # client.c
        <5>1. CoverKept(d) /\ Covered(d)
          BY <3>3, <3>4, <3>5, <4>2 DEF CoverInv
        <5> QED
          BY <5>1, StillCovered
      <4> QED
        BY <4>1, <4>2
    <3> QED
      BY <3>2, <3>3, <3>5 DEF CoverInv
  <2> QED
    BY <2>1, <2>2
<1>5. CASE InsertPersist
  <2>1. PICK at \in Nat : client.keys = {at}
    BY <1>0, <1>5 DEF InsertPersist, RequestShape
  <2>2. events' = Send(events, TtlEvent(client.c, at)) /\ client' = Idle /\ ttl_expiry' = ttl_expiry
    BY <1>5, <2>1 DEF InsertPersist
  <2>3. ttl_expiry[client.c] \in {NoExpiry, at}
    <3>1. client.at = "persist"
      BY <1>5 DEF InsertPersist
    <3> QED
      BY <2>1, <3>1 DEF CoverInv
  <2>4. Kept(events, events') /\ \E j \in DOMAIN events' : events'[j] = TtlEvent(client.c, at)
    <3>1. TtlEvent(client.c, at) \in Events
      BY <1>0, EventShapes
    <3> QED
      BY <1>0, <2>2, <3>1, SendKeeps DEF Room
  <2>5. \A d \in Collections : d # client.c => CoverKept(d)
    BY <1>00, <1>01, <2>2, <2>4 DEF CoverKept, Busy
  <2>6. ASSUME NEW c \in Collections, c = client.c, ttl_expiry'[c] # NoExpiry PROVE Covered(c)'
    <3>1. Announces(TtlEvent(c, at), c, at)
      BY DEF Announces, TtlEvent
    <3>2. ttl_expiry'[c] = at
      BY <2>2, <2>3, <2>6
    <3>3. OnItsWay(c)'
      BY <2>4, <2>6, <3>1, <3>2 DEF OnItsWay, Announces
    <3> QED
      BY <3>3 DEF Covered
  <2>7. \A c \in Collections : ttl_expiry'[c] = NoExpiry \/ CoverKept(c) \/ Covered(c)'
    BY <2>5, <2>6
  <2> QED
    BY <2>2, <2>7, IdleShape, CoverByAll
<1> QED
  BY <1>1, <1>2, <1>3, <1>4, <1>5 DEF Client

(* The same for a step of another process, while a request may wait to announce. *)
LEMMA CoverByOthers ==
    ASSUME CoverInv, client' = client, client.c \in Collections,
           \A c \in Collections : \/ ttl_expiry'[c] = NoExpiry
                                  \/ ttl_expiry'[c] = ttl_expiry[c] /\ (CoverKept(c) \/ Covered(c)')
    PROVE  CoverInv'
<1>1. ASSUME NEW c \in Collections, ttl_expiry'[c] # NoExpiry PROVE Covered(c)'
  <2>1. CASE CoverKept(c)
    <3>1. ttl_expiry[c] # NoExpiry
      BY <1>1, <2>1 DEF CoverKept
    <3> QED
      BY <2>1, <3>1, StillCovered DEF CoverInv
  <2> QED
    BY <1>1, <2>1
<1> QED
  BY <1>1 DEF CoverInv

LEMMA CoverSweep ==
    ASSUME ShapeInv, CoverInv, Room, Sweep
    PROVE  CoverInv'
<1> USE DEF engine
<1>0. /\ sweep.c \in Collections /\ sweep \in Passes /\ HeapShape(heap) /\ now \in Nat
      /\ ttl_expiry \in [Collections -> Int] /\ events \in Queues /\ client.c \in Collections
  BY DEF ShapeInv, Passes, RequestShape, Requests
<1>00. client' = client /\ unswept \subseteq unswept'
  BY SweepShape
<1>01. \A c : Busy(c) => Busy(c)'
  BY <1>00 DEF Busy
<1>1. CASE SweepReceive
  <2>1. events \in Seq(Events) /\ events # <<>> /\ events' = Tail(events) /\ ttl_expiry' = ttl_expiry
        /\ sweep' = sweep
    BY <1>0, <1>1 DEF SweepReceive, Queues
  <2> DEFINE e == Head(events)
  <2>2. e \in Events /\ e[2] \in Collections /\ e = events[1]
    <3>1. e \in Events /\ e = events[1]
      BY <2>1
    <3> QED
      BY <3>1, EventParts
  <2>3. /\ \A f \in BagToSet(heap) : f \in BagToSet(heap')
        /\ e[1] = "ttl_expiry" => <<e[3], e[2]>> \in BagToSet(heap')
    BY <1>0, <1>1, <2>2, HeapPush DEF SweepReceive
  <2>4. \A i \in DOMAIN events : i # 1 => \E j \in DOMAIN events' : events'[j] = events[i]
    <3>1. ASSUME NEW i \in DOMAIN events, i # 1
          PROVE  i - 1 \in DOMAIN Tail(events) /\ Tail(events)[i - 1] = events[i]
      BY <2>1, <3>1
    <3> QED
      BY <2>1, <3>1
  <2> HIDE DEF e
  <2>5. ASSUME NEW c \in Collections, Covered(c) PROVE Covered(c)'
    <3>1. CASE InHeap(c)
      <4>1. InHeap(c)'
        BY <2>1, <2>3, <3>1 DEF InHeap
      <4> QED
        BY <4>1 DEF Covered
    <3>2. CASE OnItsWay(c)
      <4>1. PICK i \in DOMAIN events : Announces(events[i], c, ttl_expiry[c])
        BY <3>2 DEF OnItsWay
      <4>2. CASE i = 1
        <5>1. e[1] = "ttl_expiry" /\ e[2] = c /\ e[3] <= ttl_expiry[c]
          BY <2>2, <4>1, <4>2 DEF Announces
        <5> DEFINE f == <<e[3], e[2]>>
        <5>2. f \in BagToSet(heap') /\ f[2] = c /\ f[1] <= ttl_expiry'[c]
          BY <2>1, <2>3, <5>1
        <5> HIDE DEF f
        <5>3. InHeap(c)'
          BY <5>2 DEF InHeap
        <5> QED
          BY <5>3 DEF Covered
      <4>3. CASE i # 1
        <5>1. PICK j \in DOMAIN events' : events'[j] = events[i]
          BY <2>4, <4>3
        <5>2. OnItsWay(c)'
          BY <2>1, <4>1, <5>1 DEF OnItsWay, Announces
        <5> QED
          BY <5>2 DEF Covered
      <4> QED
        BY <4>2, <4>3
    <3>3. CASE Busy(c) \/ Dropping(c)
      BY <1>00, <1>01, <2>1, <3>3 DEF Dropping, Covered
    <3> QED
      BY <2>5, <3>1, <3>2, <3>3 DEF Covered
  <2>6. \A c \in Collections : ttl_expiry'[c] = NoExpiry \/ Covered(c)'
    BY <2>1, <2>5 DEF CoverInv
  <2> QED
    BY <1>0, <1>00, <2>1, <2>6, CoverByOthers
<1>2. CASE SweepWake
  <2>1. sweep.at = "wait" /\ ttl_expiry' = ttl_expiry /\ events' = events /\ heap' = heap
    BY <1>2 DEF SweepWake
  <2>2. \A c \in Collections : CoverKept(c)
    BY <1>00, <1>01, <2>1, QueueSame DEF CoverKept, Dropping
  <2> QED
    BY <1>0, <1>00, <2>1, <2>2, CoverByOthers
<1>3. CASE SweepDrop
  <2>1. sweep.at = "drop" /\ ttl_expiry' = ttl_expiry /\ heap' = heap
        /\ sweep'.at = "forget" /\ sweep'.c = sweep.c
    BY <1>0, <1>3, PassTo DEF SweepDrop
  <2>2. Kept(events, events')
    <3>1. events' = Send(events, Change(sweep.c)) /\ Change(sweep.c) \in Events
      BY <1>0, <1>3, DropShape, EventShapes DEF SweepDrop
    <3> QED
      BY <1>0, <3>1, SendKeeps DEF Room
  <2>3. \A c \in Collections : CoverKept(c)
    BY <1>00, <1>01, <2>1, <2>2 DEF CoverKept, Dropping
  <2> QED
    BY <1>0, <1>00, <2>1, <2>3, CoverByOthers
<1>4. CASE SweepForget
  <2>1. /\ ttl_expiry'[sweep.c] = NoExpiry
        /\ \A d \in Collections : d # sweep.c => ttl_expiry'[d] = ttl_expiry[d]
        /\ events' = events /\ heap' = heap
    BY <1>0, <1>4, ForgetShape DEF SweepForget
  <2>2. \A c \in Collections : c # sweep.c => CoverKept(c)
    BY <1>00, <1>01, <2>1, QueueSame DEF CoverKept, Dropping
  <2> QED
    BY <1>0, <1>00, <2>1, <2>2, CoverByOthers
<1>5. CASE SweepSleep
  <2>1. sweep.at = "pass" /\ ttl_expiry' = ttl_expiry /\ events' = events /\ heap' = heap
    BY <1>5 DEF SweepSleep
  <2>2. \A c \in Collections : CoverKept(c)
    BY <1>00, <1>01, <2>1, QueueSame DEF CoverKept, Dropping
  <2> QED
    BY <1>0, <1>00, <2>1, <2>2, CoverByOthers
<1>6. ASSUME NEW e \in BagToSet(heap), SweepPop(e) PROVE CoverInv'
  <2> DEFINE c == e[2]
             h == heap (-) SetToBag({e})
  <2>1. /\ c \in Collections /\ HeapShape(h)
        /\ \A f \in BagToSet(heap) : f # e => f \in BagToSet(h)
    BY <1>0, HeapPop DEF HeapShape
  <2>2. sweep.at = "pass" /\ ttl_expiry' = ttl_expiry /\ events' = events
    BY <1>6 DEF SweepPop
  <2>3. CASE ttl_expiry[c] # NoExpiry /\ ttl_expiry[c] > sweep.now
    <3>1. heap' = Push(h, ttl_expiry[c], c)
      BY <1>6, <2>3 DEF SweepPop
    <3>2. BagToSet(heap') = BagToSet(h) \cup {<<ttl_expiry[c], c>>}
      <4> HIDE DEF c, h
      <4> QED
        BY <2>1, <3>1, HeapPush
    <3>3. Covered(c)'
      <4> DEFINE f == <<ttl_expiry[c], c>>
      <4>1. f \in BagToSet(heap') /\ f[2] = c /\ f[1] <= ttl_expiry'[c]
        BY <1>0, <2>1, <2>2, <3>2
      <4> HIDE DEF f, c
      <4>2. InHeap(c)'
        BY <4>1 DEF InHeap
      <4> QED
        BY <4>2 DEF Covered
    <3>4. ASSUME NEW d \in Collections, d # c PROVE CoverKept(d)
      <4>1. \A f \in BagToSet(heap) : f[2] = d => f \in BagToSet(heap')
        BY <2>1, <3>2, <3>4
      <4> QED
        BY <1>00, <1>01, <2>2, <4>1, QueueSame DEF CoverKept, Dropping
    <3> QED
      BY <1>0, <1>00, <2>2, <3>3, <3>4, CoverByOthers
  <2>4. CASE ~ (ttl_expiry[c] # NoExpiry /\ ttl_expiry[c] > sweep.now)
    <3>1. heap' = h /\ sweep' = [sweep EXCEPT !.at = "drop", !.c = c]
      BY <1>6, <2>4 DEF SweepPop
    <3>2. sweep'.at = "drop" /\ sweep'.c = c
      <4> HIDE DEF c, h
      <4> QED
        BY <1>0, <2>1, <3>1, PassDrops
    <3>3. Covered(c)'
      BY <3>2 DEF Covered, Dropping
    <3>4. ASSUME NEW d \in Collections, d # c PROVE CoverKept(d)
      <4>1. \A f \in BagToSet(heap) : f[2] = d => f \in BagToSet(heap')
        BY <2>1, <3>1, <3>4
      <4> QED
        BY <1>00, <1>01, <2>2, <4>1, QueueSame DEF CoverKept, Dropping
    <3> QED
      BY <1>0, <1>00, <2>2, <3>3, <3>4, CoverByOthers
  <2> QED
    BY <2>3, <2>4
<1>7. CASE SweepDropFails
  <2>1. /\ sweep.at = "drop" /\ ttl_expiry' = ttl_expiry /\ heap' = heap /\ events' = events
        /\ unswept' = unswept \cup {sweep.c}
    BY <1>7 DEF SweepDropFails, DropFails
  <2>2. \A c \in Collections : CoverKept(c)
    BY <1>01, <2>1, QueueSame DEF CoverKept, Dropping
  <2> QED
    BY <1>0, <1>00, <2>1, <2>2, CoverByOthers
<1> QED
  BY <1>1, <1>2, <1>3, <1>4, <1>5, <1>6, <1>7 DEF Sweep

LEMMA CoverStep ==
    ASSUME ShapeInv, CoverInv, Room, Room', [Next]_vars
    PROVE  CoverInv'
<1>0. client.c \in Collections
  BY DEF ShapeInv, RequestShape, Requests
<1>1. CASE \/ \E c \in Collections, secs \in Ttls : SetTtlDefault(c, secs)
           \/ \E c \in Collections : DropCollection(c)
           \/ \E c \in Collections, keys \in (SUBSET Keys) \ {{}} : Insert(c, keys)
  BY <1>1, CoverArrivals
<1>2. CASE Client
  BY <1>2, CoverClient
<1>3. CASE Sweep
  BY <1>3, CoverSweep
<1>4. CASE Tick \/ UNCHANGED vars
  <2>1. UNCHANGED <<ttl_expiry, events, heap, sweep, client, unswept>>
    BY <1>4 DEF Tick, vars, engine
  <2>2. \A c \in Collections : CoverKept(c)
    BY <2>1, QueueSame DEF CoverKept, Dropping, Busy
  <2> QED
    BY <1>0, <2>1, <2>2, CoverByOthers
<1>5. ASSUME NEW t \in now .. MaxTime, Restart(t) PROVE CoverInv'
  <2>1. /\ ttl_expiry' \in [Collections -> Int]
        /\ BagToSet(heap') = {<<ttl_expiry'[c], c>> : c \in {d \in Collections : ttl_expiry'[d] # NoExpiry}}
    BY <1>5, RestartShape
  <2>2. ASSUME NEW c \in Collections, ttl_expiry'[c] # NoExpiry PROVE Covered(c)'
    <3> DEFINE f == <<ttl_expiry'[c], c>>
    <3>1. f \in BagToSet(heap') /\ f[2] = c /\ f[1] <= ttl_expiry'[c]
      BY <2>1, <2>2
    <3> HIDE DEF f
    <3>2. InHeap(c)'
      BY <3>1 DEF InHeap
    <3> QED
      BY <3>2 DEF Covered
  <2>3. client'.at # "persist"
    BY <1>5, IdleShape DEF Restart
  <2> QED
    BY <2>2, <2>3, CoverByAll
<1> QED
  BY <1>1, <1>2, <1>3, <1>4, <1>5 DEF Next

(***************************************************************************)
(* While the channel to the sweep is never full, the sweep knows of every  *)
(* expiry in force, for any number of collections and requests, whatever   *)
(* order inserts, drops, TTL changes, sweeps and restarts come in.         *)
(***************************************************************************)
THEOREM TtlHeapCovers == Spec /\ []Room => []HeapCovers
<1>1. CoverInv => HeapCovers
  <2> SUFFICES ASSUME CoverInv, NEW c \in Collections \ unswept, ttl_expiry[c] # NoExpiry
               PROVE  \/ \E e \in BagToSet(heap) : e[2] = c /\ e[1] <= ttl_expiry[c]
                      \/ \E i \in DOMAIN events :
                            /\ events[i][1] = "ttl_expiry" /\ events[i][2] = c
                            /\ events[i][3] <= ttl_expiry[c]
                      \/ client.at # "idle" /\ client.c = c
                      \/ sweep.at \in {"drop", "forget"} /\ sweep.c = c
    BY DEF HeapCovers
  <2>1. Covered(c)
    BY DEF CoverInv
  <2> QED
    BY <2>1 DEF Covered, InHeap, OnItsWay, Announces, Busy, Dropping
<1>2. Init => ShapeInv /\ CoverInv
  BY ShapeInit, CoverInit
<1>3. ShapeInv /\ CoverInv /\ Room /\ Room' /\ [Next]_vars => ShapeInv' /\ CoverInv'
  BY ShapeStep, CoverStep
<1> QED
  BY <1>1, <1>2, <1>3, PTL DEF Spec
-----------------------------------------------------------------------------
(***************************************************************************)
(* Expired documents stay gone.  What a later restart would find is of the *)
(* present life; it must moreover find nothing once the expiry in force    *)
(* has passed, since that is when the next life begins.  Between storing a *)
(* batch and logging the new expiry this does not hold: a collection whose *)
(* expiry falls then is overtaken.  A collection with an expiry has a default TTL, so that a batch *)
(* stored in it is followed by a new expiry.                               *)
(***************************************************************************)
Finds(t, s, c, k) == Rebuilt(t, s).docs[c][k]

OfThisLife(c) == \A t \in Nat, k \in Keys : t >= now => Finds(t, log, c, k) \in {NoDoc, life[c]}
GoneAtExpiry(c) == \A t \in Nat, k \in Keys : t >= ttl_expiry[c] => Finds(t, log, c, k) = NoDoc

GoneInv ==
    /\ \A c \in Collections :
          /\ c \notin overtaken => OfThisLife(c)
          /\ ttl_expiry[c] # NoExpiry => ttl_defaults[c] # 0
          /\ ttl_expiry[c] # NoExpiry /\ ~ Storing(c) => GoneAtExpiry(c)
    /\ client.at = "persist" =>
          \E at : client.keys = {at} /\ ttl_expiry[client.c] \in {NoExpiry, at}

(* What the log gains in a step: for collection c, nothing or removals. *)
Fades(c) == \A t \in Nat, k \in Keys : Finds(t, log', c, k) \in {NoDoc, Finds(t, log, c, k)}

LEMMA FadesSame ==
    ASSUME log' = log
    PROVE  \A c : Fades(c)
BY DEF Fades, Finds

LEMMA LogGrows ==
    ASSUME log \in Seq(Entries), NEW e \in Entries, log' = Append(log, e), NEW t
    PROVE  Rebuilt(t, log') = ApplyEntry(Rebuilt(t, log), e, t)
<1>1. Rebuilt(t, Append(log, e)) = ApplyEntry(Rebuilt(t, log), e, t)
  BY RebuiltSteps
<1> QED
  BY <1>1

LEMMA FadesDrop ==
    ASSUME log \in Seq(Entries), NEW c \in Collections, log' = Append(log, DropEntry(c))
    PROVE  \A d \in Collections : Fades(d)
<1> SUFFICES ASSUME NEW t \in Nat, NEW d \in Collections, NEW k \in Keys
             PROVE  Finds(t, log', d, k) \in {NoDoc, Finds(t, log, d, k)}
  BY DEF Fades
<1> DEFINE db == Rebuilt(t, log)
           new == Rebuilt(t, log')
<1>1. db \in Dbs
  BY RebuiltType
<1>2. new = RemoveCollection(db, c)
  <2>1. DropEntry(c) \in Entries /\ ApplyEntry(db, DropEntry(c), t) = RemoveCollection(db, c)
    BY DropApplied
  <2>2. new = ApplyEntry(db, DropEntry(c), t)
    BY <2>1, LogGrows
  <2> QED
    BY <2>1, <2>2
<1>3. Finds(t, log, d, k) = db.docs[d][k] /\ Finds(t, log', d, k) = new.docs[d][k]
  BY DEF Finds
<1> HIDE DEF db, new
<1> QED
  BY <1>1, <1>2, <1>3, RemovalEffect

LEMMA FadesExpiry ==
    ASSUME log \in Seq(Entries), NEW c \in Collections, NEW at \in Nat,
           log' = Append(log, TtlEntry(c, at))
    PROVE  /\ \A d \in Collections : Fades(d)
           /\ \A t \in Nat, k \in Keys : t >= at => Finds(t, log', c, k) = NoDoc
<1> SUFFICES ASSUME NEW t \in Nat, NEW d \in Collections, NEW k \in Keys
             PROVE  /\ Finds(t, log', d, k) \in {NoDoc, Finds(t, log, d, k)}
                    /\ t >= at => Finds(t, log', c, k) = NoDoc
  BY DEF Fades
<1> DEFINE db == Rebuilt(t, log)
           new == Rebuilt(t, log')
<1>1. db \in Dbs
  BY RebuiltType
<1>2. new = IF at > t THEN SetExpiry(db, c, at) ELSE RemoveCollection(db, c)
  <2>1. TtlEntry(c, at) \in Entries
    BY ExpiryApplied
  <2>2. new = ApplyEntry(db, TtlEntry(c, at), t)
    BY <2>1, LogGrows
  <2> HIDE DEF db, new
  <2> QED
    BY <2>2, ExpiryApplied
<1>3. Finds(t, log, d, k) = db.docs[d][k] /\ Finds(t, log', d, k) = new.docs[d][k]
      /\ Finds(t, log', c, k) = new.docs[c][k]
  BY DEF Finds
<1> HIDE DEF db, new
<1>4. CASE at > t
  <2>1. new.docs = db.docs
    BY <1>1, <1>2, <1>4, ExpiryEffect
  <2> QED
    BY <1>3, <1>4, <2>1
<1>5. CASE ~ (at > t)
  BY <1>1, <1>2, <1>3, <1>5, RemovalEffect
<1> QED
  BY <1>4, <1>5

LEMMA FadesStore ==
    ASSUME ShapeInv, InsertStore
    PROVE  /\ \A d \in Collections : d # client.c => Fades(d)
           /\ \A t \in Nat, k \in Keys :
                 Finds(t, log', client.c, k) \in {Finds(t, log, client.c, k), life[client.c]}
<1> DEFINE c == client.c
           n == life[c]
<1>0. c \in Collections /\ n \in Nat /\ log \in Seq(Entries)
  BY DEF ShapeInv, RequestShape, Requests
<1>1. PICK keys \in Seq(Keys) : log' = log \o Batch(c, keys, n)
  BY StoreShape
<1>2. ASSUME NEW t \in Nat, NEW d \in Collections, NEW k \in Keys
      PROVE  /\ d # c => Finds(t, log', d, k) = Finds(t, log, d, k)
             /\ Finds(t, log', c, k) \in {Finds(t, log, c, k), n}
  <2> DEFINE db == Rebuilt(t, log)
             new == Rebuilt(t, log')
  <2>1. BatchEffect(db, new, c, n)
    BY <1>0, <1>1, BatchReplayed
  <2>2. Finds(t, log, d, k) = db.docs[d][k] /\ Finds(t, log', d, k) = new.docs[d][k]
        /\ Finds(t, log, c, k) = db.docs[c][k] /\ Finds(t, log', c, k) = new.docs[c][k]
    BY DEF Finds
  <2> HIDE DEF db, new, c, n
  <2> QED
    BY <1>0, <2>1, <2>2 DEF BatchEffect
<1>3. ASSUME NEW d \in Collections, d # c PROVE Fades(d)
  BY <1>2, <1>3 DEF Fades
<1>4. ASSUME NEW t \in Nat, NEW k \in Keys
      PROVE  Finds(t, log', c, k) \in {Finds(t, log, c, k), n}
  BY <1>0, <1>2
<1> QED
  BY <1>3, <1>4

LEMMA StillOfThisLife ==
    ASSUME NEW c, OfThisLife(c), Fades(c), now' = now, life' = life
    PROVE  OfThisLife(c)'
BY DEF OfThisLife, Fades

LEMMA StillGone ==
    ASSUME NEW c, GoneAtExpiry(c), Fades(c), ttl_expiry'[c] = ttl_expiry[c]
    PROVE  GoneAtExpiry(c)'
BY DEF GoneAtExpiry, Fades

(* A step that only removes, or forgets expiries, and starts or ends no batch. *)
LEMMA GoneByAll ==
    ASSUME GoneInv, now' = now, life' = life, overtaken' = overtaken, client'.at # "persist",
           \A c \in Collections :
              /\ Fades(c)
              /\ \/ ttl_expiry'[c] = NoExpiry
                 \/ /\ ttl_expiry'[c] = ttl_expiry[c] /\ ttl_defaults'[c] # 0
                    /\ ~ Storing(c)
    PROVE  GoneInv'
<1>1. ASSUME NEW c \in Collections
      PROVE  /\ c \notin overtaken' => OfThisLife(c)'
             /\ ttl_expiry'[c] # NoExpiry => ttl_defaults'[c] # 0
             /\ ttl_expiry'[c] # NoExpiry /\ ~ Storing(c)' => GoneAtExpiry(c)'
  <2>1. c \notin overtaken' => OfThisLife(c)'
    BY StillOfThisLife DEF GoneInv
  <2>2. ASSUME ttl_expiry'[c] # NoExpiry, ~ Storing(c)' PROVE GoneAtExpiry(c)'
    <3>1. ttl_expiry'[c] = ttl_expiry[c] /\ ~ Storing(c)
      BY <2>2
    <3>2. GoneAtExpiry(c)
      BY <2>2, <3>1 DEF GoneInv
    <3> QED
      BY <3>1, <3>2, StillGone
  <2> QED
    BY <2>1, <2>2
<1> QED
  BY <1>1 DEF GoneInv

(* The same for the sweep, while a request may be between storing and logging. *)
LEMMA GoneByOthers ==
    ASSUME GoneInv, now' = now, life' = life, overtaken' = overtaken, client' = client, client.c \in Collections,
           \A c \in Collections :
              /\ Fades(c)
              /\ \/ ttl_expiry'[c] = NoExpiry
                 \/ ttl_expiry'[c] = ttl_expiry[c] /\ ttl_defaults'[c] = ttl_defaults[c]
    PROVE  GoneInv'
<1>1. ASSUME NEW c \in Collections
      PROVE  /\ c \notin overtaken' => OfThisLife(c)'
             /\ ttl_expiry'[c] # NoExpiry => ttl_defaults'[c] # 0
             /\ ttl_expiry'[c] # NoExpiry /\ ~ Storing(c)' => GoneAtExpiry(c)'
  <2>1. c \notin overtaken' => OfThisLife(c)'
    BY StillOfThisLife DEF GoneInv
  <2>2. ASSUME ttl_expiry'[c] # NoExpiry, ~ Storing(c)' PROVE GoneAtExpiry(c)'
    <3>1. ttl_expiry'[c] = ttl_expiry[c] /\ ~ Storing(c)
      BY <2>2 DEF Storing
    <3>2. GoneAtExpiry(c)
      BY <2>2, <3>1 DEF GoneInv
    <3> QED
      BY <3>1, <3>2, StillGone
  <2>3. ttl_expiry'[c] # NoExpiry => ttl_defaults'[c] # 0
    BY DEF GoneInv
  <2> QED
    BY <2>1, <2>2, <2>3
<1> QED
  BY <1>1 DEF GoneInv

LEMMA GoneInit == Init => GoneInv
<1> SUFFICES ASSUME Init PROVE GoneInv
  OBVIOUS
<1>1. ASSUME NEW t, NEW c \in Collections, NEW k \in Keys PROVE Finds(t, log, c, k) = NoDoc
  BY RebuiltSteps, EmptyDbShape DEF Init, Finds
<1>2. \A c \in Collections : OfThisLife(c) /\ ttl_expiry[c] = NoExpiry
  BY <1>1 DEF Init, OfThisLife
<1>3. client.at = "idle"
  BY IdleShape DEF Init
<1> QED
  BY <1>2, <1>3 DEF GoneInv

LEMMA GoneArrivals ==
    ASSUME ShapeInv, GoneInv,
           \/ \E c \in Collections, secs \in Ttls : SetTtlDefault(c, secs)
           \/ \E c \in Collections : DropCollection(c)
           \/ \E c \in Collections, keys \in (SUBSET Keys) \ {{}} : Insert(c, keys)
    PROVE  GoneInv'
<1>0. /\ client.at = "idle" /\ now' = now /\ life' = life /\ overtaken' = overtaken /\ log \in Seq(Entries)
      /\ ttl_expiry \in [Collections -> Int] /\ ttl_defaults \in [Collections -> Nat]
  BY DEF SetTtlDefault, DropCollection, Insert, Arrive, ShapeInv
<1>1. \A c : ~ Storing(c)
  BY <1>0 DEF Storing
<1>2. \A c \in Collections : ttl_expiry[c] # NoExpiry => ttl_defaults[c] # 0
  BY DEF GoneInv
<1>3. ASSUME NEW c \in Collections, NEW secs \in Ttls, SetTtlDefault(c, secs) PROVE GoneInv'
  <2>1. client' = client /\ log' = log
    BY <1>3 DEF SetTtlDefault
  <2>2. \A d \in Collections :
            \/ ttl_expiry'[d] = NoExpiry
            \/ /\ ttl_expiry'[d] = ttl_expiry[d]
               /\ ttl_expiry[d] # NoExpiry => ttl_defaults'[d] # 0
    <3>1. /\ ttl_defaults'[c] = secs
          /\ \A d \in Collections : d # c => ttl_defaults'[d] = ttl_defaults[d]
      BY <1>0, <1>3 DEF SetTtlDefault
    <3>2. CASE secs = 0
      <4>1. ttl_expiry' = [ttl_expiry EXCEPT ![c] = NoExpiry]
        BY <1>3, <3>2 DEF SetTtlDefault
      <4>2. ttl_expiry'[c] = NoExpiry /\ \A d \in Collections : d # c => ttl_expiry'[d] = ttl_expiry[d]
        BY <1>0, <4>1
      <4> QED
        BY <1>2, <3>1, <4>2
    <3>3. CASE secs # 0
      <4>1. ttl_expiry' = ttl_expiry
        BY <1>3, <3>3 DEF SetTtlDefault
      <4> QED
        BY <1>2, <3>1, <3>3, <4>1
    <3> QED
      BY <3>2, <3>3
  <2> QED
    BY <1>0, <1>1, <2>1, <2>2, FadesSame, GoneByAll
<1>4. ASSUME NEW c \in Collections, DropCollection(c) PROVE GoneInv'
  <2>1. client'.at # "persist" /\ ttl_expiry' = ttl_expiry /\ ttl_defaults' = ttl_defaults
    BY <1>0, <1>4, RequestMade DEF DropCollection
  <2>2. \A d \in Collections : Fades(d)
    <3>1. log' = log \/ log' = Append(log, DropEntry(c))
      BY <1>4 DEF DropCollection, DropDocs, DropFails
    <3> QED
      BY <1>0, <3>1, FadesSame, FadesDrop
  <2> QED
    BY <1>0, <1>1, <1>2, <2>1, <2>2, GoneByAll
<1>5. ASSUME NEW c \in Collections, NEW keys \in (SUBSET Keys) \ {{}}, Insert(c, keys)
      PROVE  GoneInv'
  <2>1. client'.at # "persist" /\ ttl_expiry' = ttl_expiry /\ ttl_defaults' = ttl_defaults
    BY <1>5, RequestMade DEF Insert
  <2>2. \A d \in Collections : Fades(d)
    <3>1. log' = log \/ log' = Append(log, DropEntry(c))
      BY <1>5 DEF Insert, DropDocs, DropFails
    <3> QED
      BY <1>0, <3>1, FadesSame, FadesDrop
  <2> QED
    BY <1>0, <1>1, <1>2, <2>1, <2>2, GoneByAll
<1> QED
  BY <1>3, <1>4, <1>5

LEMMA GoneClient ==
    ASSUME ShapeInv, GoneInv, Client
    PROVE  GoneInv'
<1>0. /\ client \in Requests /\ client.c \in Collections /\ RequestShape(client)
      /\ now \in Nat /\ ttl_defaults \in [Collections -> Nat] /\ ttl_expiry \in [Collections -> Int]
      /\ log \in Seq(Entries) /\ life \in [Collections -> Nat]
  BY DEF ShapeInv, RequestShape, Requests
<1>00. now' = now /\ life' = life /\ overtaken' = overtaken
  BY ClientShape
<1>01. \A c \in Collections : ttl_expiry[c] # NoExpiry => ttl_defaults[c] # 0
  BY DEF GoneInv
<1>1. CASE DropForget
  <2>1. client' = Idle /\ log' = log /\ client.at = "forget" /\ ttl_expiry'[client.c] = NoExpiry
        /\ \A d \in Collections : d # client.c => ttl_expiry'[d] = ttl_expiry[d]
                                                  /\ ttl_defaults'[d] = ttl_defaults[d]
    BY <1>0, <1>1, ForgetShape DEF DropForget
  <2>2. \A c : ~ Storing(c)
    BY <2>1 DEF Storing
  <2> QED
    BY <1>00, <1>01, <2>1, <2>2, FadesSame, IdleShape, GoneByAll
<1>2. CASE InsertUnset
  <2>1. client'.at = "store" /\ log' = log /\ client.at = "evicted" /\ ttl_expiry'[client.c] = NoExpiry
        /\ ttl_defaults' = ttl_defaults
        /\ \A d \in Collections : d # client.c => ttl_expiry'[d] = ttl_expiry[d]
    BY <1>0, <1>2, RequestTo DEF InsertUnset, Places
  <2>2. \A c : ~ Storing(c)
    BY <2>1 DEF Storing
  <2> QED
    BY <1>00, <1>01, <2>1, <2>2, FadesSame, GoneByAll
<1>3. CASE InsertStore
  <2>1. client.at = "store" /\ client'.at = "renew" /\ client'.c = client.c
        /\ ttl_expiry' = ttl_expiry /\ ttl_defaults' = ttl_defaults
    BY <1>0, <1>3, RequestTo DEF InsertStore, Places
  <2>2. ASSUME NEW c \in Collections
        PROVE  /\ c \notin overtaken' => OfThisLife(c)'
               /\ ttl_expiry'[c] # NoExpiry /\ ~ Storing(c)' => GoneAtExpiry(c)'
    <3>0. (c \notin overtaken => OfThisLife(c)) /\ (ttl_expiry[c] # NoExpiry => GoneAtExpiry(c))
      BY <2>1 DEF GoneInv, Storing
    <3>1. CASE c # client.c
      <4>1. Fades(c)
        BY <1>3, <3>1, FadesStore
      <4> QED
        BY <1>00, <2>1, <3>0, <4>1, StillOfThisLife, StillGone
    <3>2. CASE c = client.c
      <4>1. Storing(c)'
        BY <2>1, <3>2 DEF Storing
      <4>2. \A t \in Nat, k \in Keys : Finds(t, log', c, k) \in {Finds(t, log, c, k), life[c]}
        BY <1>3, <3>2, FadesStore
      <4>3. c \notin overtaken' => OfThisLife(c)'
        BY <1>00, <3>0, <4>2 DEF OfThisLife
      <4> QED
        BY <4>1, <4>3
    <3> QED
      BY <3>1, <3>2
  <2> QED
    BY <1>01, <2>1, <2>2 DEF GoneInv
<1>4. CASE InsertRenew
  <2> DEFINE at == now + ttl_defaults[client.c]
  <2>0. client.at = "renew" /\ log' = log /\ ttl_defaults' = ttl_defaults
    BY <1>4 DEF InsertRenew
  <2>1. CASE ttl_defaults[client.c] = 0
    <3>1. client' = Idle /\ ttl_expiry' = ttl_expiry
      BY <1>4, <2>1 DEF InsertRenew
    <3>2. ttl_expiry[client.c] = NoExpiry
      BY <1>0, <1>01, <2>1
    <3>3. \A c : c # client.c => ~ Storing(c)
      BY DEF Storing
    <3> QED
      BY <1>00, <1>01, <2>0, <3>1, <3>2, <3>3, FadesSame, IdleShape, GoneByAll
  <2>2. CASE ttl_defaults[client.c] # 0
    <3>0. at \in Nat
      BY <1>0
    <3>1. client' = [client EXCEPT !.at = "persist", !.keys = {at}]
          /\ ttl_expiry' = [ttl_expiry EXCEPT ![client.c] = at]
      BY <1>4, <2>2 DEF InsertRenew
    <3> HIDE DEF at
    <3>2. client'.at = "persist" /\ client'.c = client.c /\ client'.keys = {at}
      BY <1>0, <3>0, <3>1, RequestRenewed
    <3>3. ttl_expiry'[client.c] = at
          /\ \A d \in Collections : d # client.c => ttl_expiry'[d] = ttl_expiry[d]
      BY <1>0, <3>1
    <3>4. ASSUME NEW c \in Collections
          PROVE  /\ c \notin overtaken' => OfThisLife(c)'
                 /\ ttl_expiry'[c] # NoExpiry => ttl_defaults'[c] # 0
                 /\ ttl_expiry'[c] # NoExpiry /\ ~ Storing(c)' => GoneAtExpiry(c)'
      <4>1. c \notin overtaken' => OfThisLife(c)'
        BY <1>00, <2>0, FadesSame, StillOfThisLife DEF GoneInv
      <4>2. ttl_expiry'[c] # NoExpiry => ttl_defaults'[c] # 0
        BY <1>01, <2>0, <2>2, <3>3
      <4>3. ASSUME ttl_expiry'[c] # NoExpiry, ~ Storing(c)' PROVE GoneAtExpiry(c)'
        <5>1. c # client.c
          BY <3>2, <4>3 DEF Storing
        <5>2. GoneAtExpiry(c) /\ ttl_expiry'[c] = ttl_expiry[c]
          BY <3>3, <4>3, <5>1 DEF GoneInv, Storing
        <5> QED
          BY <2>0, <5>2, FadesSame, StillGone
      <4> QED
        BY <4>1, <4>2, <4>3
    <3> QED
      BY <3>2, <3>3, <3>4 DEF GoneInv
  <2> QED
    BY <2>1, <2>2
<1>5. CASE InsertPersist
  <2>1. PICK at \in Nat : client.keys = {at}
    BY <1>0, <1>5 DEF InsertPersist, RequestShape
  <2>2. client' = Idle /\ ttl_expiry' = ttl_expiry /\ ttl_defaults' = ttl_defaults
        /\ log' = Append(log, TtlEntry(client.c, at)) /\ client.at = "persist"
    BY <1>5, <2>1 DEF InsertPersist
  <2>3. ttl_expiry[client.c] \in {NoExpiry, at}
    BY <2>1, <2>2 DEF GoneInv
  <2>4. /\ \A d \in Collections : Fades(d)
        /\ \A t \in Nat, k \in Keys : t >= at => Finds(t, log', client.c, k) = NoDoc
    BY <1>0, <2>1, <2>2, FadesExpiry
  <2>5. ASSUME NEW c \in Collections
        PROVE  (c \notin overtaken' => OfThisLife(c)') /\ (ttl_expiry'[c] # NoExpiry => GoneAtExpiry(c)')
    <3>1. c \notin overtaken' => OfThisLife(c)'
      BY <1>00, <2>4, StillOfThisLife DEF GoneInv
    <3>2. ASSUME ttl_expiry'[c] # NoExpiry PROVE GoneAtExpiry(c)'
      <4>1. CASE c = client.c
        BY <2>2, <2>3, <2>4, <3>2, <4>1 DEF GoneAtExpiry
      <4>2. CASE c # client.c
        <5>1. GoneAtExpiry(c)
          BY <2>2, <3>2, <4>2 DEF GoneInv, Storing
        <5> QED
          BY <2>2, <2>4, <5>1, StillGone
      <4> QED
        BY <4>1, <4>2
    <3> QED
      BY <3>1, <3>2
  <2> QED
    BY <1>01, <2>2, <2>5, IdleShape DEF GoneInv
<1> QED
  BY <1>1, <1>2, <1>3, <1>4, <1>5 DEF Client

LEMMA GoneSweep ==
    ASSUME ShapeInv, GoneInv, Sweep
    PROVE  GoneInv'
<1> USE DEF engine
<1>0. sweep.c \in Collections /\ client.c \in Collections /\ log \in Seq(Entries)
  BY DEF ShapeInv, Passes, RequestShape, Requests
<1>1. now' = now /\ life' = life /\ client' = client /\ overtaken' = overtaken
  BY SweepShape
<1>2. \A c \in Collections : Fades(c)
  <2>1. log' = log \/ log' = Append(log, DropEntry(sweep.c))
    BY DEF Sweep, SweepReceive, SweepWake, SweepDrop, SweepDropFails, SweepForget, SweepSleep,
           SweepPop, DropDocs, DropFails
  <2> QED
    BY <1>0, <2>1, FadesSame, FadesDrop
<1>3. \A c \in Collections :
          \/ ttl_expiry'[c] = NoExpiry
          \/ ttl_expiry'[c] = ttl_expiry[c] /\ ttl_defaults'[c] = ttl_defaults[c]
  <2>1. CASE SweepForget
    BY <1>0, <2>1, ForgetShape DEF SweepForget
  <2>2. CASE ~ SweepForget
    BY <2>2 DEF Sweep, SweepReceive, SweepWake, SweepDrop, SweepDropFails, SweepSleep, SweepPop
  <2> QED
    BY <2>1, <2>2
<1> QED
  BY <1>0, <1>1, <1>2, <1>3, GoneByOthers

LEMMA GoneTick ==
    ASSUME ShapeInv, GoneInv, Tick
    PROVE  GoneInv'
<1> DEFINE ending == {c \in Collections : ttl_expiry[c] = now + 1}
<1>0. /\ client' = client /\ log' = log /\ ttl_expiry' = ttl_expiry
      /\ ttl_defaults' = ttl_defaults /\ now' = now + 1 /\ now \in Nat
      /\ ttl_expiry \in [Collections -> Int]
  BY DEF Tick, engine, ShapeInv
<1>1. overtaken' = (overtaken \ ending) \cup {c \in ending : Storing(c)}
      /\ \A c \in Collections : life'[c] = IF c \in ending THEN life[c] + 1 ELSE life[c]
  BY DEF Tick
<1>2. ASSUME NEW c \in Collections
      PROVE  /\ c \notin overtaken' => OfThisLife(c)'
             /\ ttl_expiry'[c] # NoExpiry /\ ~ Storing(c)' => GoneAtExpiry(c)'
  <2>1. /\ c \notin overtaken => OfThisLife(c)
        /\ ttl_expiry[c] # NoExpiry /\ ~ Storing(c) => GoneAtExpiry(c)
    BY DEF GoneInv
  <2>2. Storing(c)' <=> Storing(c)
    BY <1>0 DEF Storing
  <2>3. ttl_expiry'[c] # NoExpiry /\ ~ Storing(c)' => GoneAtExpiry(c)'
    BY <1>0, <2>1, <2>2 DEF GoneAtExpiry
  <2>4. CASE c \in ending /\ ~ Storing(c)
    <3>1. GoneAtExpiry(c) /\ ttl_expiry[c] = now + 1
      BY <1>0, <2>1, <2>4, Constants
    <3>2. OfThisLife(c)'
      BY <1>0, <3>1 DEF GoneAtExpiry, OfThisLife
    <3> QED
      BY <2>3, <3>2
  <2>5. CASE c \in ending /\ Storing(c)
    BY <1>1, <2>3, <2>5
  <2>6. CASE c \notin ending
    <3>1. life'[c] = life[c] /\ (c \notin overtaken' => c \notin overtaken)
      BY <1>1, <2>6
    <3>2. c \notin overtaken' => OfThisLife(c)'
      BY <1>0, <2>1, <3>1 DEF OfThisLife
    <3> QED
      BY <2>3, <3>2
  <2> QED
    BY <2>4, <2>5, <2>6
<1> QED
  BY <1>0, <1>2 DEF GoneInv

LEMMA GoneStep ==
    ASSUME ShapeInv, spent.restarts = 0 => GoneInv, [Next]_vars
    PROVE  spent'.restarts = 0 => GoneInv'
<1>0. spent \in Counts
  BY DEF ShapeInv
<1>1. CASE \/ \E c \in Collections, secs \in Ttls : SetTtlDefault(c, secs)
           \/ \E c \in Collections : DropCollection(c)
           \/ \E c \in Collections, keys \in (SUBSET Keys) \ {{}} : Insert(c, keys)
  <2>1. spent' = [spent EXCEPT !.requests = @ + 1]
    BY <1>1 DEF SetTtlDefault, DropCollection, Insert, Arrive
  <2>2. spent'.restarts = spent.restarts
    BY <1>0, <2>1, CountMoves
  <2> QED
    BY <1>1, <2>2, GoneArrivals
<1>2. CASE Client
  BY <1>2, ClientShape, GoneClient
<1>3. CASE Sweep
  BY <1>3, SweepShape, GoneSweep
<1>4. CASE Tick
  <2>1. spent' = spent
    BY <1>4 DEF Tick
  <2> QED
    BY <1>4, <2>1, GoneTick
<1>5. ASSUME NEW t \in now .. MaxTime, Restart(t) PROVE spent'.restarts # 0
  <2>1. spent' = [spent EXCEPT !.restarts = @ + 1]
    BY <1>5 DEF Restart
  <2> QED
    BY <1>0, <2>1, CountMoves
<1>6. CASE UNCHANGED vars
  BY <1>6 DEF vars, GoneInv, OfThisLife, GoneAtExpiry, Storing
<1> QED
  BY <1>1, <1>2, <1>3, <1>4, <1>5, <1>6 DEF Next

(***************************************************************************)
(* A document that readers saw expire does not come back at the first      *)
(* restart, whenever that is: for any number of collections, keys,         *)
(* requests and TTLs, however they are set, shortened and removed, with    *)
(* the sweep at any point of its pass, wherever in a request the expiry    *)
(* falls, and even if the sweep's channel overflows or its drops fail.     *)
(* Left out are batches overtaken by the expiry they renew.                *)
(***************************************************************************)
THEOREM TtlExpiredGone == Spec => []ExpiredStaysGone
<1> DEFINE Inv == ShapeInv /\ (spent.restarts = 0 => GoneInv)
<1>1. Init => Inv
  BY ShapeInit, GoneInit
<1>2. Inv /\ [Next]_vars => Inv'
  BY ShapeStep, GoneStep
<1>3. Inv => ExpiredStaysGone
  <2> SUFFICES ASSUME ShapeInv, GoneInv, NEW t \in now .. MaxTime, NEW c \in Collections \ overtaken, NEW k \in Keys
               PROVE  Replayed(t).docs[c][k] \in {NoDoc, life[c]}
    BY DEF ExpiredStaysGone, OnlyThisLife
  <2>1. t \in Nat /\ t >= now
    BY Constants DEF ShapeInv
  <2>2. Finds(t, log, c, k) \in {NoDoc, life[c]}
    BY <2>1 DEF GoneInv, OfThisLife
  <2> QED
    BY <2>2, ReplayedIsRebuilt DEF Finds
<1> QED
  BY <1>1, <1>2, <1>3, PTL DEF Spec
=============================================================================
