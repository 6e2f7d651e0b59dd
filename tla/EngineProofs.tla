---------------------------- MODULE EngineProofs ----------------------------
(***************************************************************************)
(* Theorems about module Engine, for every number of workers, collections, *)
(* keys and bodies and for every bound.                                    *)
(***************************************************************************)
EXTENDS Engine, FiniteSetTheorems, WellFoundedInduction, TLAPS

-----------------------------------------------------------------------------
(* A nonempty set of naturals below some bound has a largest element. *)
LEMMA MaxExists ==
    ASSUME NEW S \in SUBSET Nat, S # {},
           NEW n \in Nat, \A x \in S : x < n
    PROVE  \E m \in S : \A x \in S : x <= m
<1> DEFINE T == {b \in Nat : \A x \in S : x < b}
           R == {ss \in Nat \X Nat : ss[1] < ss[2]}
<1>1. n \in T
  OBVIOUS
<1>2. PICK b \in T : \A y \in T : ~ (<<y, b>> \in R)
  <2>1. T \subseteq Nat /\ T # {}
    BY <1>1
  <2>2. R = OpToRel(<, Nat)
    BY Zenon DEF OpToRel
  <2>3. IsWellFoundedOn(R, Nat)
    BY <2>2, NatLessThanWellFounded, Zenon
  <2> HIDE DEF R, T
  <2> QED
    BY <2>1, <2>3, WFMin
<1>3. \A y \in T : ~(y < b)
  BY <1>2
<1>4. b \in Nat /\ b # 0
  <2>1. PICK x \in S : x \in Nat
    OBVIOUS
  <2>2. b \in Nat /\ x < b
    BY <2>1, <1>2
  <2> QED
    BY <2>1, <2>2
<1>5. b - 1 \in Nat /\ b - 1 \notin T
  BY <1>3, <1>4
<1>6. PICK x \in S : ~(x < b - 1)
  BY <1>5
<1>7. x < b /\ \A y \in S : y < b
  BY <1>2
<1> QED
  BY <1>4, <1>6, <1>7

(***************************************************************************)
(* A database whose _seq values have a bound, and which stores documents   *)
(* only in collections that exist.                                         *)
(***************************************************************************)
SeqsBelow(db, n) ==
    \A c \in Collections, k \in Keys :
        db.docs[c][k] # NoDoc => db.docs[c][k].seq < n

DbOK(db) ==
    /\ db \in Db
    /\ \A c \in Collections \ db.cols : db.docs[c] = NoDocs
    /\ \E n \in Nat : SeqsBelow(db, n)

(* What Db::open computes as max_seq is the largest _seq of the collection. *)
LEMMA MaxSeqIsMax ==
    ASSUME NEW db, DbOK(db), NEW c \in Collections
    PROVE  /\ MaxSeq(db.docs[c]) \in Nat
           /\ \A k \in Keys : db.docs[c][k] # NoDoc
                 => db.docs[c][k].seq <= MaxSeq(db.docs[c])
<1> DEFINE ds == db.docs[c]
           seqs == {0} \cup {ds[k].seq : k \in {kk \in Keys : ds[kk] # NoDoc}}
<1>1. \A k \in Keys : ds[k] # NoDoc => ds[k].seq \in Nat
  BY DEF DbOK, Db, Doc
<1>2. seqs \in SUBSET Nat /\ seqs # {}
  BY <1>1
<1>3. PICK n \in Nat : SeqsBelow(db, n)
  BY DEF DbOK
<1>4. \A x \in seqs : x < n + 1
  <2>1. \A k \in Keys : ds[k] # NoDoc => ds[k].seq < n
    BY <1>3 DEF SeqsBelow
  <2>2. 0 < n + 1
    OBVIOUS
  <2> QED
    BY <1>1, <2>1, <2>2
<1>5. \E m \in seqs : \A x \in seqs : x <= m
  <2> HIDE DEF seqs
  <2>1. n + 1 \in Nat
    OBVIOUS
  <2> QED
    BY <1>2, <1>4, <2>1, MaxExists
<1>6. MaxSeq(ds) = CHOOSE m \in seqs : \A s \in seqs : s <= m
  BY DEF MaxSeq
<1>7. MaxSeq(ds) \in seqs /\ \A s \in seqs : s <= MaxSeq(ds)
  <2> HIDE DEF seqs
  <2> QED
    BY <1>5, <1>6
<1> QED
  BY <1>2, <1>7
-----------------------------------------------------------------------------
(* Replaying an entry keeps the database well formed. *)
LEMMA EmptyDbOK == DbOK(EmptyDb)
BY DEF DbOK, EmptyDb, DbOf, Db, NoDocs, SeqsBelow, NoExpiry, NoSchema

LEMMA PutDocOK ==
    ASSUME NEW db, DbOK(db), NEW c \in Collections, NEW k \in Keys, NEW d \in Doc
    PROVE  DbOK(PutDoc(db, c, k, d))
<1> DEFINE new == PutDoc(db, c, k, d)
<1>1. new \in Db
  BY DEF DbOK, Db, DbOf, PutDoc
<1>2. \A cc \in Collections \ new.cols : new.docs[cc] = NoDocs
  BY DEF DbOK, Db, DbOf, PutDoc
<1>3. PICK n \in Nat : SeqsBelow(db, n)
  BY DEF DbOK
<1>4. SeqsBelow(new, IF d.seq < n THEN n ELSE d.seq + 1)
  BY <1>3 DEF SeqsBelow, DbOf, PutDoc, DbOK, Db, Doc
<1>5. (IF d.seq < n THEN n ELSE d.seq + 1) \in Nat
  BY DEF Doc
<1> QED
  BY <1>1, <1>2, <1>4, <1>5 DEF DbOK

LEMMA RemoveDocOK ==
    ASSUME NEW db, DbOK(db), NEW c \in Collections, NEW k \in Keys
    PROVE  DbOK(RemoveDoc(db, c, k))
<1> DEFINE new == RemoveDoc(db, c, k)
<1>1. new \in Db
  BY DEF DbOK, Db, DbOf, RemoveDoc
<1>2. \A cc \in Collections \ new.cols : new.docs[cc] = NoDocs
  BY DEF DbOK, Db, DbOf, RemoveDoc, NoDocs
<1>3. PICK n \in Nat : SeqsBelow(db, n)
  BY DEF DbOK
<1>4. SeqsBelow(new, n)
  BY <1>3 DEF SeqsBelow, DbOf, RemoveDoc, DbOK, Db
<1> QED
  BY <1>1, <1>2, <1>4 DEF DbOK

LEMMA RemoveCollectionOK ==
    ASSUME NEW db, DbOK(db), NEW c \in Collections
    PROVE  DbOK(RemoveCollection(db, c))
<1> DEFINE new == RemoveCollection(db, c)
<1>1. new \in Db
  BY DEF DbOK, Db, DbOf, RemoveCollection, NoDocs, NoExpiry
<1>2. \A cc \in Collections \ new.cols : new.docs[cc] = NoDocs
  BY DEF DbOK, Db, DbOf, RemoveCollection
<1>3. PICK n \in Nat : SeqsBelow(db, n)
  BY DEF DbOK
<1>4. SeqsBelow(new, n)
  BY <1>3 DEF SeqsBelow, DbOf, RemoveCollection, DbOK, Db, NoDocs
<1> QED
  BY <1>1, <1>2, <1>4 DEF DbOK

LEMMA SetSchemaOK ==
    ASSUME NEW db, DbOK(db), NEW c \in Collections, NEW bs \in SUBSET Bodies
    PROVE  DbOK(SetSchema(db, c, bs))
BY DEF DbOK, Db, SeqsBelow, SetSchema, DbOf
-----------------------------------------------------------------------------
(* What each kind of entry does to a well formed log. *)
LogOK(log) ==
    /\ log \in [durable : Db, pending : Db, active : TxIds \cup {NoTx}]
    /\ DbOK(log.durable)
    /\ DbOK(log.pending)

LEMMA EmptyLogOK == LogOK(EmptyLog)
BY EmptyDbOK DEF LogOK, EmptyLog, LogOf, DbOK

LEMMA BeginEntry ==
    ASSUME NEW log, LogOK(log), NEW c \in Collections, NEW t \in TxIds
    PROVE  /\ ReplayEntry(log, TxBegin(c, t), 0) = LogOf(log.durable, log.durable, t)
           /\ LogOK(ReplayEntry(log, TxBegin(c, t), 0))
<1>1. ReplayEntry(log, TxBegin(c, t), 0) = LogOf(log.durable, log.durable, t)
  BY DEF ReplayEntry, TxBegin, LogEntry
<1> QED
  BY <1>1 DEF LogOK, LogOf

LEMMA CommitEntry ==
    ASSUME NEW log, LogOK(log), NEW c \in Collections, NEW t \in TxIds
    PROVE  /\ ReplayEntry(log, TxCommit(c, t), 0) =
                 IF log.active = t THEN LogOf(log.pending, log.pending, NoTx) ELSE log
           /\ LogOK(ReplayEntry(log, TxCommit(c, t), 0))
<1>1. ReplayEntry(log, TxCommit(c, t), 0) =
         IF log.active = t THEN LogOf(log.pending, log.pending, NoTx) ELSE log
  BY DEF ReplayEntry, TxCommit, LogEntry
<1> QED
  BY <1>1 DEF LogOK, LogOf

(* A data entry goes to the buffer of the open transaction, if there is one. *)
LEMMA DataEntry ==
    ASSUME NEW log, LogOK(log), NEW e, e.cmd \notin {"TX_BEGIN", "TX_COMMIT"},
           DbOK(ApplyEntry(log.pending, e, 0)),
           DbOK(ApplyEntry(log.durable, e, 0))
    PROVE  /\ ReplayEntry(log, e, 0) =
                 IF log.active # NoTx
                 THEN LogOf(log.durable, ApplyEntry(log.pending, e, 0), log.active)
                 ELSE LogOf(ApplyEntry(log.durable, e, 0),
                            ApplyEntry(log.durable, e, 0), NoTx)
           /\ LogOK(ReplayEntry(log, e, 0))
<1>1. ReplayEntry(log, e, 0) =
         IF log.active # NoTx
         THEN LogOf(log.durable, ApplyEntry(log.pending, e, 0), log.active)
         ELSE LogOf(ApplyEntry(log.durable, e, 0), ApplyEntry(log.durable, e, 0), NoTx)
  BY DEF ReplayEntry
<1> QED
  BY <1>1 DEF LogOK, LogOf, DbOK

LEMMA DataEntriesOK ==
    ASSUME NEW log, LogOK(log), NEW c \in Collections
    PROVE  /\ \A k \in Keys, d \in Doc :
                 LogOK(ReplayEntry(log, InsertEntry(c, k, d), 0))
           /\ \A k \in Keys : LogOK(ReplayEntry(log, DeleteEntry(c, k), 0))
           /\ LogOK(ReplayEntry(log, DropEntry(c), 0))
           /\ \A bs \in SUBSET Bodies :
                 LogOK(ReplayEntry(log, SchemaEntry(c, bs), 0))
<1>1. ASSUME NEW k \in Keys, NEW d \in Doc
      PROVE  LogOK(ReplayEntry(log, InsertEntry(c, k, d), 0))
  <2>1. \A db : ApplyEntry(db, InsertEntry(c, k, d), 0) = PutDoc(db, c, k, d)
    BY DEF ApplyEntry, InsertEntry, LogEntry
  <2>2. InsertEntry(c, k, d).cmd \notin {"TX_BEGIN", "TX_COMMIT"}
    BY DEF InsertEntry, LogEntry
  <2> QED
    BY <2>1, <2>2, PutDocOK, DataEntry DEF LogOK
<1>2. ASSUME NEW k \in Keys
      PROVE  LogOK(ReplayEntry(log, DeleteEntry(c, k), 0))
  <2>1. \A db : ApplyEntry(db, DeleteEntry(c, k), 0) = RemoveDoc(db, c, k)
    BY DEF ApplyEntry, DeleteEntry, LogEntry
  <2>2. DeleteEntry(c, k).cmd \notin {"TX_BEGIN", "TX_COMMIT"}
    BY DEF DeleteEntry, LogEntry
  <2> QED
    BY <2>1, <2>2, RemoveDocOK, DataEntry DEF LogOK
<1>3. LogOK(ReplayEntry(log, DropEntry(c), 0))
  <2>1. \A db : ApplyEntry(db, DropEntry(c), 0) = RemoveCollection(db, c)
    BY DEF ApplyEntry, DropEntry, LogEntry
  <2>2. DropEntry(c).cmd \notin {"TX_BEGIN", "TX_COMMIT"}
    BY DEF DropEntry, LogEntry
  <2> QED
    BY <2>1, <2>2, RemoveCollectionOK, DataEntry DEF LogOK
<1>4. ASSUME NEW bs \in SUBSET Bodies
      PROVE  LogOK(ReplayEntry(log, SchemaEntry(c, bs), 0))
  <2>1. \A db : ApplyEntry(db, SchemaEntry(c, bs), 0) = SetSchema(db, c, bs)
    BY DEF ApplyEntry, SchemaEntry, LogEntry
  <2>2. SchemaEntry(c, bs).cmd \notin {"TX_BEGIN", "TX_COMMIT"}
    BY DEF SchemaEntry, LogEntry
  <2> QED
    BY <2>1, <2>2, SetSchemaOK, DataEntry DEF LogOK
<1> QED
  BY <1>1, <1>2, <1>3, <1>4
-----------------------------------------------------------------------------
(* The requests clients submit are well formed. *)
LEMMA NoRequestType == NoRequest \in Request /\ NoRequest.keys = {}
BY CollectionsAssumption DEF NoRequest, NoBodies, Call, Request

LEMMA KeysOnlyType ==
    ASSUME NEW r \in Request, NEW ks \in SUBSET Keys
    PROVE  KeysOnly(r, ks) \in Request /\ KeysOnly(r, ks).op = r.op
BY DEF KeysOnly, Request

LEMMA BatchType ==
    ASSUME NEW K \in SUBSET Keys, NEW b \in [K -> Bodies]
    PROVE  b \in UNION {[KK -> Bodies] : KK \in SUBSET Keys} /\ DOMAIN b = K
OBVIOUS

LEMMA NoBodiesType ==
    NoBodies \in UNION {[K -> Bodies] : K \in SUBSET Keys} /\ DOMAIN NoBodies = {}
BY DEF NoBodies

LEMMA RequestsType ==
    ASSUME NEW c \in Collections, NEW r \in Requests(c)
    PROVE  /\ r \in Request
           /\ r.op \in AllOps
           /\ r.op \in {"insert", "update"} => r.body \in [r.keys -> Bodies]
<1>1. CASE r \in InsertRequests(c)
  <2>1. PICK b \in Batches : r = Call("insert", c, b, {}, 0, "asc")
    BY <1>1 DEF InsertRequests
  <2>2. PICK K \in SUBSET Keys : b \in [K -> Bodies]
    BY DEF Batches
  <2>3. "insert" \in AllOps
    BY DEF AllOps
  <2> QED
    BY <2>1, <2>2, <2>3, BatchType DEF Call, Request
<1>2. CASE r \in UpdateRequests(c)
  <2>1. PICK b \in Patches, g \in 0 .. MaxGuard :
           r = Call("update", c, b, {}, g, "asc")
    BY <1>2 DEF UpdateRequests
  <2>2. PICK k \in Keys : b \in [{k} -> Bodies]
    BY DEF Patches
  <2>4. {k} \in SUBSET Keys /\ g \in Nat
    BY EngineBoundsAssumption
  <2>3. "update" \in AllOps
    BY DEF AllOps
  <2> QED
    BY <2>1, <2>2, <2>3, <2>4, BatchType DEF Call, Request
<1>3. CASE r \in DeleteRequests(c)
  <2>1. PICK ks \in SUBSET Keys :
           r = KeysOnly(Call("delete", c, NoBodies, {}, 0, "asc"), ks)
    BY <1>3 DEF DeleteRequests
  <2>2. "delete" \in AllOps
    BY DEF AllOps
  <2>3. Call("delete", c, NoBodies, {}, 0, "asc") \in Request
        /\ Call("delete", c, NoBodies, {}, 0, "asc").op = "delete"
    BY <2>2, NoBodiesType DEF Call, Request
  <2> QED
    BY <2>1, <2>2, <2>3, KeysOnlyType
<1>4. CASE r \in DeleteNRequests(c)
  <2>1. PICK n \in 1 .. Cardinality(Keys), order \in {"asc", "desc"} :
           r = Call("delete_n", c, NoBodies, {}, n, order)
    BY <1>4 DEF DeleteNRequests
  <2>2. n \in Nat
    BY <2>1
  <2>3. "delete_n" \in AllOps
    BY DEF AllOps
  <2> QED
    BY <2>1, <2>2, <2>3, NoBodiesType DEF Call, Request
<1>5. CASE r \in DeleteFilteredRequests(c)
  <2>0. PICK b \in Bodies : r \in DeleteMatching(c, b)
    BY <1>5 DEF DeleteFilteredRequests
  <2>1. PICK n \in 1 .. Cardinality(Keys), order \in {"asc", "desc"} :
           r = Call("delete_filtered", c, NoBodies, {b}, n, order)
    BY <2>0 DEF DeleteMatching
  <2>2. n \in Nat /\ {b} \in SUBSET Bodies
    BY <2>1
  <2>3. "delete_filtered" \in AllOps
    BY DEF AllOps
  <2> QED
    BY <2>1, <2>2, <2>3, NoBodiesType DEF Call, Request
<1>6. CASE r \in DropRequests(c)
  <2>1. r = Call("delete_collection", c, NoBodies, {}, 0, "asc")
    BY <1>6 DEF DropRequests
  <2>2. "delete_collection" \in AllOps
    BY DEF AllOps
  <2> QED
    BY <2>1, <2>2, NoBodiesType DEF Call, Request
<1>7. CASE r \in SchemaRequests(c)
  <2>1. PICK bs \in SUBSET Bodies : r = Call("set_schema", c, NoBodies, bs, 0, "asc")
    BY <1>7 DEF SchemaRequests
  <2>2. "set_schema" \in AllOps
    BY DEF AllOps
  <2> QED
    BY <2>1, <2>2, NoBodiesType DEF Call, Request
<1> QED
  BY <1>1, <1>2, <1>3, <1>4, <1>5, <1>6, <1>7 DEF Requests

LEMMA RequestFields ==
    ASSUME NEW r \in Request
    PROVE  /\ r.c \in Collections
           /\ r.keys \in SUBSET Keys
           /\ r.bodies \in SUBSET Bodies
           /\ r.n \in Nat
BY DEF Request
-----------------------------------------------------------------------------
(***************************************************************************)
(* Type correctness, together with the well-formedness of the replayed log *)
(* that the rebuilt counters depend on.                                    *)
(***************************************************************************)
TypeInv == TypeOK /\ LogOK(wal)

LEMMA TypeInit == Init => TypeInv
<1> SUFFICES ASSUME Init PROVE TypeInv
  OBVIOUS
<1>1. LogOK(wal)
  BY EmptyLogOK DEF Init
<1>2. NoKey \in Keys
  BY KeysAssumption DEF NoKey
<1> QED
  BY <1>1, <1>2, NoRequestType, EngineBoundsAssumption
  DEF Init, TypeInv, TypeOK, WorkerOK, LogOK, PCs, NoDocs, NoSchema

LEMMA TypeSubmit ==
    ASSUME TypeInv, NEW t \in Workers, NEW c \in Collections,
           NEW r \in Requests(c), Submit(t, r)
    PROVE  TypeInv'
<1>1. /\ r \in Request /\ r.op \in AllOps
      /\ r.op \in {"insert", "update"} => r.body \in [r.keys -> Bodies]
  BY RequestsType
<1>2. UNCHANGED <<cols, docs, schemas, seq_counters, seq_index, wal, todo, key, doc,
                  failed, crashes>>
  BY DEF Submit, memory
<1>3. /\ budget' = budget - 1 /\ budget > 0
      /\ req' = [req EXCEPT ![t] = r]
      /\ pc' = [pc EXCEPT ![t] = r.op]
      /\ pc[t] = "idle"
  BY DEF Submit, Goto
<1>4. pc' \in [Workers -> PCs]
  BY <1>1, <1>3 DEF TypeInv, TypeOK, PCs
<1>5. todo[t] = {}
  BY <1>3 DEF TypeInv, TypeOK, WorkerOK
<1>6. budget' \in Nat /\ req' \in [Workers -> Request]
  BY <1>1, <1>3 DEF TypeInv, TypeOK
<1>7. ASSUME NEW u \in Workers
      PROVE  WorkerOK(u)'
  BY <1>1, <1>2, <1>3, <1>5 DEF TypeInv, TypeOK, WorkerOK, AllOps
<1> QED
  BY <1>2, <1>4, <1>6, <1>7 DEF TypeInv, TypeOK

(***************************************************************************)
(* The workers' locals, apart from the maps of the database.               *)
(***************************************************************************)
LocalOK ==
    /\ pc \in [Workers -> PCs]
    /\ req \in [Workers -> Request]
    /\ todo \in [Workers -> SUBSET Keys]
    /\ key \in [Workers -> Keys]
    /\ doc \in [Workers -> Doc \cup {NoDoc}]
    /\ \A t \in Workers : WorkerOK(t)

(* A request that returns leaves the worker as it was at the start. *)
LEMMA ReturnLocal ==
    ASSUME TypeInv, NEW t \in Workers, Return(t)
    PROVE  LocalOK'
<1>1. NoKey \in Keys
  BY KeysAssumption DEF NoKey
<1> QED
  BY <1>1, NoRequestType DEF TypeInv, TypeOK, LocalOK, WorkerOK, Return, Goto, PCs

(* A worker may move on to a place that asks nothing of its locals. *)
LEMMA GotoLocal ==
    ASSUME TypeInv, NEW t \in Workers, NEW where \in PCs, Goto(t, where),
           UNCHANGED <<req, todo, key, doc>>,
           todo[t] = {} \/ where \in {"delete_keys", "delete_log"},
           where \notin {"insert", "insert_items", "update", "update_read",
                        "update_write", "update_log"}
    PROVE  LocalOK'
BY DEF TypeInv, TypeOK, LocalOK, WorkerOK, Goto

(* An insert stores a document. *)
LEMMA StoredType ==
    ASSUME TypeInv, NEW t \in Workers, NEW k \in Keys, InsertItem(t, k)
    PROVE  Stored(docs[req[t].c][k], seq_counters[req[t].c], req[t].body[k]) \in Doc
<1>1. req[t].c \in Collections
  BY RequestFields DEF TypeInv, TypeOK
<1>2. req[t].body[k] \in Bodies
  BY DEF InsertItem, TypeInv, TypeOK, WorkerOK
<1>3. seq_counters[req[t].c] \in Nat /\ docs[req[t].c][k] \in Doc \cup {NoDoc}
  BY <1>1 DEF TypeInv, TypeOK
<1> QED
  BY <1>2, <1>3 DEF Stored, Doc

LEMMA TypeInsert ==
    ASSUME TypeInv, NEW t \in Workers
    PROVE  /\ InsertBegin(t) => TypeInv'
           /\ \A k \in Keys : InsertItem(t, k) => TypeInv'
           /\ \A k \in Keys : InsertInvalid(t, k) => TypeInv'
           /\ InsertCommit(t) => TypeInv'
           /\ CheckMaxSize(t) => TypeInv'
<1>0. req[t] \in Request /\ req[t].c \in Collections /\ req[t].keys \in SUBSET Keys
  BY RequestFields DEF TypeInv, TypeOK
<1>1. ASSUME InsertBegin(t) PROVE TypeInv'
  <2>1. LogOK(wal')
    BY <1>0, <1>1, BeginEntry DEF InsertBegin, WriteEntry, TypeInv, Workers
  <2>2. LocalOK'
    BY <1>0, <1>1 DEF InsertBegin, TypeInv, TypeOK, WorkerOK, LocalOK, Goto, PCs
  <2> QED
    BY <1>0, <1>1, <2>1, <2>2 DEF InsertBegin, TypeInv, TypeOK, LocalOK, LogOK
<1>2. ASSUME NEW k \in Keys, InsertItem(t, k) PROVE TypeInv'
  <2> DEFINE c == req[t].c
             d == Stored(docs[c][k], seq_counters[c], req[t].body[k])
  <2>1. d \in Doc
    BY <1>2, StoredType
  <2>2. LogOK(wal')
    BY <1>0, <1>2, <2>1, DataEntriesOK DEF InsertItem, WriteEntry, TypeInv
  <2>3. LocalOK'
    BY <1>0, <1>2 DEF InsertItem, TypeInv, TypeOK, WorkerOK, LocalOK
  <2>4. seq_index' \in [Collections -> (SUBSET (Nat \X Keys)) \cup {NoIndex}]
    <3>1. IndexInsert(IndexOf(c), d.seq, k) \in SUBSET (Nat \X Keys)
      BY <1>0, <2>1 DEF IndexInsert, IndexOf, TypeInv, TypeOK, Doc
    <3> QED
      BY <1>0, <1>2, <3>1 DEF InsertItem, TypeInv, TypeOK
  <2>5. docs' \in [Collections -> [Keys -> Doc \cup {NoDoc}]]
    BY <1>0, <1>2, <2>1 DEF InsertItem, TypeInv, TypeOK
  <2>6. seq_counters' \in [Collections -> Nat]
    BY <1>0, <1>2 DEF InsertItem, TypeInv, TypeOK
  <2> QED
    BY <1>2, <2>2, <2>3, <2>4, <2>5, <2>6
    DEF InsertItem, TypeInv, TypeOK, LocalOK, LogOK
<1>3. ASSUME NEW k \in Keys, InsertInvalid(t, k) PROVE TypeInv'
  <2>1. LocalOK'
    BY <1>3, ReturnLocal DEF InsertInvalid
  <2>2. seq_counters' \in [Collections -> Nat]
    BY <1>0, <1>3 DEF InsertInvalid, TypeInv, TypeOK
  <2>3. failed' \in SUBSET (Collections \X Keys)
    BY <1>0, <1>3 DEF InsertInvalid, TypeInv, TypeOK
  <2> QED
    BY <1>3, <2>1, <2>2, <2>3 DEF InsertInvalid, TypeInv, TypeOK, LocalOK
<1>4. ASSUME InsertCommit(t) PROVE TypeInv'
  <2>1. LogOK(wal')
    BY <1>0, <1>4, CommitEntry DEF InsertCommit, WriteEntry, TypeInv, Workers
  <2>2. LocalOK'
    BY <1>4, ReturnLocal, GotoLocal DEF InsertCommit, PCs
  <2> QED
    BY <1>4, <2>1, <2>2 DEF InsertCommit, memory, TypeInv, TypeOK, LocalOK, LogOK
<1>5. ASSUME CheckMaxSize(t) PROVE TypeInv'
  <2> DEFINE c == req[t].c
             overflow == Cardinality(Present(c)) - MaxSize[c]
             r == Call("evict", c, NoBodies, {}, overflow, "asc")
  <2>0. todo[t] = {}
    BY <1>5 DEF CheckMaxSize, TypeInv, TypeOK, WorkerOK
  <2>1. LocalOK'
    <3>1. CASE overflow > 0
      <4>1. Cardinality(Present(c)) \in Nat
        BY KeysAssumption, FS_Subset, FS_CardinalityType DEF Present
      <4>2. overflow \in Nat
        BY <1>0, <3>1, <4>1, MaxSizeAssumption
      <4>3. r \in Request
        BY <1>0, <4>2, NoBodiesType DEF Call, Request
      <4>4. /\ req' = [req EXCEPT ![t] = r] /\ pc' = [pc EXCEPT ![t] = "evict"]
            /\ UNCHANGED <<todo, key, doc>>
        BY <1>5, <3>1 DEF CheckMaxSize, Goto
      <4> QED
        BY <2>0, <4>3, <4>4 DEF TypeInv, TypeOK, WorkerOK, LocalOK, PCs
    <3>2. CASE ~(overflow > 0)
      BY <1>5, <3>2, ReturnLocal DEF CheckMaxSize
    <3> QED
      BY <3>1, <3>2
  <2> QED
    BY <1>5, <2>1 DEF CheckMaxSize, memory, TypeInv, TypeOK, LocalOK
<1> QED
  BY <1>1, <1>2, <1>3, <1>4, <1>5

(* The candidates of a deletion are pairs of a _seq and a key. *)
LEMMA CandidatesType ==
    ASSUME TypeInv, NEW t \in Workers,
           pc[t] \in {"evict", "delete_filtered", "delete_n"}
    PROVE  Candidates(t) \in SUBSET (Nat \X Keys)
<1>0. req[t].c \in Collections
  BY RequestFields DEF TypeInv, TypeOK
<1>1. SeqPairs(docs[req[t].c]) \in SUBSET (Nat \X Keys)
  BY <1>0 DEF SeqPairs, TypeInv, TypeOK, Doc
<1> QED
  BY <1>0, <1>1 DEF Candidates, TypeInv, TypeOK

LEMMA TypeDelete ==
    ASSUME TypeInv, NEW t \in Workers
    PROVE  /\ \A chosen : Select(t, chosen) => TypeInv'
           /\ SelectNothing(t) => TypeInv'
           /\ DeleteBegin(t) => TypeInv'
           /\ DeleteGet(t) => TypeInv'
           /\ \A k \in Keys : DeleteKey(t, k) => TypeInv'
           /\ DeleteLog(t) => TypeInv'
           /\ DeleteCommit(t) => TypeInv'
<1>0. req[t] \in Request /\ req[t].c \in Collections /\ req[t].keys \in SUBSET Keys
  BY RequestFields DEF TypeInv, TypeOK
<1>1. ASSUME NEW chosen, Select(t, chosen) PROVE TypeInv'
  <2> DEFINE ks == {p[2] : p \in chosen}
  <2>1. ks \in SUBSET Keys
    BY <1>1, CandidatesType DEF Select, IsFirstN
  <2>2. KeysOnly(req[t], ks) \in Request /\ todo[t] = {}
    BY <1>0, <1>1, <2>1, KeysOnlyType DEF Select, TypeInv, TypeOK, WorkerOK
  <2>3. /\ req' = [req EXCEPT ![t] = KeysOnly(req[t], ks)]
        /\ pc' = [pc EXCEPT ![t] = "delete"]
        /\ UNCHANGED <<todo, key, doc>>
    BY <1>1 DEF Select, Goto
  <2>4. LocalOK'
    <3> HIDE DEF ks
    <3> QED
      BY <2>2, <2>3 DEF TypeInv, TypeOK, WorkerOK, LocalOK, PCs, AllOps
  <2> QED
    BY <1>1, <2>4 DEF Select, memory, TypeInv, TypeOK, LocalOK
<1>2. ASSUME SelectNothing(t) PROVE TypeInv'
  <2>1. LocalOK'
    BY <1>2, ReturnLocal DEF SelectNothing
  <2> QED
    BY <1>2, <2>1 DEF SelectNothing, memory, TypeInv, TypeOK, LocalOK
<1>3. ASSUME DeleteBegin(t) PROVE TypeInv'
  <2>1. LogOK(wal')
    BY <1>0, <1>3, BeginEntry DEF DeleteBegin, WriteEntry, TypeInv, Workers
  <2>2. todo[t] = {}
    BY <1>3 DEF DeleteBegin, TypeInv, TypeOK, WorkerOK
  <2>3. LocalOK'
    BY <1>3, <2>2, GotoLocal DEF DeleteBegin, PCs
  <2> QED
    BY <1>3, <2>1, <2>3 DEF DeleteBegin, memory, TypeInv, TypeOK, LocalOK, LogOK
<1>4. ASSUME DeleteGet(t) PROVE TypeInv'
  <2>0. todo[t] = {}
    BY <1>4 DEF DeleteGet, TypeInv, TypeOK, WorkerOK
  <2>1. CASE req[t].c \in cols
    <3>1. /\ todo' = [todo EXCEPT ![t] = req[t].keys]
          /\ pc' = [pc EXCEPT ![t] = "delete_keys"]
          /\ UNCHANGED <<req, key, doc>>
      BY <1>4, <2>1 DEF DeleteGet, Goto
    <3>2. LocalOK'
      BY <1>0, <3>1 DEF TypeInv, TypeOK, WorkerOK, LocalOK, PCs
    <3> QED
      BY <1>4, <3>2 DEF DeleteGet, memory, TypeInv, TypeOK, LocalOK
  <2>2. CASE req[t].c \notin cols
    <3>1. LocalOK'
      BY <1>4, <2>0, <2>2, GotoLocal DEF DeleteGet, PCs
    <3> QED
      BY <1>4, <3>1 DEF DeleteGet, memory, TypeInv, TypeOK, LocalOK
  <2> QED
    BY <2>1, <2>2
<1>5. ASSUME NEW k \in Keys, DeleteKey(t, k) PROVE TypeInv'
  <2>1. LocalOK'
    BY <1>0, <1>5 DEF DeleteKey, Goto, TypeInv, TypeOK, WorkerOK, LocalOK, PCs
  <2>2. docs' \in [Collections -> [Keys -> Doc \cup {NoDoc}]]
    BY <1>0, <1>5 DEF DeleteKey, TypeInv, TypeOK
  <2>3. seq_index' \in [Collections -> (SUBSET (Nat \X Keys)) \cup {NoIndex}]
    BY <1>0, <1>5 DEF DeleteKey, IndexRemove, TypeInv, TypeOK
  <2> QED
    BY <1>5, <2>1, <2>2, <2>3 DEF DeleteKey, TypeInv, TypeOK, LocalOK
<1>6. ASSUME DeleteLog(t) PROVE TypeInv'
  <2>1. LogOK(wal')
    BY <1>0, <1>6, DataEntriesOK DEF DeleteLog, WriteEntry, TypeInv, TypeOK
  <2>2. LocalOK'
    BY <1>6, GotoLocal DEF DeleteLog, PCs
  <2> QED
    BY <1>6, <2>1, <2>2 DEF DeleteLog, memory, TypeInv, TypeOK, LocalOK, LogOK
<1>7. ASSUME DeleteCommit(t) PROVE TypeInv'
  <2>1. LogOK(wal')
    BY <1>0, <1>7, CommitEntry DEF DeleteCommit, WriteEntry, TypeInv, Workers
  <2>2. LocalOK'
    BY <1>7, ReturnLocal DEF DeleteCommit
  <2> QED
    BY <1>7, <2>1, <2>2 DEF DeleteCommit, memory, TypeInv, TypeOK, LocalOK, LogOK
<1> QED
  BY <1>1, <1>2, <1>3, <1>4, <1>5, <1>6, <1>7

LEMMA TypeUpdate ==
    ASSUME TypeInv, NEW t \in Workers
    PROVE  /\ UpdateBegin(t) => TypeInv'
           /\ \A k \in Keys : UpdateRead(t, k) => TypeInv'
           /\ \A k \in Keys : UpdateRejected(t, k) => TypeInv'
           /\ \A k \in Keys : UpdateAbsent(t, k) => TypeInv'
           /\ UpdateWrite(t) => TypeInv'
           /\ UpdateLog(t) => TypeInv'
           /\ UpdateCommit(t) => TypeInv'
<1>0. req[t] \in Request /\ req[t].c \in Collections /\ req[t].keys \in SUBSET Keys
  BY RequestFields DEF TypeInv, TypeOK
<1>1. ASSUME UpdateBegin(t) PROVE TypeInv'
  <2>1. LogOK(wal')
    BY <1>0, <1>1, BeginEntry DEF UpdateBegin, WriteEntry, TypeInv, Workers
  <2>2. LocalOK'
    BY <1>1 DEF UpdateBegin, Goto, TypeInv, TypeOK, WorkerOK, LocalOK, PCs
  <2> QED
    BY <1>1, <2>1, <2>2 DEF UpdateBegin, memory, TypeInv, TypeOK, LocalOK, LogOK
<1>2. ASSUME NEW k \in Keys, UpdateRead(t, k) PROVE TypeInv'
  <2> DEFINE new == Patched(docs[req[t].c][k], req[t].body[k])
  <2>1. new \in Doc
    <3>1. req[t].body[k] \in Bodies
      BY <1>2 DEF UpdateRead, TypeInv, TypeOK, WorkerOK
    <3>2. docs[req[t].c][k] \in Doc
      BY <1>0, <1>2 DEF UpdateRead, TypeInv, TypeOK
    <3> QED
      BY <3>1, <3>2 DEF Patched, Doc
  <2>2. todo[t] = {}
    BY <1>2 DEF UpdateRead, TypeInv, TypeOK, WorkerOK
  <2>3. /\ key' = [key EXCEPT ![t] = k]
        /\ doc' = [doc EXCEPT ![t] = new]
        /\ pc' = [pc EXCEPT ![t] = "update_write"]
        /\ UNCHANGED <<req, todo>>
    BY <1>2 DEF UpdateRead, Goto
  <2>4. LocalOK'
    <3> HIDE DEF new
    <3> QED
      BY <2>1, <2>2, <2>3 DEF TypeInv, TypeOK, WorkerOK, LocalOK, PCs
  <2> QED
    BY <1>2, <2>4 DEF UpdateRead, memory, TypeInv, TypeOK, LocalOK
<1>3. ASSUME NEW k \in Keys, UpdateRejected(t, k) PROVE TypeInv'
  <2>1. LocalOK'
    BY <1>3, ReturnLocal DEF UpdateRejected
  <2> QED
    BY <1>3, <2>1 DEF UpdateRejected, memory, TypeInv, TypeOK, LocalOK
<1>4. ASSUME NEW k \in Keys, UpdateAbsent(t, k) PROVE TypeInv'
  <2>1. todo[t] = {}
    BY <1>4 DEF UpdateAbsent, TypeInv, TypeOK, WorkerOK
  <2>2. LocalOK'
    BY <1>4, <2>1, GotoLocal DEF UpdateAbsent, PCs
  <2> QED
    BY <1>4, <2>2 DEF UpdateAbsent, memory, TypeInv, TypeOK, LocalOK
<1>5. ASSUME UpdateWrite(t) PROVE TypeInv'
  <2>1. doc[t] \in Doc /\ key[t] \in Keys /\ todo[t] = {}
    BY <1>5 DEF UpdateWrite, TypeInv, TypeOK, WorkerOK
  <2>2. LocalOK'
    BY <1>5, <2>1 DEF UpdateWrite, Goto, TypeInv, TypeOK, WorkerOK, LocalOK, PCs
  <2>3. docs' \in [Collections -> [Keys -> Doc \cup {NoDoc}]]
    BY <1>0, <1>5, <2>1 DEF UpdateWrite, TypeInv, TypeOK
  <2> QED
    BY <1>5, <2>2, <2>3 DEF UpdateWrite, TypeInv, TypeOK, LocalOK
<1>6. ASSUME UpdateLog(t) PROVE TypeInv'
  <2>1. doc[t] \in Doc /\ key[t] \in Keys /\ todo[t] = {}
    BY <1>6 DEF UpdateLog, TypeInv, TypeOK, WorkerOK
  <2>2. LogOK(wal')
    BY <1>0, <1>6, <2>1, DataEntriesOK DEF UpdateLog, WriteEntry, TypeInv
  <2>3. LocalOK'
    BY <1>6, <2>1, GotoLocal DEF UpdateLog, PCs
  <2> QED
    BY <1>6, <2>2, <2>3 DEF UpdateLog, memory, TypeInv, TypeOK, LocalOK, LogOK
<1>7. ASSUME UpdateCommit(t) PROVE TypeInv'
  <2>1. LogOK(wal')
    BY <1>0, <1>7, CommitEntry DEF UpdateCommit, WriteEntry, TypeInv, Workers
  <2>2. LocalOK'
    BY <1>7, ReturnLocal DEF UpdateCommit
  <2> QED
    BY <1>7, <2>1, <2>2 DEF UpdateCommit, memory, TypeInv, TypeOK, LocalOK, LogOK
<1> QED
  BY <1>1, <1>2, <1>3, <1>4, <1>5, <1>6, <1>7

LEMMA TypeDrop ==
    ASSUME TypeInv, NEW t \in Workers
    PROVE  /\ DropBegin(t) => TypeInv'
           /\ DropState(t) => TypeInv'
           /\ DropIndex(t) => TypeInv'
           /\ DropLog(t) => TypeInv'
           /\ DropCommit(t) => TypeInv'
           /\ DropCounter(t) => TypeInv'
<1>0. req[t] \in Request /\ req[t].c \in Collections
  BY RequestFields DEF TypeInv, TypeOK
<1>1. ASSUME DropBegin(t) PROVE TypeInv'
  <2>1. LogOK(wal')
    BY <1>0, <1>1, BeginEntry DEF DropBegin, WriteEntry, TypeInv, Workers
  <2>2. todo[t] = {}
    BY <1>1 DEF DropBegin, TypeInv, TypeOK, WorkerOK
  <2>3. LocalOK'
    BY <1>1, <2>2, GotoLocal DEF DropBegin, PCs
  <2> QED
    BY <1>1, <2>1, <2>3 DEF DropBegin, memory, TypeInv, TypeOK, LocalOK, LogOK
<1>2. ASSUME DropState(t) PROVE TypeInv'
  <2>1. todo[t] = {}
    BY <1>2 DEF DropState, TypeInv, TypeOK, WorkerOK
  <2>2. LocalOK'
    BY <1>2, <2>1, GotoLocal DEF DropState, PCs
  <2>3. docs' \in [Collections -> [Keys -> Doc \cup {NoDoc}]]
    BY <1>0, <1>2 DEF DropState, NoDocs, TypeInv, TypeOK
  <2> QED
    BY <1>2, <2>2, <2>3 DEF DropState, TypeInv, TypeOK, LocalOK
<1>3. ASSUME DropIndex(t) PROVE TypeInv'
  <2>1. todo[t] = {}
    BY <1>3 DEF DropIndex, TypeInv, TypeOK, WorkerOK
  <2>2. LocalOK'
    BY <1>3, <2>1, GotoLocal DEF DropIndex, PCs
  <2> QED
    BY <1>0, <1>3, <2>2 DEF DropIndex, TypeInv, TypeOK, LocalOK
<1>4. ASSUME DropLog(t) PROVE TypeInv'
  <2>1. LogOK(wal')
    BY <1>0, <1>4, DataEntriesOK DEF DropLog, WriteEntry, TypeInv, Workers
  <2>2. todo[t] = {}
    BY <1>4 DEF DropLog, TypeInv, TypeOK, WorkerOK
  <2>3. LocalOK'
    BY <1>4, <2>2, GotoLocal DEF DropLog, PCs
  <2> QED
    BY <1>4, <2>1, <2>3 DEF DropLog, memory, TypeInv, TypeOK, LocalOK, LogOK
<1>5. ASSUME DropCommit(t) PROVE TypeInv'
  <2>1. LogOK(wal')
    BY <1>0, <1>5, CommitEntry DEF DropCommit, WriteEntry, TypeInv, Workers
  <2>2. todo[t] = {}
    BY <1>5 DEF DropCommit, TypeInv, TypeOK, WorkerOK
  <2>3. LocalOK'
    BY <1>5, <2>2, GotoLocal DEF DropCommit, PCs
  <2> QED
    BY <1>5, <2>1, <2>3 DEF DropCommit, memory, TypeInv, TypeOK, LocalOK, LogOK
<1>6. ASSUME DropCounter(t) PROVE TypeInv'
  <2>1. LocalOK'
    BY <1>6, ReturnLocal DEF DropCounter
  <2> QED
    BY <1>0, <1>6, <2>1 DEF DropCounter, TypeInv, TypeOK, LocalOK
<1> QED
  BY <1>1, <1>2, <1>3, <1>4, <1>5, <1>6

LEMMA TypeSchema ==
    ASSUME TypeInv, NEW t \in Workers
    PROVE  /\ SchemaBegin(t) => TypeInv'
           /\ SchemaLog(t) => TypeInv'
           /\ SchemaCommit(t) => TypeInv'
           /\ SchemaSet(t) => TypeInv'
<1>0. /\ req[t] \in Request /\ req[t].c \in Collections
      /\ req[t].bodies \in SUBSET Bodies
  BY RequestFields DEF TypeInv, TypeOK
<1>1. ASSUME SchemaBegin(t) PROVE TypeInv'
  <2>1. LogOK(wal')
    BY <1>0, <1>1, BeginEntry DEF SchemaBegin, WriteEntry, TypeInv, Workers
  <2>2. todo[t] = {}
    BY <1>1 DEF SchemaBegin, TypeInv, TypeOK, WorkerOK
  <2>3. LocalOK'
    BY <1>1, <2>2, GotoLocal DEF SchemaBegin, PCs
  <2> QED
    BY <1>1, <2>1, <2>3 DEF SchemaBegin, memory, TypeInv, TypeOK, LocalOK, LogOK
<1>2. ASSUME SchemaLog(t) PROVE TypeInv'
  <2>1. LogOK(wal')
    BY <1>0, <1>2, DataEntriesOK DEF SchemaLog, WriteEntry, TypeInv, Workers
  <2>2. todo[t] = {}
    BY <1>2 DEF SchemaLog, TypeInv, TypeOK, WorkerOK
  <2>3. LocalOK'
    BY <1>2, <2>2, GotoLocal DEF SchemaLog, PCs
  <2> QED
    BY <1>2, <2>1, <2>3 DEF SchemaLog, memory, TypeInv, TypeOK, LocalOK, LogOK
<1>3. ASSUME SchemaCommit(t) PROVE TypeInv'
  <2>1. LogOK(wal')
    BY <1>0, <1>3, CommitEntry DEF SchemaCommit, WriteEntry, TypeInv, Workers
  <2>2. todo[t] = {}
    BY <1>3 DEF SchemaCommit, TypeInv, TypeOK, WorkerOK
  <2>3. LocalOK'
    BY <1>3, <2>2, GotoLocal DEF SchemaCommit, PCs
  <2> QED
    BY <1>3, <2>1, <2>3 DEF SchemaCommit, memory, TypeInv, TypeOK, LocalOK, LogOK
<1>4. ASSUME SchemaSet(t) PROVE TypeInv'
  <2>1. LocalOK'
    BY <1>4, ReturnLocal DEF SchemaSet
  <2> QED
    BY <1>0, <1>4, <2>1 DEF SchemaSet, TypeInv, TypeOK, LocalOK
<1> QED
  BY <1>1, <1>2, <1>3, <1>4

LEMMA TypeCrash == TypeInv /\ CrashAndReopen => TypeInv'
<1> SUFFICES ASSUME TypeInv, CrashAndReopen PROVE TypeInv'
  OBVIOUS
<1> DEFINE db == wal.durable
<1>1. db \in Db /\ DbOK(db)
  BY DEF TypeInv, LogOK, DbOK
<1>2. NoKey \in Keys
  BY KeysAssumption DEF NoKey
<1>3. LocalOK'
  BY <1>2, NoRequestType DEF CrashAndReopen, LocalOK, WorkerOK, PCs
<1>4. /\ cols' \in SUBSET Collections
      /\ docs' \in [Collections -> [Keys -> Doc \cup {NoDoc}]]
      /\ schemas' \in [Collections -> SUBSET Bodies]
  BY <1>1 DEF CrashAndReopen, Db
<1>5. seq_counters' \in [Collections -> Nat]
  <2>1. \A c \in Collections : MaxSeq(db.docs[c]) \in Nat
    BY <1>1, MaxSeqIsMax
  <2> QED
    BY <2>1 DEF CrashAndReopen
<1>6. seq_index' \in [Collections -> (SUBSET (Nat \X Keys)) \cup {NoIndex}]
  <2>1. \A c \in Collections : RebuildIndex(db.docs[c]) \in SUBSET (Nat \X Keys)
    BY <1>1 DEF RebuildIndex, SeqPairs, Db, Doc
  <2> QED
    BY <2>1 DEF CrashAndReopen
<1> QED
  BY <1>3, <1>4, <1>5, <1>6, EngineBoundsAssumption
  DEF CrashAndReopen, TypeInv, TypeOK, LocalOK

LEMMA TypeStep == TypeInv /\ [Next]_vars => TypeInv'
<1> SUFFICES ASSUME TypeInv, [Next]_vars PROVE TypeInv'
  OBVIOUS
<1>1. CASE \E t \in Workers, c \in Collections : \E r \in Requests(c) : Submit(t, r)
  BY <1>1, TypeSubmit
<1>2. CASE \E t \in Workers : Step(t)
  BY <1>2, TypeInsert, TypeDelete, TypeUpdate, TypeDrop, TypeSchema DEF Step
<1>3. CASE CrashAndReopen
  BY <1>3, TypeCrash
<1>4. CASE UNCHANGED vars
  BY <1>4 DEF vars, TypeInv, TypeOK, WorkerOK
<1> QED
  BY <1>1, <1>2, <1>3, <1>4 DEF Next, Wait

(***************************************************************************)
(* The engine's maps, the replayed log and every worker's locals keep      *)
(* their shapes, whatever requests, interleavings and crashes occur.       *)
(***************************************************************************)
THEOREM EngineTypeOK == Spec => []TypeOK
<1>1. TypeInv => TypeOK
  BY DEF TypeInv
<1> QED
  BY <1>1, TypeInit, TypeStep, PTL DEF Spec
-----------------------------------------------------------------------------
(***************************************************************************)
(* Why _seq values stay unique when no collection is dropped.              *)
(*                                                                         *)
(* Derived(d, c, k, c0, k0): the _seq of d is that of a copy of document k *)
(* of c before the step, or it is drawn from the counter by the step for   *)
(* document k0 of c0.                                                      *)
(***************************************************************************)
Derived(d, c, k, c0, k0) ==
    \/ \E e \in Copies(c, k) : e.seq = d.seq
    \/ /\ c = c0 /\ k = k0
       /\ d.seq = seq_counters[c]
       /\ seq_counters'[c] = seq_counters[c] + 1

DocsDerived(c0, k0) ==
    \A c \in Collections, k \in Keys :
        docs'[c][k] # NoDoc => Derived(docs'[c][k], c, k, c0, k0)

DurableDerived(c0, k0) ==
    \A c \in Collections, k \in Keys :
        wal'.durable.docs[c][k] # NoDoc
          => Derived(wal'.durable.docs[c][k], c, k, c0, k0)

PendingDerived(c0, k0) ==
    PendingIsLive' =>
        \A c \in Collections, k \in Keys :
            wal'.pending.docs[c][k] # NoDoc
              => Derived(wal'.pending.docs[c][k], c, k, c0, k0)

InHandDerived(c0, k0) ==
    \A u \in Workers :
        InHand(u)' => Derived(doc'[u], req'[u].c, key'[u], c0, k0)

CountersGrow ==
    \A c \in Collections : seq_counters'[c] >= seq_counters[c]

LEMMA CopiesAreDocs ==
    ASSUME TypeInv, NEW c \in Collections, NEW k \in Keys, NEW d \in Copies(c, k)
    PROVE  d \in Doc /\ d.seq \in Nat
<1>1. wal.durable.docs[c][k] \in Doc \cup {NoDoc}
  BY DEF TypeInv, TypeOK, Db
<1>2. wal.pending.docs[c][k] \in Doc \cup {NoDoc}
  BY DEF TypeInv, TypeOK, Db
<1>3. d \in Doc
  BY <1>1, <1>2 DEF Copies, TypeInv, TypeOK
<1> QED
  BY <1>3 DEF Doc

(* A step that only passes _seq values on, or draws one, preserves SeqInv. *)
LEMMA SeqPreserved ==
    ASSUME TypeInv, TypeInv', SeqInv, CountersGrow,
           NEW c0 \in Collections, NEW k0 \in Keys,
           DocsDerived(c0, k0), DurableDerived(c0, k0),
           PendingDerived(c0, k0), InHandDerived(c0, k0)
    PROVE  SeqInv'
<1>1. ASSUME NEW c \in Collections, NEW k \in Keys, NEW d \in Copies(c, k)'
      PROVE  Derived(d, c, k, c0, k0)
  <2>1. d # NoDoc
    BY DEF Copies
  <2>2. CASE d = docs'[c][k]
    BY <2>1, <2>2 DEF DocsDerived
  <2>3. CASE d = wal'.durable.docs[c][k]
    BY <2>1, <2>3 DEF DurableDerived
  <2>4. CASE PendingIsLive' /\ d = wal'.pending.docs[c][k]
    BY <2>1, <2>4 DEF PendingDerived
  <2>5. CASE \E u \in Workers : InHand(u)' /\ req'[u].c = c /\ key'[u] = k /\ d = doc'[u]
    BY <2>5 DEF InHandDerived
  <2>6. \/ d = docs'[c][k]
        \/ d = wal'.durable.docs[c][k]
        \/ PendingIsLive' /\ d = wal'.pending.docs[c][k]
        \/ \E u \in Workers : InHand(u)' /\ req'[u].c = c /\ key'[u] = k /\ d = doc'[u]
    BY DEF Copies
  <2> QED
    BY <2>2, <2>3, <2>4, <2>5, <2>6
<1>2. SUFFICES ASSUME NEW c \in Collections, NEW k \in Keys, NEW l \in Keys,
                      NEW d \in Copies(c, k)', NEW e \in Copies(c, l)'
               PROVE  d.seq < seq_counters'[c] /\ (d.seq = e.seq => k = l)
  BY DEF SeqInv
<1>3. Derived(d, c, k, c0, k0) /\ Derived(e, c, l, c0, k0)
  BY <1>1
<1>4. /\ seq_counters[c] \in Nat /\ seq_counters'[c] \in Nat
      /\ seq_counters'[c] >= seq_counters[c]
  BY DEF TypeInv, TypeOK, CountersGrow
<1>5. /\ \A x \in Copies(c, k), y \in Copies(c, l) :
            x.seq < seq_counters[c] /\ (x.seq = y.seq => k = l)
      /\ \A y \in Copies(c, l) : y.seq < seq_counters[c]
      /\ \A x \in Copies(c, k) : x.seq < seq_counters[c]
  BY DEF SeqInv
<1>6. /\ \A x \in Copies(c, k) : x.seq \in Nat
      /\ \A y \in Copies(c, l) : y.seq \in Nat
  BY CopiesAreDocs
<1> QED
  BY <1>3, <1>4, <1>5, <1>6 DEF Derived

(* What a step leaves alone is derived. *)
LEMMA UnchangedDerived ==
    ASSUME NEW c0, NEW k0, TypeInv
    PROVE  /\ UNCHANGED docs => DocsDerived(c0, k0)
           /\ wal'.durable = wal.durable => DurableDerived(c0, k0)
           /\ wal' = wal /\ (PendingIsLive' => PendingIsLive) => PendingDerived(c0, k0)
           /\ (\A u \in Workers : InHand(u)' =>
                  /\ InHand(u) /\ req'[u].c = req[u].c
                  /\ key'[u] = key[u] /\ doc'[u] = doc[u])
                => InHandDerived(c0, k0)
           /\ UNCHANGED seq_counters => CountersGrow
<1>1. ASSUME UNCHANGED docs PROVE DocsDerived(c0, k0)
  BY <1>1 DEF DocsDerived, Derived, Copies
<1>2. ASSUME wal'.durable = wal.durable PROVE DurableDerived(c0, k0)
  BY <1>2 DEF DurableDerived, Derived, Copies
<1>3. ASSUME wal' = wal, PendingIsLive' => PendingIsLive PROVE PendingDerived(c0, k0)
  BY <1>3 DEF PendingDerived, Derived, Copies
<1>4. ASSUME \A u \in Workers : InHand(u)' =>
                /\ InHand(u) /\ req'[u].c = req[u].c
                /\ key'[u] = key[u] /\ doc'[u] = doc[u]
      PROVE  InHandDerived(c0, k0)
  <2>1. ASSUME NEW u \in Workers, InHand(u)'
        PROVE  Derived(doc'[u], req'[u].c, key'[u], c0, k0)
    <3>1. /\ InHand(u) /\ req'[u].c = req[u].c
          /\ key'[u] = key[u] /\ doc'[u] = doc[u]
      BY <1>4, <2>1
    <3>2. doc[u] # NoDoc
      BY <3>1, NoDocAssumption DEF InHand, TypeInv, TypeOK, WorkerOK
    <3>3. doc[u] \in Copies(req[u].c, key[u])
      BY <3>1, <3>2 DEF Copies
    <3> QED
      BY <3>1, <3>3 DEF Derived
  <2> QED
    BY <2>1 DEF InHandDerived
<1>5. ASSUME UNCHANGED seq_counters PROVE CountersGrow
  BY <1>5 DEF CountersGrow, TypeInv, TypeOK
<1> QED
  BY <1>1, <1>2, <1>3, <1>4, <1>5

(***************************************************************************)
(* Worker t moves on, to a place where it holds no updated document, and   *)
(* leaves the others alone.                                                *)
(***************************************************************************)
Moves(t) ==
    /\ \E where \in PCs \ {"update_write", "update_log"} :
          pc' = [pc EXCEPT ![t] = where]
    /\ \A u \in Workers \ {t} :
          req'[u] = req[u] /\ key'[u] = key[u] /\ doc'[u] = doc[u]

LEMMA MovesDerived ==
    ASSUME TypeInv, NEW t \in Workers, Moves(t), NEW c0, NEW k0
    PROVE  /\ InHandDerived(c0, k0)
           /\ wal'.active = wal.active /\ (InTx(t)' => InTx(t))
                => (PendingIsLive' => PendingIsLive)
<1>1. PICK where \in PCs \ {"update_write", "update_log"} : pc' = [pc EXCEPT ![t] = where]
  BY DEF Moves
<1>2. \A u \in Workers : InHand(u)' =>
         /\ InHand(u) /\ req'[u].c = req[u].c
         /\ key'[u] = key[u] /\ doc'[u] = doc[u]
  BY <1>1 DEF InHand, Moves, TypeInv, TypeOK
<1>3. \A u \in Workers \ {t} : InTx(u)' => InTx(u)
  BY <1>1 DEF InTx, TypeInv, TypeOK
<1>4. wal.active \in Workers \cup {NoTx}
  BY DEF TypeInv, TypeOK, Workers
<1>5. ASSUME wal'.active = wal.active, InTx(t)' => InTx(t), PendingIsLive'
      PROVE  PendingIsLive
  <2>1. wal.active # NoTx /\ InTx(wal.active)'
    BY <1>5 DEF PendingIsLive, InTx
  <2>2. CASE wal.active = t
    BY <1>5, <2>1, <2>2 DEF PendingIsLive, InTx
  <2>3. CASE wal.active # t
    BY <1>3, <1>4, <1>5, <2>1, <2>3 DEF PendingIsLive, InTx
  <2> QED
    BY <2>2, <2>3
<1> QED
  BY <1>2, <1>5, UnchangedDerived

LEMMA ReturnMoves ==
    ASSUME TypeInv, NEW t \in Workers, Return(t)
    PROVE  Moves(t) /\ ~InTx(t)'
<1>1. "idle" \in PCs \ {"update_write", "update_log"}
  BY DEF PCs
<1>2. pc' = [pc EXCEPT ![t] = "idle"]
  BY DEF Return, Goto
<1>3. ~InTx(t)'
  BY <1>2 DEF InTx, TypeInv, TypeOK
<1>4. \A u \in Workers \ {t} : req'[u] = req[u] /\ key'[u] = key[u] /\ doc'[u] = doc[u]
  BY DEF Return, TypeInv, TypeOK
<1> QED
  BY <1>1, <1>2, <1>3, <1>4 DEF Moves

LEMMA GotoMoves ==
    ASSUME TypeInv, NEW t \in Workers,
           NEW where \in PCs \ {"update_write", "update_log"}, Goto(t, where),
           UNCHANGED doc,
           \A u \in Workers \ {t} : req'[u] = req[u] /\ key'[u] = key[u]
    PROVE  Moves(t) /\ pc'[t] = where
BY DEF Goto, Moves, TypeInv, TypeOK

(* A step that writes no log entry and stores no document. *)
LEMMA QuietStep ==
    ASSUME TypeInv, TypeInv', SeqInv, NEW t \in Workers, Moves(t),
           InTx(t)' => InTx(t), UNCHANGED wal, CountersGrow,
           \A c \in Collections, k \in Keys : docs'[c][k] \in {docs[c][k], NoDoc}
    PROVE  SeqInv'
<1>1. PICK c0 \in Collections, k0 \in Keys : TRUE
  BY CollectionsAssumption, KeysAssumption
<1>2. DocsDerived(c0, k0)
  BY DEF DocsDerived, Derived, Copies
<1> QED
  BY <1>1, <1>2, MovesDerived, UnchangedDerived, SeqPreserved

(* A transaction starts: its pending content is the durable one. *)
LEMMA BeginStep ==
    ASSUME TypeInv, TypeInv', SeqInv, NEW t \in Workers, Moves(t),
           UNCHANGED <<docs, seq_counters>>,
           NEW c \in Collections, WriteEntry(TxBegin(c, t))
    PROVE  SeqInv'
<1>1. PICK c0 \in Collections, k0 \in Keys : TRUE
  BY CollectionsAssumption, KeysAssumption
<1>2. wal' = LogOf(wal.durable, wal.durable, t)
  BY BeginEntry DEF WriteEntry, TypeInv, Workers
<1>3. wal'.durable = wal.durable /\ wal'.pending = wal.durable
  BY <1>2 DEF LogOf
<1>4. DurableDerived(c0, k0) /\ PendingDerived(c0, k0)
  BY <1>3 DEF DurableDerived, PendingDerived, Derived, Copies
<1> QED
  BY <1>1, <1>4, MovesDerived, UnchangedDerived, SeqPreserved

(* A transaction ends: if it is the open one, its content becomes durable. *)
LEMMA CommitStep ==
    ASSUME TypeInv, TypeInv', SeqInv, NEW t \in Workers, Moves(t), InTx(t),
           UNCHANGED <<docs, seq_counters>>,
           NEW c \in Collections, WriteEntry(TxCommit(c, t))
    PROVE  SeqInv'
<1>1. PICK c0 \in Collections, k0 \in Keys : TRUE
  BY CollectionsAssumption, KeysAssumption
<1>2. wal' = IF wal.active = t THEN LogOf(wal.pending, wal.pending, NoTx) ELSE wal
  BY CommitEntry DEF WriteEntry, TypeInv, Workers
<1>3. CASE wal.active = t
  <2>1. wal'.durable = wal.pending /\ wal'.active = NoTx
    BY <1>2, <1>3 DEF LogOf
  <2>2. PendingIsLive
    BY <1>3, NoTxAssumption DEF PendingIsLive, Workers
  <2>3. DurableDerived(c0, k0) /\ PendingDerived(c0, k0)
    BY <2>1, <2>2 DEF DurableDerived, PendingDerived, PendingIsLive, Derived, Copies
  <2> QED
    BY <1>1, <2>3, MovesDerived, UnchangedDerived, SeqPreserved
<1>4. CASE wal.active # t
  <2>1. wal' = wal
    BY <1>2, <1>4
  <2> QED
    BY <1>1, <2>1, MovesDerived, UnchangedDerived, SeqPreserved
<1> QED
  BY <1>3, <1>4

(***************************************************************************)
(* What a data entry does to the documents of the log: document k0 of c0   *)
(* becomes d0, in the buffer of the open transaction if there is one.      *)
(***************************************************************************)
Logged(c0, k0, d0) ==
    /\ wal'.active = wal.active
    /\ \A c \in Collections, k \in Keys :
          /\ \/ wal'.durable.docs[c][k] = wal.durable.docs[c][k]
             \/ c = c0 /\ k = k0 /\ wal'.durable.docs[c][k] = d0
          /\ wal.active # NoTx =>
             \/ wal'.pending.docs[c][k] = wal.pending.docs[c][k]
             \/ c = c0 /\ k = k0 /\ wal'.pending.docs[c][k] = d0

LEMMA InsertLogged ==
    ASSUME TypeInv, NEW c0 \in Collections, NEW k0 \in Keys, NEW d0 \in Doc,
           WriteEntry(InsertEntry(c0, k0, d0))
    PROVE  Logged(c0, k0, d0)
<1>1. \A db : ApplyEntry(db, InsertEntry(c0, k0, d0), 0) = PutDoc(db, c0, k0, d0)
  BY DEF ApplyEntry, InsertEntry, LogEntry
<1>2. InsertEntry(c0, k0, d0).cmd \notin {"TX_BEGIN", "TX_COMMIT"}
  BY DEF InsertEntry, LogEntry
<1>3. wal' = IF wal.active # NoTx
             THEN LogOf(wal.durable, PutDoc(wal.pending, c0, k0, d0), wal.active)
             ELSE LogOf(PutDoc(wal.durable, c0, k0, d0),
                        PutDoc(wal.durable, c0, k0, d0), NoTx)
  BY <1>1, <1>2, PutDocOK, DataEntry DEF WriteEntry, TypeInv, LogOK
<1> QED
  BY <1>3 DEF Logged, LogOf, PutDoc, DbOf, TypeInv, LogOK, Db

LEMMA DeleteLogged ==
    ASSUME TypeInv, NEW c0 \in Collections, NEW k0 \in Keys,
           WriteEntry(DeleteEntry(c0, k0))
    PROVE  Logged(c0, k0, NoDoc)
<1>1. \A db : ApplyEntry(db, DeleteEntry(c0, k0), 0) = RemoveDoc(db, c0, k0)
  BY DEF ApplyEntry, DeleteEntry, LogEntry
<1>2. DeleteEntry(c0, k0).cmd \notin {"TX_BEGIN", "TX_COMMIT"}
  BY DEF DeleteEntry, LogEntry
<1>3. wal' = IF wal.active # NoTx
             THEN LogOf(wal.durable, RemoveDoc(wal.pending, c0, k0), wal.active)
             ELSE LogOf(RemoveDoc(wal.durable, c0, k0),
                        RemoveDoc(wal.durable, c0, k0), NoTx)
  BY <1>1, <1>2, RemoveDocOK, DataEntry DEF WriteEntry, TypeInv, LogOK
<1> QED
  BY <1>3 DEF Logged, LogOf, RemoveDoc, DbOf, TypeInv, LogOK, Db

LEMMA SchemaLogged ==
    ASSUME TypeInv, NEW c0 \in Collections, NEW k0 \in Keys, NEW bs \in SUBSET Bodies,
           WriteEntry(SchemaEntry(c0, bs))
    PROVE  Logged(c0, k0, NoDoc)
<1>1. \A db : ApplyEntry(db, SchemaEntry(c0, bs), 0) = SetSchema(db, c0, bs)
  BY DEF ApplyEntry, SchemaEntry, LogEntry
<1>2. SchemaEntry(c0, bs).cmd \notin {"TX_BEGIN", "TX_COMMIT"}
  BY DEF SchemaEntry, LogEntry
<1>3. wal' = IF wal.active # NoTx
             THEN LogOf(wal.durable, SetSchema(wal.pending, c0, bs), wal.active)
             ELSE LogOf(SetSchema(wal.durable, c0, bs),
                        SetSchema(wal.durable, c0, bs), NoTx)
  BY <1>1, <1>2, SetSchemaOK, DataEntry DEF WriteEntry, TypeInv, LogOK
<1> QED
  BY <1>3 DEF Logged, LogOf, SetSchema, DbOf

(* A document with a derived _seq, or none, is logged. *)
LEMMA LoggedDerived ==
    ASSUME TypeInv, NEW c0 \in Collections, NEW k0 \in Keys, NEW d0,
           Logged(c0, k0, d0), d0 = NoDoc \/ Derived(d0, c0, k0, c0, k0),
           PendingIsLive' => PendingIsLive
    PROVE  DurableDerived(c0, k0) /\ PendingDerived(c0, k0)
<1>1. DurableDerived(c0, k0)
  <2>1. ASSUME NEW c \in Collections, NEW k \in Keys,
               wal'.durable.docs[c][k] # NoDoc
        PROVE  Derived(wal'.durable.docs[c][k], c, k, c0, k0)
    <3>1. CASE wal'.durable.docs[c][k] = wal.durable.docs[c][k]
      BY <2>1, <3>1 DEF Derived, Copies
    <3>2. CASE c = c0 /\ k = k0 /\ wal'.durable.docs[c][k] = d0
      BY <2>1, <3>2
    <3> QED
      BY <3>1, <3>2 DEF Logged
  <2> QED
    BY <2>1 DEF DurableDerived
<1>2. PendingDerived(c0, k0)
  <2>1. ASSUME PendingIsLive', NEW c \in Collections, NEW k \in Keys,
               wal'.pending.docs[c][k] # NoDoc
        PROVE  Derived(wal'.pending.docs[c][k], c, k, c0, k0)
    <3>0. PendingIsLive /\ wal.active # NoTx
      BY <2>1 DEF PendingIsLive
    <3>1. CASE wal'.pending.docs[c][k] = wal.pending.docs[c][k]
      BY <2>1, <3>0, <3>1 DEF Derived, Copies
    <3>2. CASE c = c0 /\ k = k0 /\ wal'.pending.docs[c][k] = d0
      BY <2>1, <3>2
    <3> QED
      BY <3>0, <3>1, <3>2 DEF Logged
  <2> QED
    BY <2>1 DEF PendingDerived
<1> QED
  BY <1>1, <1>2

(* A Delete or Schema entry is logged. *)
LEMMA RemovalStep ==
    ASSUME TypeInv, TypeInv', SeqInv, NEW t \in Workers, Moves(t), InTx(t),
           UNCHANGED <<docs, seq_counters>>,
           NEW c0 \in Collections, NEW k0 \in Keys, Logged(c0, k0, NoDoc)
    PROVE  SeqInv'
<1>1. PendingIsLive' => PendingIsLive
  BY MovesDerived DEF Logged
<1> QED
  BY <1>1, LoggedDerived, MovesDerived, UnchangedDerived, SeqPreserved

(***************************************************************************)
(* The invariant: SeqInv, the types, and that nobody drops a collection.   *)
(***************************************************************************)
NoDrop == \A t \in Workers :
    pc[t] \notin {"delete_collection", "drop_state", "drop_index", "drop_log",
                 "drop_commit", "drop_counter"}

LEMMA SeqInsert ==
    ASSUME TypeInv, TypeInv', SeqInv, NEW t \in Workers
    PROVE  /\ InsertBegin(t) => SeqInv'
           /\ \A k \in Keys : InsertItem(t, k) => SeqInv'
           /\ \A k \in Keys : InsertInvalid(t, k) => SeqInv'
           /\ InsertCommit(t) => SeqInv'
           /\ CheckMaxSize(t) => SeqInv'
<1>0. req[t].c \in Collections
  BY RequestFields DEF TypeInv, TypeOK
<1>1. ASSUME InsertBegin(t) PROVE SeqInv'
  <2>1. Moves(t)
    BY <1>1, GotoMoves DEF InsertBegin, PCs
  <2> QED
    BY <1>0, <1>1, <2>1, BeginStep DEF InsertBegin
<1>2. ASSUME NEW k \in Keys, InsertItem(t, k) PROVE SeqInv'
  <2> DEFINE c == req[t].c
             d == Stored(docs[c][k], seq_counters[c], req[t].body[k])
  <2>1. d \in Doc
    BY <1>2, StoredType
  <2>2. Derived(d, c, k, c, k)
    <3>1. seq_counters'[c] = seq_counters[c] + 1
      BY <1>0, <1>2 DEF InsertItem, TypeInv, TypeOK
    <3>2. CASE docs[c][k] = NoDoc
      BY <3>1, <3>2 DEF Stored, Derived
    <3>3. CASE docs[c][k] # NoDoc
      BY <3>3 DEF Stored, Derived, Copies
    <3> QED
      BY <3>2, <3>3
  <2>3. Logged(c, k, d)
    BY <1>0, <1>2, <2>1, InsertLogged DEF InsertItem
  <2>4. UNCHANGED <<pc, req, key, doc>>
    BY <1>2 DEF InsertItem
  <2>5. PendingIsLive' => PendingIsLive
    BY <2>3, <2>4 DEF Logged, PendingIsLive, InTx
  <2>6. InHandDerived(c, k)
    BY <2>4, UnchangedDerived DEF InHand
  <2>7. DocsDerived(c, k)
    <3> HIDE DEF d
    <3>1. docs' = [docs EXCEPT ![c][k] = d]
      BY <1>2 DEF InsertItem, d
    <3>2. ASSUME NEW cc \in Collections, NEW kk \in Keys, docs'[cc][kk] # NoDoc
          PROVE  Derived(docs'[cc][kk], cc, kk, c, k)
      <4>1. CASE cc = c /\ kk = k
        BY <1>0, <2>2, <3>1, <4>1 DEF TypeInv, TypeOK
      <4>2. CASE ~(cc = c /\ kk = k)
        <5>1. docs'[cc][kk] = docs[cc][kk]
          BY <1>0, <3>1, <4>2 DEF TypeInv, TypeOK
        <5> QED
          BY <3>2, <5>1 DEF Derived, Copies
      <4> QED
        BY <4>1, <4>2
    <3> QED
      BY <3>2 DEF DocsDerived
  <2>8. CountersGrow
    BY <1>0, <1>2 DEF InsertItem, CountersGrow, TypeInv, TypeOK
  <2> QED
    BY <1>0, <2>2, <2>3, <2>5, <2>6, <2>7, <2>8, LoggedDerived, SeqPreserved
<1>3. ASSUME NEW k \in Keys, InsertInvalid(t, k) PROVE SeqInv'
  <2>1. Moves(t) /\ ~InTx(t)'
    BY <1>3, ReturnMoves DEF InsertInvalid
  <2>2. CountersGrow
    BY <1>0, <1>3 DEF InsertInvalid, CountersGrow, TypeInv, TypeOK
  <2> QED
    BY <1>3, <2>1, <2>2, QuietStep DEF InsertInvalid
<1>4. ASSUME InsertCommit(t) PROVE SeqInv'
  <2>1. Moves(t)
    BY <1>4, ReturnMoves, GotoMoves DEF InsertCommit, PCs
  <2>2. InTx(t)
    BY <1>4 DEF InsertCommit, InTx
  <2> QED
    BY <1>0, <1>4, <2>1, <2>2, CommitStep DEF InsertCommit, memory
<1>5. ASSUME CheckMaxSize(t) PROVE SeqInv'
  <2>1. Moves(t) /\ ~InTx(t)'
    <3>1. CASE Return(t)
      BY <3>1, ReturnMoves
    <3>2. CASE ~Return(t)
      <4>1. /\ Goto(t, "evict") /\ UNCHANGED <<todo, key, doc>>
            /\ \A u \in Workers \ {t} : req'[u] = req[u]
        BY <1>5, <3>2 DEF CheckMaxSize, TypeInv, TypeOK
      <4>2. "evict" \in PCs \ {"update_write", "update_log"}
        BY DEF PCs
      <4>3. Moves(t) /\ pc'[t] = "evict"
        BY <4>1, <4>2, GotoMoves
      <4> QED
        BY <4>3 DEF InTx
    <3> QED
      BY <3>1, <3>2
  <2>2. UNCHANGED <<docs, wal>> /\ CountersGrow
    BY <1>5, UnchangedDerived DEF CheckMaxSize, memory
  <2> QED
    BY <2>1, <2>2, QuietStep
<1> QED
  BY <1>1, <1>2, <1>3, <1>4, <1>5

LEMMA SeqDelete ==
    ASSUME TypeInv, TypeInv', SeqInv, NEW t \in Workers
    PROVE  /\ \A chosen : Select(t, chosen) => SeqInv'
           /\ SelectNothing(t) => SeqInv'
           /\ DeleteBegin(t) => SeqInv'
           /\ DeleteGet(t) => SeqInv'
           /\ \A k \in Keys : DeleteKey(t, k) => SeqInv'
           /\ DeleteLog(t) => SeqInv'
           /\ DeleteCommit(t) => SeqInv'
<1>0. req[t].c \in Collections /\ key[t] \in Keys
  BY RequestFields DEF TypeInv, TypeOK
<1>1. ASSUME NEW chosen, Select(t, chosen) PROVE SeqInv'
  <2>1. /\ Goto(t, "delete") /\ UNCHANGED <<key, doc>>
        /\ \A u \in Workers \ {t} : req'[u] = req[u]
    BY <1>1 DEF Select, TypeInv, TypeOK
  <2>2. "delete" \in PCs \ {"update_write", "update_log"}
    BY DEF PCs, AllOps
  <2>3. Moves(t) /\ pc'[t] = "delete"
    BY <2>1, <2>2, GotoMoves
  <2>4. ~InTx(t)'
    BY <2>3 DEF InTx
  <2>5. UNCHANGED <<docs, wal>> /\ CountersGrow
    BY <1>1, UnchangedDerived DEF Select, memory
  <2> QED
    BY <2>3, <2>4, <2>5, QuietStep
<1>2. ASSUME SelectNothing(t) PROVE SeqInv'
  <2>1. UNCHANGED <<docs, wal>> /\ CountersGrow
    BY <1>2, UnchangedDerived DEF SelectNothing, memory
  <2>2. Moves(t) /\ ~InTx(t)'
    BY <1>2, ReturnMoves DEF SelectNothing
  <2> QED
    BY <2>1, <2>2, QuietStep
<1>3. ASSUME DeleteBegin(t) PROVE SeqInv'
  <2>1. Moves(t)
    BY <1>3, GotoMoves DEF DeleteBegin, PCs
  <2> QED
    BY <1>0, <1>3, <2>1, BeginStep DEF DeleteBegin, memory
<1>4. ASSUME DeleteGet(t) PROVE SeqInv'
  <2>1. Moves(t)
    BY <1>4, GotoMoves DEF DeleteGet, PCs
  <2>2. UNCHANGED <<docs, wal>> /\ CountersGrow
    BY <1>4, UnchangedDerived DEF DeleteGet, memory
  <2>3. InTx(t)
    BY <1>4 DEF DeleteGet, InTx
  <2> QED
    BY <2>1, <2>2, <2>3, QuietStep
<1>5. ASSUME NEW k \in Keys, DeleteKey(t, k) PROVE SeqInv'
  <2>1. /\ Goto(t, "delete_log") /\ UNCHANGED <<req, doc, wal, seq_counters>>
        /\ \A u \in Workers \ {t} : key'[u] = key[u]
    BY <1>5 DEF DeleteKey, TypeInv, TypeOK
  <2>2. "delete_log" \in PCs \ {"update_write", "update_log"}
    BY DEF PCs
  <2>3. Moves(t)
    BY <2>1, <2>2, GotoMoves
  <2>4. InTx(t)
    BY <1>5 DEF DeleteKey, InTx
  <2>5. \A c \in Collections, kk \in Keys : docs'[c][kk] \in {docs[c][kk], NoDoc}
    BY <1>0, <1>5 DEF DeleteKey, TypeInv, TypeOK
  <2> QED
    BY <2>1, <2>3, <2>4, <2>5, UnchangedDerived, QuietStep
<1>6. ASSUME DeleteLog(t) PROVE SeqInv'
  <2>1. Moves(t)
    BY <1>6, GotoMoves DEF DeleteLog, PCs
  <2>2. InTx(t)
    BY <1>6 DEF DeleteLog, InTx
  <2>3. Logged(req[t].c, key[t], NoDoc)
    BY <1>0, <1>6, DeleteLogged DEF DeleteLog
  <2> QED
    BY <1>0, <1>6, <2>1, <2>2, <2>3, RemovalStep DEF DeleteLog, memory
<1>7. ASSUME DeleteCommit(t) PROVE SeqInv'
  <2>1. Moves(t)
    BY <1>7, ReturnMoves DEF DeleteCommit
  <2>2. InTx(t)
    BY <1>7 DEF DeleteCommit, InTx
  <2> QED
    BY <1>0, <1>7, <2>1, <2>2, CommitStep DEF DeleteCommit, memory
<1> QED
  BY <1>1, <1>2, <1>3, <1>4, <1>5, <1>6, <1>7

LEMMA SeqUpdate ==
    ASSUME TypeInv, TypeInv', SeqInv, NEW t \in Workers
    PROVE  /\ UpdateBegin(t) => SeqInv'
           /\ \A k \in Keys : UpdateRead(t, k) => SeqInv'
           /\ \A k \in Keys : UpdateRejected(t, k) => SeqInv'
           /\ \A k \in Keys : UpdateAbsent(t, k) => SeqInv'
           /\ UpdateWrite(t) => SeqInv'
           /\ UpdateLog(t) => SeqInv'
           /\ UpdateCommit(t) => SeqInv'
<1>0. req[t].c \in Collections /\ key[t] \in Keys
  BY RequestFields DEF TypeInv, TypeOK
<1>a. ASSUME InHand(t)
      PROVE  doc[t] \in Doc /\ Derived(doc[t], req[t].c, key[t], req[t].c, key[t])
  <2>1. doc[t] \in Doc
    BY <1>a DEF InHand, TypeInv, TypeOK, WorkerOK
  <2>2. doc[t] \in Copies(req[t].c, key[t])
    BY <1>a, <2>1, NoDocAssumption DEF Copies
  <2> QED
    BY <2>1, <2>2 DEF Derived
<1>1. ASSUME UpdateBegin(t) PROVE SeqInv'
  <2>1. Moves(t)
    BY <1>1, GotoMoves DEF UpdateBegin, PCs
  <2> QED
    BY <1>0, <1>1, <2>1, BeginStep DEF UpdateBegin, memory
<1>2. ASSUME NEW k \in Keys, UpdateRead(t, k) PROVE SeqInv'
  <2> DEFINE c == req[t].c
             new == Patched(docs[c][k], req[t].body[k])
  <2>1. Derived(new, c, k, c, k)
    BY <1>2 DEF UpdateRead, Patched, Derived, Copies
  <2>2. /\ key' = [key EXCEPT ![t] = k] /\ doc' = [doc EXCEPT ![t] = new]
        /\ pc' = [pc EXCEPT ![t] = "update_write"] /\ pc[t] = "update_read"
        /\ UNCHANGED <<docs, seq_counters, wal, req>>
    BY <1>2 DEF UpdateRead, Goto, memory
  <2>3. InHandDerived(c, k)
    <3> HIDE DEF new
    <3>1. ASSUME NEW u \in Workers, InHand(u)'
          PROVE  Derived(doc'[u], req'[u].c, key'[u], c, k)
      <4>1. CASE u = t
        BY <2>1, <2>2, <4>1 DEF TypeInv, TypeOK
      <4>2. CASE u # t
        <5>1. /\ InHand(u) /\ doc'[u] = doc[u] /\ req'[u].c = req[u].c
              /\ key'[u] = key[u]
          BY <2>2, <3>1, <4>2 DEF InHand, TypeInv, TypeOK
        <5>2. doc[u] # NoDoc
          BY <5>1, NoDocAssumption DEF InHand, TypeInv, TypeOK, WorkerOK
        <5>3. doc[u] \in Copies(req[u].c, key[u])
          BY <5>1, <5>2 DEF Copies
        <5> QED
          BY <5>1, <5>3 DEF Derived
      <4> QED
        BY <4>1, <4>2
    <3> QED
      BY <3>1 DEF InHandDerived
  <2>4. PendingIsLive' => PendingIsLive
    BY <2>2 DEF PendingIsLive, InTx, TypeInv, TypeOK, Workers
  <2> QED
    BY <1>0, <2>2, <2>3, <2>4, UnchangedDerived, SeqPreserved
<1>3. ASSUME NEW k \in Keys, UpdateRejected(t, k) PROVE SeqInv'
  <2>1. UNCHANGED <<docs, wal>> /\ CountersGrow
    BY <1>3, UnchangedDerived DEF UpdateRejected, memory
  <2>2. Moves(t) /\ ~InTx(t)'
    BY <1>3, ReturnMoves DEF UpdateRejected
  <2> QED
    BY <2>1, <2>2, QuietStep
<1>4. ASSUME NEW k \in Keys, UpdateAbsent(t, k) PROVE SeqInv'
  <2>1. UNCHANGED <<docs, wal>> /\ CountersGrow
    BY <1>4, UnchangedDerived DEF UpdateAbsent, memory
  <2>2. Moves(t)
    BY <1>4, GotoMoves DEF UpdateAbsent, PCs
  <2>3. InTx(t)
    BY <1>4 DEF UpdateAbsent, InTx
  <2> QED
    BY <2>1, <2>2, <2>3, QuietStep
<1>5. ASSUME UpdateWrite(t) PROVE SeqInv'
  <2> DEFINE c == req[t].c
             k == key[t]
  <2>1. /\ docs' = [docs EXCEPT ![c][k] = doc[t]]
        /\ pc' = [pc EXCEPT ![t] = "update_log"] /\ pc[t] = "update_write"
        /\ UNCHANGED <<seq_counters, wal, req, key, doc>>
    BY <1>5 DEF UpdateWrite, Goto
  <2>2. doc[t] \in Doc /\ Derived(doc[t], c, k, c, k)
    BY <1>a, <2>1 DEF InHand
  <2>3. DocsDerived(c, k)
    <3>1. ASSUME NEW cc \in Collections, NEW kk \in Keys, docs'[cc][kk] # NoDoc
          PROVE  Derived(docs'[cc][kk], cc, kk, c, k)
      <4>1. CASE cc = c /\ kk = k
        BY <1>0, <2>1, <2>2, <4>1 DEF TypeInv, TypeOK
      <4>2. CASE ~(cc = c /\ kk = k)
        <5>1. docs'[cc][kk] = docs[cc][kk]
          BY <1>0, <2>1, <4>2 DEF TypeInv, TypeOK
        <5> QED
          BY <3>1, <5>1 DEF Derived, Copies
      <4> QED
        BY <4>1, <4>2
    <3> QED
      BY <3>1 DEF DocsDerived
  <2>4. \A u \in Workers : InHand(u)' => InHand(u)
    BY <2>1 DEF InHand, TypeInv, TypeOK
  <2>5. PendingIsLive' => PendingIsLive
    BY <2>1 DEF PendingIsLive, InTx, TypeInv, TypeOK, Workers
  <2> QED
    BY <1>0, <2>1, <2>3, <2>4, <2>5, UnchangedDerived, SeqPreserved
<1>6. ASSUME UpdateLog(t) PROVE SeqInv'
  <2>1. Moves(t)
    BY <1>6, GotoMoves DEF UpdateLog, PCs
  <2>2. InTx(t) /\ InHand(t)
    BY <1>6 DEF UpdateLog, InTx, InHand
  <2>3. Logged(req[t].c, key[t], doc[t])
    BY <1>0, <1>6, <1>a, <2>2, InsertLogged DEF UpdateLog
  <2>4. PendingIsLive' => PendingIsLive
    BY <2>1, <2>2, <2>3, MovesDerived DEF Logged
  <2>5. UNCHANGED <<docs, seq_counters>>
    BY <1>6 DEF UpdateLog, memory
  <2> QED
    BY <1>0, <1>a, <2>1, <2>2, <2>3, <2>4, <2>5, LoggedDerived, MovesDerived,
       UnchangedDerived, SeqPreserved
<1>7. ASSUME UpdateCommit(t) PROVE SeqInv'
  <2>1. Moves(t)
    BY <1>7, ReturnMoves DEF UpdateCommit
  <2>2. InTx(t)
    BY <1>7 DEF UpdateCommit, InTx
  <2> QED
    BY <1>0, <1>7, <2>1, <2>2, CommitStep DEF UpdateCommit, memory
<1> QED
  BY <1>1, <1>2, <1>3, <1>4, <1>5, <1>6, <1>7

LEMMA SeqSchema ==
    ASSUME TypeInv, TypeInv', SeqInv, NEW t \in Workers
    PROVE  /\ SchemaBegin(t) => SeqInv'
           /\ SchemaLog(t) => SeqInv'
           /\ SchemaCommit(t) => SeqInv'
           /\ SchemaSet(t) => SeqInv'
<1>0. req[t].c \in Collections /\ key[t] \in Keys /\ req[t].bodies \in SUBSET Bodies
  BY RequestFields DEF TypeInv, TypeOK
<1>1. ASSUME SchemaBegin(t) PROVE SeqInv'
  <2>1. Moves(t)
    BY <1>1, GotoMoves DEF SchemaBegin, PCs
  <2> QED
    BY <1>0, <1>1, <2>1, BeginStep DEF SchemaBegin, memory
<1>2. ASSUME SchemaLog(t) PROVE SeqInv'
  <2>1. Moves(t)
    BY <1>2, GotoMoves DEF SchemaLog, PCs
  <2>2. InTx(t)
    BY <1>2 DEF SchemaLog, InTx
  <2>3. Logged(req[t].c, key[t], NoDoc)
    BY <1>0, <1>2, SchemaLogged DEF SchemaLog
  <2> QED
    BY <1>0, <1>2, <2>1, <2>2, <2>3, RemovalStep DEF SchemaLog, memory
<1>3. ASSUME SchemaCommit(t) PROVE SeqInv'
  <2>1. Moves(t)
    BY <1>3, GotoMoves DEF SchemaCommit, PCs
  <2>2. InTx(t)
    BY <1>3 DEF SchemaCommit, InTx
  <2> QED
    BY <1>0, <1>3, <2>1, <2>2, CommitStep DEF SchemaCommit, memory
<1>4. ASSUME SchemaSet(t) PROVE SeqInv'
  <2>1. UNCHANGED <<docs, wal>> /\ CountersGrow
    BY <1>4, UnchangedDerived DEF SchemaSet
  <2>2. Moves(t) /\ ~InTx(t)'
    BY <1>4, ReturnMoves DEF SchemaSet
  <2> QED
    BY <2>1, <2>2, QuietStep
<1> QED
  BY <1>1, <1>2, <1>3, <1>4

LEMMA SeqSubmit ==
    ASSUME TypeInv, TypeInv', SeqInv, NEW t \in Workers, NEW c \in Collections,
           NEW r \in Requests(c), Submit(t, r)
    PROVE  SeqInv'
<1>1. r.op \in AllOps
  BY RequestsType
<1>2. r.op \in PCs \ {"update_write", "update_log"}
  BY <1>1 DEF PCs, AllOps
<1>3. /\ Goto(t, r.op) /\ UNCHANGED <<key, doc>>
      /\ \A u \in Workers \ {t} : req'[u] = req[u]
  BY DEF Submit, TypeInv, TypeOK
<1>4. Moves(t) /\ pc'[t] = r.op
  BY <1>2, <1>3, GotoMoves
<1>5. ~InTx(t)'
  BY <1>1, <1>4 DEF InTx, AllOps
<1>6. UNCHANGED <<docs, wal>> /\ CountersGrow
  BY UnchangedDerived DEF Submit, memory
<1> QED
  BY <1>4, <1>5, <1>6, QuietStep

(***************************************************************************)
(* After a restart only the durable documents are left, and the counters   *)
(* are above all of them.                                                  *)
(***************************************************************************)
LEMMA SeqCrash == TypeInv /\ TypeInv' /\ SeqInv /\ CrashAndReopen => SeqInv'
<1> SUFFICES ASSUME TypeInv, TypeInv', SeqInv, CrashAndReopen PROVE SeqInv'
  OBVIOUS
<1> DEFINE db == wal.durable
<1>1. \A t \in Workers : ~InTx(t)' /\ ~InHand(t)'
  BY DEF CrashAndReopen, InTx, InHand
<1>2. ~PendingIsLive'
  <2>1. wal'.active \in Workers \cup {NoTx}
    BY DEF TypeInv, TypeOK, Workers
  <2> QED
    BY <1>1, <2>1 DEF PendingIsLive, InTx
<1>3. /\ docs' = db.docs /\ wal' = wal
      /\ seq_counters' = [c \in Collections |->
             IF c \in db.cols THEN MaxSeq(db.docs[c]) + 1 ELSE 0]
  BY DEF CrashAndReopen
<1>4. ASSUME NEW c \in Collections, NEW k \in Keys, NEW d \in Copies(c, k)'
      PROVE  d = db.docs[c][k] /\ d \in Copies(c, k) /\ d # NoDoc
  BY <1>1, <1>2, <1>3 DEF Copies
<1>5. DbOK(db)
  BY DEF TypeInv, LogOK
<1>6. ASSUME NEW c \in Collections, NEW k \in Keys, NEW d \in Copies(c, k)'
      PROVE  d.seq < seq_counters'[c]
  <2>1. d = db.docs[c][k] /\ d # NoDoc /\ d.seq \in Nat
    BY <1>4, CopiesAreDocs
  <2>2. c \in db.cols
    BY <1>5, <2>1 DEF DbOK, NoDocs
  <2>3. MaxSeq(db.docs[c]) \in Nat /\ d.seq <= MaxSeq(db.docs[c])
    BY <1>5, <2>1, MaxSeqIsMax
  <2>4. seq_counters'[c] = MaxSeq(db.docs[c]) + 1
    BY <1>3, <2>2
  <2> QED
    BY <2>1, <2>3, <2>4
<1>7. ASSUME NEW c \in Collections, NEW k \in Keys, NEW l \in Keys,
             NEW d \in Copies(c, k)', NEW e \in Copies(c, l)', d.seq = e.seq
      PROVE  k = l
  <2>1. d \in Copies(c, k) /\ e \in Copies(c, l)
    BY <1>4
  <2> QED
    BY <1>7, <2>1 DEF SeqInv
<1> QED
  BY <1>6, <1>7 DEF SeqInv

LEMMA NoDropStep ==
    ASSUME "delete_collection" \notin Ops, TypeInv, NoDrop, [Next]_vars
    PROVE  NoDrop'
<1> DEFINE Drops == {"delete_collection", "drop_state", "drop_index", "drop_log",
                     "drop_commit", "drop_counter"}
<1>0. ASSUME NEW t \in Workers, NEW where, where \notin Drops, Goto(t, where)
      PROVE  NoDrop'
  BY <1>0 DEF Goto, NoDrop, TypeInv, TypeOK
<1>1. CASE \E t \in Workers, c \in Collections : \E r \in Requests(c) : Submit(t, r)
  <2>0. PICK t \in Workers, c \in Collections : \E r \in Requests(c) : Submit(t, r)
    BY <1>1
  <2>1. PICK r \in Requests(c) : Submit(t, r)
    BY <2>0
  <2>2. r.op \in AllOps /\ r.op \in Ops /\ Goto(t, r.op)
    BY <2>1, RequestsType DEF Submit
  <2>3. r.op \notin Drops
    BY <2>2 DEF AllOps
  <2> QED
    BY <1>0, <2>2, <2>3
<1>2. CASE \E t \in Workers : Step(t)
  <2>1. PICK t \in Workers : Step(t)
    BY <1>2
  <2>2. pc[t] \notin Drops
    BY DEF NoDrop
  <2>3. CASE \/ InsertBegin(t) \/ InsertCommit(t) \/ CheckMaxSize(t)
             \/ \E k \in Keys : InsertInvalid(t, k)
    BY <1>0, <2>3
    DEF InsertBegin, InsertCommit, CheckMaxSize, InsertInvalid, Return
  <2>4. CASE \E k \in Keys : InsertItem(t, k)
    BY <2>4 DEF InsertItem, NoDrop
  <2>5. CASE (\E chosen : Select(t, chosen)) \/ SelectNothing(t)
    BY <1>0, <2>5 DEF Select, SelectNothing, Return
  <2>6. CASE \/ DeleteBegin(t) \/ DeleteGet(t) \/ DeleteLog(t) \/ DeleteCommit(t)
             \/ \E k \in Keys : DeleteKey(t, k)
    BY <1>0, <2>6
    DEF DeleteBegin, DeleteGet, DeleteLog, DeleteCommit, DeleteKey, Return
  <2>7. CASE \/ \E k \in Keys : UpdateRead(t, k) \/ UpdateRejected(t, k) \/ UpdateAbsent(t, k)
             \/ UpdateBegin(t) \/ UpdateWrite(t) \/ UpdateLog(t) \/ UpdateCommit(t)
    BY <1>0, <2>7
    DEF UpdateRead, UpdateRejected, UpdateAbsent, UpdateBegin, UpdateWrite, UpdateLog,
        UpdateCommit, Return
  <2>8. CASE SchemaBegin(t) \/ SchemaLog(t) \/ SchemaCommit(t) \/ SchemaSet(t)
    BY <1>0, <2>8 DEF SchemaBegin, SchemaLog, SchemaCommit, SchemaSet, Return
  <2>9. ~(DropBegin(t) \/ DropState(t) \/ DropIndex(t) \/ DropLog(t)
            \/ DropCommit(t) \/ DropCounter(t))
    BY <2>2 DEF DropBegin, DropState, DropIndex, DropLog, DropCommit, DropCounter
  <2> QED
    BY <2>1, <2>3, <2>4, <2>5, <2>6, <2>7, <2>8, <2>9 DEF Step
<1>3. CASE CrashAndReopen
  BY <1>3 DEF CrashAndReopen, NoDrop
<1>4. CASE UNCHANGED vars
  BY <1>4 DEF vars, NoDrop
<1> QED
  BY <1>1, <1>2, <1>3, <1>4 DEF Next, Wait

SeqInductive == TypeInv /\ NoDrop /\ SeqInv

LEMMA SeqInit == Init => SeqInductive
<1> SUFFICES ASSUME Init PROVE SeqInductive
  OBVIOUS
<1>1. TypeInv
  BY TypeInit
<1>2. NoDrop
  BY DEF Init, NoDrop
<1>3. ASSUME NEW c \in Collections, NEW k \in Keys PROVE Copies(c, k) = {}
  <2>1. docs[c][k] = NoDoc /\ wal.durable.docs[c][k] = NoDoc
    BY DEF Init, EmptyLog, EmptyDb, LogOf, DbOf, NoDocs
  <2>2. ~PendingIsLive /\ \A u \in Workers : ~InHand(u)
    BY DEF Init, EmptyLog, LogOf, PendingIsLive, InHand
  <2> QED
    BY <2>1, <2>2 DEF Copies
<1> QED
  BY <1>1, <1>2, <1>3 DEF SeqInductive, SeqInv

LEMMA SeqStep ==
    ASSUME "delete_collection" \notin Ops
    PROVE  SeqInductive /\ [Next]_vars => SeqInductive'
<1> SUFFICES ASSUME SeqInductive, [Next]_vars PROVE SeqInductive'
  OBVIOUS
<1>0. TypeInv /\ SeqInv /\ NoDrop /\ TypeInv' /\ NoDrop'
  BY TypeStep, NoDropStep DEF SeqInductive
<1>1. CASE \E t \in Workers, c \in Collections : \E r \in Requests(c) : Submit(t, r)
  BY <1>0, <1>1, SeqSubmit DEF SeqInductive
<1>2. CASE \E t \in Workers : Step(t)
  <2>1. PICK t \in Workers : Step(t)
    BY <1>2
  <2>2. ~(DropBegin(t) \/ DropState(t) \/ DropIndex(t) \/ DropLog(t)
            \/ DropCommit(t) \/ DropCounter(t))
    BY <1>0 DEF NoDrop, DropBegin, DropState, DropIndex, DropLog, DropCommit, DropCounter
  <2>3. SeqInv'
    BY <1>0, <2>1, <2>2, SeqInsert, SeqDelete, SeqUpdate, SeqSchema DEF Step
  <2> QED
    BY <1>0, <2>3 DEF SeqInductive
<1>3. CASE CrashAndReopen
  BY <1>0, <1>3, SeqCrash DEF SeqInductive
<1>4. CASE UNCHANGED vars
  <2>1. SeqInv'
    BY <1>0, <1>4 DEF vars, SeqInv, Copies, PendingIsLive, InTx, InHand
  <2> QED
    BY <1>0, <2>1 DEF SeqInductive
<1> QED
  BY <1>1, <1>2, <1>3, <1>4 DEF Next, Wait

LEMMA SeqInvUnique == SeqInv => SeqUnique
<1>1. \A c \in Collections : \A k \in Present(c) : docs[c][k] \in Copies(c, k)
  BY DEF Present, Copies
<1> QED
  BY <1>1 DEF SeqInv, SeqUnique, Present

(***************************************************************************)
(* As long as no client drops a collection, documents of a collection have *)
(* distinct _seq values below the counter: for every number of concurrent  *)
(* requests, every interleaving of their log entries and every crash.      *)
(***************************************************************************)
THEOREM EngineSeqUnique ==
    ASSUME "delete_collection" \notin Ops
    PROVE  Spec => []SeqUnique
<1>1. SeqInductive => SeqUnique
  BY SeqInvUnique DEF SeqInductive
<1> QED
  BY <1>1, SeqInit, SeqStep, PTL DEF Spec

=============================================================================
