-------------------------- MODULE EngineDurability --------------------------
(***************************************************************************)
(* More theorems about module Engine: the _seq index lists exactly the     *)
(* stored documents, what was answered survives a restart, the log         *)
(* implements AtomicStore, and, each under what it has to assume of        *)
(* requests that overlap, versions and the guard of an update, _seq values *)
(* across drops and evictions are what the engine promises.                *)
(***************************************************************************)
EXTENDS EngineProofs

-----------------------------------------------------------------------------
(* The index operations against the set of pairs they are to maintain. *)
LEMMA PairsPut ==
    ASSUME NEW ds \in [Keys -> Doc \cup {NoDoc}], NEW k \in Keys, NEW d \in Doc,
           \A l \in Keys \ {k} : ds[l] # NoDoc => ds[l].seq # d.seq,
           ds[k] # NoDoc => ds[k].seq = d.seq
    PROVE  SeqPairs([ds EXCEPT ![k] = d]) = IndexInsert(SeqPairs(ds), d.seq, k)
<1> DEFINE new == [ds EXCEPT ![k] = d]
<1>1. new[k] = d /\ d # NoDoc /\ \A l \in Keys \ {k} : new[l] = ds[l]
  BY NoDocAssumption
<1> HIDE DEF new
<1>2. ASSUME NEW p \in SeqPairs(new) PROVE p \in IndexInsert(SeqPairs(ds), d.seq, k)
  <2>1. PICK l \in Keys : new[l] # NoDoc /\ p = <<new[l].seq, l>>
    BY DEF SeqPairs
  <2>2. CASE l = k
    BY <1>1, <2>1, <2>2 DEF IndexInsert
  <2>3. CASE l # k
    <3>1. ds[l] # NoDoc /\ p = <<ds[l].seq, l>> /\ ds[l].seq # d.seq
      BY <1>1, <2>1, <2>3
    <3>2. p[1] # d.seq /\ p \in SeqPairs(ds)
      BY <3>1 DEF SeqPairs
    <3> QED
      BY <3>2 DEF IndexInsert
  <2> QED
    BY <2>2, <2>3
<1>3. ASSUME NEW p \in IndexInsert(SeqPairs(ds), d.seq, k) PROVE p \in SeqPairs(new)
  <2>1. CASE p = <<d.seq, k>>
    BY <1>1, <2>1 DEF SeqPairs
  <2>2. CASE p \in SeqPairs(ds) /\ p[1] # d.seq
    <3>1. PICK l \in Keys : ds[l] # NoDoc /\ p = <<ds[l].seq, l>>
      BY <2>2 DEF SeqPairs
    <3>2. l # k
      BY <2>2, <3>1
    <3> QED
      BY <1>1, <3>1, <3>2 DEF SeqPairs
  <2> QED
    BY <2>1, <2>2 DEF IndexInsert
<1> QED
  BY <1>2, <1>3 DEF new

LEMMA PairsRemove ==
    ASSUME NEW ds \in [Keys -> Doc \cup {NoDoc}], NEW k \in Keys, ds[k] # NoDoc,
           \A l \in Keys \ {k} : ds[l] # NoDoc => ds[l].seq # ds[k].seq
    PROVE  SeqPairs([ds EXCEPT ![k] = NoDoc]) = IndexRemove(SeqPairs(ds), ds[k].seq)
<1> DEFINE new == [ds EXCEPT ![k] = NoDoc]
<1>1. new[k] = NoDoc /\ \A l \in Keys \ {k} : new[l] = ds[l]
  OBVIOUS
<1> HIDE DEF new
<1>2. ASSUME NEW p \in SeqPairs(new) PROVE p \in IndexRemove(SeqPairs(ds), ds[k].seq)
  <2>1. PICK l \in Keys : new[l] # NoDoc /\ p = <<new[l].seq, l>>
    BY DEF SeqPairs
  <2>2. l # k /\ ds[l] # NoDoc /\ p = <<ds[l].seq, l>> /\ p[1] # ds[k].seq
    BY <1>1, <2>1
  <2>3. p \in SeqPairs(ds)
    BY <2>2 DEF SeqPairs
  <2> QED
    BY <2>2, <2>3 DEF IndexRemove
<1>3. ASSUME NEW p \in IndexRemove(SeqPairs(ds), ds[k].seq) PROVE p \in SeqPairs(new)
  <2>1. p \in SeqPairs(ds) /\ p[1] # ds[k].seq
    BY DEF IndexRemove
  <2>2. PICK l \in Keys : ds[l] # NoDoc /\ p = <<ds[l].seq, l>>
    BY <2>1 DEF SeqPairs
  <2>3. l # k
    BY <2>1, <2>2
  <2> QED
    BY <1>1, <2>2, <2>3 DEF SeqPairs
<1> QED
  BY <1>2, <1>3 DEF new

LEMMA PairsRebuild ==
    ASSUME NEW ds,
           \A k, l \in Keys : ds[k] # NoDoc /\ ds[l] # NoDoc /\ ds[k].seq = ds[l].seq => k = l
    PROVE  RebuildIndex(ds) = SeqPairs(ds)
<1>1. ASSUME NEW p \in SeqPairs(ds) PROVE p = CHOOSE q \in SeqPairs(ds) : q[1] = p[1]
  <2>1. \A q \in SeqPairs(ds) : q[1] = p[1] => q = p
    BY DEF SeqPairs
  <2> QED
    BY <2>1
<1> QED
  BY <1>1 DEF RebuildIndex

LEMMA NoIndexIsNoIndex == NoIndex \notin SUBSET (Nat \X Keys)
  BY DEF NoIndex

LEMMA PairsType ==
    ASSUME NEW ds \in [Keys -> Doc \cup {NoDoc}]
    PROVE  SeqPairs(ds) \in SUBSET (Nat \X Keys)
BY DEF SeqPairs, Doc

(* A present document and another one never share a _seq. *)
LEMMA SeqsDiffer ==
    ASSUME TypeInv, SeqInv, NEW c \in Collections, NEW k \in Keys, NEW l \in Keys,
           docs[c][k] # NoDoc
    PROVE  /\ docs[c][k].seq \in Nat /\ docs[c][k].seq < seq_counters[c]
           /\ docs[c][l] # NoDoc /\ docs[c][k].seq = docs[c][l].seq => k = l
<1>1. docs[c][k] \in Copies(c, k) /\ (docs[c][l] # NoDoc => docs[c][l] \in Copies(c, l))
  BY DEF Copies
<1> QED
  BY <1>1, CopiesAreDocs DEF SeqInv
-----------------------------------------------------------------------------
NoUpdate == \A t \in Workers :
    pc[t] \notin {"update", "update_read", "update_write", "update_log",
                 "update_commit", "update_absent"}

LEMMA NoUpdateStep ==
    ASSUME "update" \notin Ops, TypeInv, NoUpdate, [Next]_vars
    PROVE  NoUpdate'
<1> DEFINE Updates == {"update", "update_read", "update_write", "update_log",
                       "update_commit", "update_absent"}
<1>0. ASSUME NEW t \in Workers, NEW where, where \notin Updates, Goto(t, where)
      PROVE  NoUpdate'
  BY <1>0 DEF Goto, NoUpdate, TypeInv, TypeOK
<1>1. CASE \E t \in Workers, c \in Collections : \E r \in Requests(c) : Submit(t, r)
  <2>0. PICK t \in Workers, c \in Collections : \E r \in Requests(c) : Submit(t, r)
    BY <1>1
  <2>1. PICK r \in Requests(c) : Submit(t, r)
    BY <2>0
  <2>2. r.op \in AllOps /\ r.op \in Ops /\ Goto(t, r.op)
    BY <2>1, RequestsType DEF Submit
  <2>3. r.op \notin Updates
    BY <2>2 DEF AllOps
  <2> QED
    BY <1>0, <2>2, <2>3
<1>2. CASE \E t \in Workers : Step(t)
  <2>1. PICK t \in Workers : Step(t)
    BY <1>2
  <2>2. pc[t] \notin Updates
    BY DEF NoUpdate
  <2>3. CASE \/ InsertBegin(t) \/ InsertCommit(t) \/ CheckMaxSize(t)
             \/ \E k \in Keys : InsertInvalid(t, k)
    BY <1>0, <2>3
    DEF InsertBegin, InsertCommit, CheckMaxSize, InsertInvalid, Return
  <2>4. CASE \E k \in Keys : InsertItem(t, k)
    BY <2>4 DEF InsertItem, NoUpdate
  <2>5. CASE (\E chosen : Select(t, chosen)) \/ SelectNothing(t)
    BY <1>0, <2>5 DEF Select, SelectNothing, Return
  <2>6. CASE \/ DeleteBegin(t) \/ DeleteGet(t) \/ DeleteLog(t) \/ DeleteCommit(t)
             \/ \E k \in Keys : DeleteKey(t, k)
    BY <1>0, <2>6
    DEF DeleteBegin, DeleteGet, DeleteLog, DeleteCommit, DeleteKey, Return
  <2>7. CASE DropBegin(t) \/ DropState(t) \/ DropIndex(t) \/ DropLog(t) \/ DropCommit(t) \/ DropCounter(t)
    BY <1>0, <2>7 DEF DropBegin, DropState, DropIndex, DropLog, DropCommit, DropCounter, Return
  <2>8. CASE SchemaBegin(t) \/ SchemaLog(t) \/ SchemaCommit(t) \/ SchemaSet(t)
    BY <1>0, <2>8 DEF SchemaBegin, SchemaLog, SchemaCommit, SchemaSet, Return
  <2>9. ~(\/ \E k \in Keys : UpdateRead(t, k) \/ UpdateRejected(t, k) \/ UpdateAbsent(t, k)
          \/ UpdateBegin(t) \/ UpdateWrite(t) \/ UpdateLog(t) \/ UpdateCommit(t))
    BY <2>2 DEF UpdateRead, UpdateRejected, UpdateAbsent, UpdateBegin, UpdateWrite, UpdateLog,
        UpdateCommit
  <2> QED
    BY <2>1, <2>3, <2>4, <2>5, <2>6, <2>7, <2>8, <2>9 DEF Step
<1>3. CASE CrashAndReopen
  BY <1>3 DEF CrashAndReopen, NoUpdate
<1>4. CASE UNCHANGED vars
  BY <1>4 DEF vars, NoUpdate
<1> QED
  BY <1>1, <1>2, <1>3, <1>4 DEF Next, Wait

(* The index operations keep IndexMatches; no other step touches it. *)
LEMMA IndexInsertItem ==
    ASSUME TypeInv, SeqInv, IndexMatches, NEW t \in Workers, NEW k \in Keys, InsertItem(t, k)
    PROVE  IndexMatches'
<1> DEFINE c == req[t].c
           d == Stored(docs[c][k], seq_counters[c], req[t].body[k])
           ds == docs[c]
           idx == IndexInsert(IndexOf(c), d.seq, k)
<1>0. c \in Collections /\ ds \in [Keys -> Doc \cup {NoDoc}] /\ seq_counters[c] \in Nat
  BY RequestFields DEF TypeInv, TypeOK
<1>1. d \in Doc
  BY StoredType
<1>2. /\ ds[k] # NoDoc => d.seq = ds[k].seq
      /\ ds[k] = NoDoc => d.seq = seq_counters[c]
  BY DEF Stored
<1>3. docs' = [docs EXCEPT ![c][k] = d] /\ seq_index' = [seq_index EXCEPT ![c] = idx]
  BY DEF InsertItem
<1> HIDE DEF d
<1>4. \A l \in Keys \ {k} : ds[l] # NoDoc => ds[l].seq # d.seq
  <2> SUFFICES ASSUME NEW l \in Keys \ {k}, ds[l] # NoDoc PROVE ds[l].seq # d.seq
    OBVIOUS
  <2>1. /\ ds[l].seq \in Nat /\ ds[l].seq < seq_counters[c]
        /\ ds[k] # NoDoc /\ ds[l].seq = ds[k].seq => l = k
    BY <1>0, SeqsDiffer
  <2>2. CASE ds[k] = NoDoc
    BY <1>0, <1>2, <2>1, <2>2
  <2>3. CASE ds[k] # NoDoc
    BY <1>2, <2>1, <2>3
  <2> QED
    BY <2>2, <2>3
<1>5. IndexOf(c) = SeqPairs(ds)
  BY <1>0 DEF IndexMatches
<1>6. SeqPairs([ds EXCEPT ![k] = d]) = idx
  BY <1>0, <1>1, <1>2, <1>4, <1>5, PairsPut
<1>7. docs'[c] = [ds EXCEPT ![k] = d] /\ \A cc \in Collections \ {c} : docs'[cc] = docs[cc]
  BY <1>0, <1>3 DEF TypeInv, TypeOK
<1>8. seq_index'[c] = idx /\ \A cc \in Collections \ {c} : seq_index'[cc] = seq_index[cc]
  BY <1>0, <1>3 DEF TypeInv, TypeOK
<1>9. idx # NoIndex
  <2>1. [ds EXCEPT ![k] = d] \in [Keys -> Doc \cup {NoDoc}]
    BY <1>0, <1>1
  <2> QED
    BY <1>6, <2>1, PairsType, NoIndexIsNoIndex
<1> HIDE DEF idx, ds, c
<1>10. ASSUME NEW cc \in Collections PROVE IndexOf(cc)' = SeqPairs(docs'[cc])
  <2>1. CASE cc = c
    BY <2>1, <1>6, <1>7, <1>8, <1>9 DEF IndexOf
  <2>2. CASE cc # c
    BY <2>2, <1>7, <1>8 DEF IndexOf, IndexMatches
  <2> QED
    BY <2>1, <2>2
<1> QED
  BY <1>10 DEF IndexMatches, SeqPairs

LEMMA IndexDeleteKey ==
    ASSUME TypeInv, SeqInv, IndexMatches, NEW t \in Workers, NEW k \in Keys, DeleteKey(t, k)
    PROVE  IndexMatches'
<1> DEFINE c == req[t].c
           ds == docs[c]
           old == docs[c][k]
           new == [ds EXCEPT ![k] = NoDoc]
<1>0. c \in Collections /\ ds \in [Keys -> Doc \cup {NoDoc}] /\ IndexOf(c) = SeqPairs(ds)
  BY RequestFields DEF TypeInv, TypeOK, IndexMatches
<1>1. /\ docs' = [docs EXCEPT ![c][k] = NoDoc]
      /\ seq_index' = IF old = NoDoc \/ seq_index[c] = NoIndex THEN seq_index
                      ELSE [seq_index EXCEPT ![c] = IndexRemove(@, old.seq)]
  BY DEF DeleteKey
<1>2. docs'[c] = new /\ \A cc \in Collections \ {c} : docs'[cc] = docs[cc]
  BY <1>0, <1>1 DEF TypeInv, TypeOK
<1>3. CASE old = NoDoc
  <2>1. new = ds
    BY <1>0, <1>3
  <2>2. docs' = docs /\ seq_index' = seq_index
    BY <1>0, <1>1, <1>3, <2>1 DEF TypeInv, TypeOK
  <2> QED
    BY <2>2 DEF IndexMatches, IndexOf, SeqPairs
<1>4. CASE old # NoDoc
  <2>1. <<old.seq, k>> \in SeqPairs(ds)
    BY <1>4 DEF SeqPairs
  <2>2. seq_index[c] # NoIndex /\ seq_index[c] = SeqPairs(ds)
    BY <1>0, <2>1 DEF IndexOf
  <2>3. \A l \in Keys \ {k} : ds[l] # NoDoc => ds[l].seq # ds[k].seq
    BY <1>0, <1>4, SeqsDiffer
  <2>4. SeqPairs(new) = IndexRemove(SeqPairs(ds), old.seq)
    BY <1>0, <1>4, <2>3, PairsRemove
  <2>5. SeqPairs(new) # NoIndex
    <3>1. new \in [Keys -> Doc \cup {NoDoc}]
      BY <1>0
    <3> HIDE DEF new
    <3> QED
      BY <3>1, PairsType, NoIndexIsNoIndex
  <2>6. seq_index'[c] = SeqPairs(new) /\ \A cc \in Collections \ {c} : seq_index'[cc] = seq_index[cc]
    BY <1>0, <1>1, <1>4, <2>2, <2>4 DEF TypeInv, TypeOK
  <2> HIDE DEF new, ds, c, old
  <2>7. ASSUME NEW cc \in Collections PROVE IndexOf(cc)' = SeqPairs(docs'[cc])
    <3>1. CASE cc = c
      BY <3>1, <1>2, <2>5, <2>6 DEF IndexOf
    <3>2. CASE cc # c
      BY <3>2, <1>2, <2>6 DEF IndexOf, IndexMatches
    <3> QED
      BY <3>1, <3>2
  <2> QED
    BY <2>7 DEF IndexMatches, SeqPairs
<1> QED
  BY <1>3, <1>4

LEMMA IndexCrash ==
    ASSUME TypeInv, SeqInv, CrashAndReopen
    PROVE  IndexMatches'
<1> DEFINE db == wal.durable
<1>1. ASSUME NEW c \in Collections PROVE IndexOf(c)' = SeqPairs(docs'[c])
  <2> DEFINE ds == db.docs[c]
  <2>1. ds \in [Keys -> Doc \cup {NoDoc}]
    BY DEF TypeInv, TypeOK, Db
  <2>2. docs'[c] = ds
    BY DEF CrashAndReopen
  <2>3. seq_index'[c] = IF c \in db.cols THEN RebuildIndex(ds) ELSE NoIndex
    BY DEF CrashAndReopen
  <2>4. RebuildIndex(ds) = SeqPairs(ds)
    <3>1. ASSUME NEW k \in Keys, NEW l \in Keys, ds[k] # NoDoc, ds[l] # NoDoc, ds[k].seq = ds[l].seq
          PROVE  k = l
      <4>1. ds[k] \in Copies(c, k) /\ ds[l] \in Copies(c, l)
        BY <3>1 DEF Copies
      <4> QED
        BY <3>1, <4>1 DEF SeqInv
    <3> QED
      BY <3>1, PairsRebuild
  <2>5. SeqPairs(ds) # NoIndex
    <3> HIDE DEF ds
    <3> QED
      BY <2>1, PairsType, NoIndexIsNoIndex
  <2>6. c \notin db.cols => SeqPairs(ds) = {}
    BY DEF TypeInv, LogOK, DbOK, NoDocs, SeqPairs
  <2> HIDE DEF ds
  <2> QED
    BY <2>2, <2>3, <2>4, <2>5, <2>6 DEF IndexOf
<1> QED
  BY <1>1 DEF IndexMatches, SeqPairs

IndexInv == SeqInductive /\ NoUpdate /\ IndexMatches

LEMMA IndexStep ==
    ASSUME "delete_collection" \notin Ops, "update" \notin Ops
    PROVE  IndexInv /\ [Next]_vars => IndexInv'
<1> SUFFICES ASSUME IndexInv, [Next]_vars PROVE IndexMatches'
  BY SeqStep, NoUpdateStep DEF IndexInv, SeqInductive
<1>0. TypeInv /\ SeqInv /\ NoDrop /\ NoUpdate /\ IndexMatches
  BY DEF IndexInv, SeqInductive
<1>1. ASSUME UNCHANGED <<docs, seq_index>> PROVE IndexMatches'
  BY <1>0, <1>1 DEF IndexMatches, IndexOf, SeqPairs
<1>2. CASE \E t \in Workers, c \in Collections : \E r \in Requests(c) : Submit(t, r)
  BY <1>1, <1>2 DEF Submit, memory
<1>3. CASE \E t \in Workers : Step(t)
  <2>1. PICK t \in Workers : Step(t)
    BY <1>3
  <2>2. CASE \/ InsertBegin(t) \/ InsertCommit(t) \/ CheckMaxSize(t)
             \/ \E k \in Keys : InsertInvalid(t, k)
    BY <1>1, <2>2 DEF InsertBegin, InsertCommit, CheckMaxSize, InsertInvalid, memory
  <2>3. CASE \E k \in Keys : InsertItem(t, k)
    BY <1>0, <2>3, IndexInsertItem
  <2>4. CASE (\E chosen : Select(t, chosen)) \/ SelectNothing(t)
    BY <1>1, <2>4 DEF Select, SelectNothing, memory
  <2>5. CASE DeleteBegin(t) \/ DeleteGet(t) \/ DeleteLog(t) \/ DeleteCommit(t)
    BY <1>1, <2>5 DEF DeleteBegin, DeleteGet, DeleteLog, DeleteCommit, memory
  <2>6. CASE \E k \in Keys : DeleteKey(t, k)
    BY <1>0, <2>6, IndexDeleteKey
  <2>7. ~(\/ \E k \in Keys : UpdateRead(t, k) \/ UpdateRejected(t, k) \/ UpdateAbsent(t, k)
          \/ UpdateBegin(t) \/ UpdateWrite(t) \/ UpdateLog(t) \/ UpdateCommit(t))
    BY <1>0 DEF NoUpdate, UpdateRead, UpdateRejected, UpdateAbsent, UpdateBegin, UpdateWrite,
       UpdateLog, UpdateCommit
  <2>8. ~(DropBegin(t) \/ DropState(t) \/ DropIndex(t) \/ DropLog(t)
            \/ DropCommit(t) \/ DropCounter(t))
    BY <1>0 DEF NoDrop, DropBegin, DropState, DropIndex, DropLog, DropCommit, DropCounter
  <2>9. CASE SchemaBegin(t) \/ SchemaLog(t) \/ SchemaCommit(t) \/ SchemaSet(t)
    BY <1>1, <2>9 DEF SchemaBegin, SchemaLog, SchemaCommit, SchemaSet, memory
  <2> QED
    BY <2>1, <2>2, <2>3, <2>4, <2>5, <2>6, <2>7, <2>8, <2>9 DEF Step
<1>4. CASE CrashAndReopen
  BY <1>0, <1>4, IndexCrash
<1>5. CASE UNCHANGED vars
  BY <1>1, <1>5 DEF vars
<1> QED
  BY <1>2, <1>3, <1>4, <1>5 DEF Next, Wait

(***************************************************************************)
(* As long as no client updates a document in place or drops a collection, *)
(* seq_index lists exactly the stored documents after every step of every  *)
(* request, so delete_n and the unfiltered get miss no document and follow *)
(* no stale key, across failed batches, evictions and restarts.            *)
(***************************************************************************)
THEOREM EngineIndexMatches ==
    ASSUME "delete_collection" \notin Ops, "update" \notin Ops
    PROVE  Spec => []IndexMatches
<1>1. Init => IndexInv
  <2>1. Init => NoUpdate
    BY DEF Init, NoUpdate
  <2>2. Init => IndexMatches
    <3> SUFFICES ASSUME Init, NEW c \in Collections PROVE IndexOf(c) = SeqPairs(docs[c])
      BY DEF IndexMatches
    <3>1. IndexOf(c) = {}
      BY DEF Init, IndexOf
    <3>2. \A k \in Keys : docs[c][k] = NoDoc
      BY DEF Init, NoDocs
    <3> QED
      BY <3>1, <3>2 DEF SeqPairs
  <2> QED
    BY <2>1, <2>2, SeqInit DEF IndexInv
<1>2. IndexInv => IndexMatches
  BY DEF IndexInv
<1> QED
  BY <1>1, <1>2, IndexStep, PTL DEF Spec
-----------------------------------------------------------------------------
(***************************************************************************)
(* Durability.  The log keeps the entries of one open transaction: a BEGIN *)
(* drops what another request had buffered (run engine_interleaved shows   *)
(* what is lost then).  So the claim is about requests whose transactions  *)
(* do not overlap.  A schema reaches memory only after its COMMIT, so the  *)
(* step between the two counts as part of the transaction.                 *)
(***************************************************************************)
Writing(t) == InTx(t) \/ pc[t] = "schema_set"

OneWriter == \A t, u \in Workers : Writing(t) /\ Writing(u) => t = u

(* The documents ds are those of db, but for those in S. *)
Agree(ds, db, S) ==
    \A c \in Collections, k \in Keys :
        <<c, k>> \notin S => ds[c][k] = db.docs[c][k]

Matches(db, S) == Agree(docs, db, failed \cup S)

(* What the open transaction changed in memory and has not logged yet. *)
Lag(t) ==
    IF pc[t] \in {"delete_log", "update_log"} THEN {<<req[t].c, key[t]>>}
    ELSE IF pc[t] \in {"drop_index", "drop_log"} THEN {req[t].c} \X Keys
    ELSE {}

LagDone(t) ==
    /\ pc[t] = "delete_log" => docs[req[t].c][key[t]] = NoDoc
    /\ pc[t] = "update_log" => docs[req[t].c][key[t]] = doc[t]
    /\ pc[t] \in {"drop_index", "drop_log"} => docs[req[t].c] = NoDocs

(* What must hold of the log if the transaction is given up here. *)
Undoable(t) ==
    /\ pc[t] = "insert_items" =>
         Matches(wal.durable, {req[t].c} \X (req[t].keys \ todo[t]))
    /\ pc[t] = "update_read" => Matches(wal.durable, {})

TxSchemas(t) ==
    /\ schemas = wal.durable.schemas
    /\ wal.pending.schemas = IF pc[t] = "schema_commit"
                             THEN [schemas EXCEPT ![req[t].c] = req[t].bodies]
                             ELSE schemas

(* Between BEGIN and COMMIT: committing here would make memory durable. *)
InTxOK(t) ==
    /\ wal.active = t
    /\ Matches(wal.pending, Lag(t))
    /\ LagDone(t)
    /\ Undoable(t)
    /\ TxSchemas(t)

(* Between the COMMIT of a schema and the step that shows it to readers. *)
SetOK(t) ==
    /\ Matches(wal.durable, {})
    /\ wal.durable.schemas = [schemas EXCEPT ![req[t].c] = req[t].bodies]

(* Between transactions. *)
Rest == Matches(wal.durable, {}) /\ schemas = wal.durable.schemas

DurableInv ==
    /\ (\A t \in Workers : ~ Writing(t)) => Rest
    /\ \A t \in Workers : InTx(t) => InTxOK(t)
    /\ \A t \in Workers : pc[t] = "schema_set" => SetOK(t)

Documents == [Collections -> [Keys -> Doc \cup {NoDoc}]]

LEMMA AgreeWiden ==
    ASSUME NEW ds, NEW db, NEW F, NEW G, Agree(ds, db, F), F \subseteq G
    PROVE  Agree(ds, db, G)
BY DEF Agree

(* A document is written to memory and to the log. *)
LEMMA AgreePut ==
    ASSUME NEW ds \in Documents, NEW db \in Db, NEW F, NEW G, NEW c \in Collections,
           NEW k \in Keys, NEW d, Agree(ds, db, F), F \subseteq G \cup {<<c, k>>}
    PROVE  Agree([ds EXCEPT ![c][k] = d], PutDoc(db, c, k, d), G)
BY DEF Agree, PutDoc, DbOf, Documents, Db

(* A document is written to memory only. *)
LEMMA AgreeMemory ==
    ASSUME NEW ds \in Documents, NEW db \in Db, NEW F, NEW G, NEW c \in Collections,
           NEW k \in Keys, NEW d, Agree(ds, db, F), F \subseteq G, <<c, k>> \in G
    PROVE  Agree([ds EXCEPT ![c][k] = d], db, G)
BY DEF Agree, Documents, Db

(* What memory holds is written to the log. *)
LEMMA AgreeLogPut ==
    ASSUME NEW ds \in Documents, NEW db \in Db, NEW F, NEW G, NEW c \in Collections,
           NEW k \in Keys, Agree(ds, db, F), F \subseteq G \cup {<<c, k>>}
    PROVE  Agree(ds, PutDoc(db, c, k, ds[c][k]), G)
BY DEF Agree, PutDoc, DbOf, Documents, Db

LEMMA AgreeLogRemove ==
    ASSUME NEW ds \in Documents, NEW db \in Db, NEW F, NEW G, NEW c \in Collections,
           NEW k \in Keys, Agree(ds, db, F), F \subseteq G \cup {<<c, k>>},
           ds[c][k] = NoDoc
    PROVE  Agree(ds, RemoveDoc(db, c, k), G)
BY DEF Agree, RemoveDoc, DbOf, Documents, Db

LEMMA AgreeDropMemory ==
    ASSUME NEW ds \in Documents, NEW db \in Db, NEW F, NEW G, NEW c \in Collections,
           Agree(ds, db, F), F \subseteq G, {c} \X Keys \subseteq G
    PROVE  Agree([ds EXCEPT ![c] = NoDocs], db, G)
BY DEF Agree, Documents, Db

LEMMA AgreeLogDrop ==
    ASSUME NEW ds \in Documents, NEW db \in Db, NEW F, NEW G, NEW c \in Collections,
           Agree(ds, db, F), F \subseteq G \cup ({c} \X Keys), ds[c] = NoDocs
    PROVE  Agree(ds, RemoveCollection(db, c), G)
BY DEF Agree, RemoveCollection, DbOf, Documents, Db, NoDocs

LEMMA AgreeSchema ==
    ASSUME NEW ds, NEW db, NEW F, NEW c, NEW bs, Agree(ds, db, F)
    PROVE  Agree(ds, SetSchema(db, c, bs), F)
BY DEF Agree, SetSchema, DbOf

(* What the owner of the open transaction writes goes to its buffer. *)
Buffered(db) == wal' = LogOf(wal.durable, db, wal.active)

LEMMA BufferedEntries ==
    ASSUME TypeInv, NEW t \in Workers, wal.active = t, NEW c \in Collections
    PROVE  /\ \A k \in Keys, d \in Doc :
                 WriteEntry(InsertEntry(c, k, d)) => Buffered(PutDoc(wal.pending, c, k, d))
           /\ \A k \in Keys :
                 WriteEntry(DeleteEntry(c, k)) => Buffered(RemoveDoc(wal.pending, c, k))
           /\ WriteEntry(DropEntry(c)) => Buffered(RemoveCollection(wal.pending, c))
           /\ \A bs \in SUBSET Bodies :
                 WriteEntry(SchemaEntry(c, bs)) => Buffered(SetSchema(wal.pending, c, bs))
<1>1. wal.active # NoTx
  BY NoTxAssumption DEF Workers
<1>2. \A k \in Keys, d \in Doc :
         WriteEntry(InsertEntry(c, k, d)) => Buffered(PutDoc(wal.pending, c, k, d))
  BY <1>1 DEF WriteEntry, ReplayEntry, ApplyEntry, InsertEntry, LogEntry, Buffered
<1>3. \A k \in Keys :
         WriteEntry(DeleteEntry(c, k)) => Buffered(RemoveDoc(wal.pending, c, k))
  BY <1>1 DEF WriteEntry, ReplayEntry, ApplyEntry, DeleteEntry, LogEntry, Buffered
<1>4. WriteEntry(DropEntry(c)) => Buffered(RemoveCollection(wal.pending, c))
  BY <1>1 DEF WriteEntry, ReplayEntry, ApplyEntry, DropEntry, LogEntry, Buffered
<1>5. \A bs \in SUBSET Bodies :
         WriteEntry(SchemaEntry(c, bs)) => Buffered(SetSchema(wal.pending, c, bs))
  BY <1>1 DEF WriteEntry, ReplayEntry, ApplyEntry, SchemaEntry, LogEntry, Buffered
<1> QED
  BY <1>2, <1>3, <1>4, <1>5

LEMMA BufferCommitted ==
    ASSUME TypeInv, NEW t \in Workers, wal.active = t, NEW c \in Collections,
           WriteEntry(TxCommit(c, t))
    PROVE  wal'.durable = wal.pending
BY CommitEntry DEF WriteEntry, TypeInv, Workers, LogOf

(* The other workers stand where they stood. *)
OthersStay(t) == \A u \in Workers \ {t} : pc'[u] = pc[u]

LEMMA OthersStayAt ==
    ASSUME TypeInv, NEW t \in Workers
    PROVE  /\ \A w : Goto(t, w) => OthersStay(t) /\ pc'[t] = w
           /\ Return(t) => OthersStay(t) /\ pc'[t] = "idle"
BY DEF Goto, Return, OthersStay, TypeInv, TypeOK

(* A step of the one worker that is writing before or after it. *)
LEMMA WriterStep ==
    ASSUME OneWriter, OneWriter', NEW t \in Workers, OthersStay(t),
           Writing(t) \/ Writing(t)',
           InTx(t)' => InTxOK(t)', pc'[t] = "schema_set" => SetOK(t)',
           ~ Writing(t)' => Rest'
    PROVE  DurableInv'
<1>1. ASSUME NEW u \in Workers, u # t PROVE ~ Writing(u)'
  <2>1. CASE Writing(t)'
    BY <1>1, <2>1 DEF OneWriter
  <2>2. CASE Writing(t)
    <3>1. ~ Writing(u)
      BY <1>1, <2>2 DEF OneWriter
    <3> QED
      BY <1>1, <3>1 DEF Writing, InTx, OthersStay
  <2> QED
    BY <2>1, <2>2
<1>2. ASSUME NEW u \in Workers, InTx(u)' PROVE InTxOK(u)'
  <2>1. u = t
    BY <1>1, <1>2 DEF Writing
  <2> QED
    BY <1>2, <2>1
<1>3. ASSUME NEW u \in Workers, pc'[u] = "schema_set" PROVE SetOK(u)'
  <2>1. u = t
    BY <1>1, <1>3 DEF Writing
  <2> QED
    BY <1>3, <2>1
<1>4. ASSUME \A u \in Workers : ~ Writing(u)' PROVE Rest'
  BY <1>4
<1> QED
  BY <1>2, <1>3, <1>4 DEF DurableInv

(* Nothing of worker u changes. *)
Stays(u) == /\ pc'[u] = pc[u] /\ req'[u] = req[u] /\ todo'[u] = todo[u]
            /\ key'[u] = key[u] /\ doc'[u] = doc[u]

LEMMA ReturnStays ==
    ASSUME TypeInv, NEW t \in Workers, Return(t), NEW u \in Workers, u # t
    PROVE  Stays(u)
BY DEF Return, Goto, Stays, TypeInv, TypeOK

LEMMA GotoStays ==
    ASSUME TypeInv, NEW t \in Workers, NEW w, Goto(t, w), UNCHANGED <<todo, key, doc>>,
           req' = req \/ \E r : req' = [req EXCEPT ![t] = r],
           NEW u \in Workers, u # t
    PROVE  Stays(u)
BY DEF Goto, Stays, TypeInv, TypeOK

(* A step of a worker outside a transaction that leaves store and log alone. *)
LEMMA IdleStep ==
    ASSUME DurableInv, NEW t \in Workers, UNCHANGED <<docs, schemas, wal, failed>>,
           ~ Writing(t), ~ Writing(t)', \A u \in Workers : u # t => Stays(u)
    PROVE  DurableInv'
<1>2. ASSUME NEW u \in Workers, InTx(u)' PROVE InTxOK(u)'
  <2>1. u # t /\ Stays(u)
    BY <1>2 DEF Writing
  <2>2. InTxOK(u)
    BY <1>2, <2>1 DEF DurableInv, InTx, Stays
  <2>3. Lag(u)' = Lag(u)
    BY <2>1 DEF Lag, Stays
  <2>4. Undoable(u)' /\ LagDone(u)' /\ TxSchemas(u)'
    BY <2>1, <2>2 DEF Undoable, LagDone, TxSchemas, Stays, InTxOK, Matches
  <2> QED
    BY <2>2, <2>3, <2>4 DEF InTxOK, Matches
<1>3. ASSUME NEW u \in Workers, pc'[u] = "schema_set" PROVE SetOK(u)'
  <2>1. u # t /\ Stays(u)
    BY <1>3 DEF Writing
  <2> QED
    BY <1>3, <2>1 DEF DurableInv, SetOK, Stays, Matches
<1>4. ASSUME \A u \in Workers : ~ Writing(u)' PROVE Rest'
  <2>1. \A u \in Workers : ~ Writing(u)
    BY <1>4 DEF Writing, InTx, Stays
  <2> QED
    BY <2>1 DEF DurableInv, Rest, Matches
<1> QED
  BY <1>2, <1>3, <1>4 DEF DurableInv

(* A transaction starts: nobody else is writing, so memory is durable. *)
LEMMA TxStarts ==
    ASSUME TypeInv, OneWriter, OneWriter', DurableInv, NEW t \in Workers, ~ Writing(t),
           NEW w \in {"insert_items", "delete_get", "update_read", "drop_state", "schema_log"},
           Goto(t, w), UNCHANGED <<docs, schemas, failed>>,
           WriteEntry(TxBegin(req[t].c, t)), req' = req,
           w = "insert_items" => todo'[t] = req[t].keys
    PROVE  DurableInv'
<1>1. OthersStay(t) /\ pc'[t] = w
  BY OthersStayAt
<1>2. InTx(t)' /\ Writing(t)' /\ pc'[t] # "schema_set"
  BY <1>1 DEF InTx, Writing
<1>3. \A u \in Workers : ~ Writing(u)
  <2> SUFFICES ASSUME NEW u \in Workers, Writing(u), u # t PROVE FALSE
    OBVIOUS
  <2>1. Writing(u)'
    BY <1>1 DEF OthersStay, Writing, InTx
  <2> QED
    BY <1>2, <2>1 DEF OneWriter
<1>4. Rest
  BY <1>3 DEF DurableInv
<1>5. wal' = LogOf(wal.durable, wal.durable, t)
  BY BeginEntry, RequestFields DEF WriteEntry, TypeInv, TypeOK, Workers
<1>6. wal'.durable = wal.durable /\ wal'.pending = wal.durable /\ wal'.active = t
  BY <1>5 DEF LogOf
<1>7. Lag(t)' = {} /\ LagDone(t)'
  BY <1>1 DEF Lag, LagDone
<1>8. Matches(wal.pending, Lag(t))' /\ Matches(wal.durable, {})'
  BY <1>4, <1>6, <1>7 DEF Rest, Matches
<1>9. Undoable(t)'
  <2>1. req'[t].keys \ req'[t].keys = {}
    OBVIOUS
  <2>2. pc'[t] = "insert_items" => {req'[t].c} \X (req'[t].keys \ todo'[t]) = {}
    BY <1>1, <2>1
  <2> QED
    BY <1>1, <1>8, <2>2 DEF Undoable, Matches
<1>10. TxSchemas(t)'
  BY <1>1, <1>4, <1>6 DEF TxSchemas, Rest
<1>11. InTxOK(t)'
  BY <1>6, <1>7, <1>8, <1>9, <1>10 DEF InTxOK
<1> QED
  BY <1>1, <1>2, <1>11, WriterStep

(* A transaction is committed with everything in memory logged. *)
LEMMA TxEnds ==
    ASSUME TypeInv, OneWriter, OneWriter', DurableInv, NEW t \in Workers, InTx(t),
           pc[t] # "schema_commit", Lag(t) = {}, UNCHANGED <<docs, schemas, failed>>,
           WriteEntry(TxCommit(req[t].c, t)), OthersStay(t), ~ Writing(t)'
    PROVE  DurableInv'
<1>1. InTxOK(t)
  BY DEF DurableInv
<1>2. wal'.durable = wal.pending
  BY <1>1, BufferCommitted, RequestFields DEF InTxOK, TypeInv, TypeOK
<1>3. Rest'
  BY <1>1, <1>2 DEF InTxOK, Rest, Matches, TxSchemas
<1> QED
  BY <1>3, WriterStep DEF Writing

(* A step inside a transaction that leaves store, log and schemas alone. *)
LEMMA TxMoves ==
    ASSUME TypeInv, OneWriter, OneWriter', DurableInv, NEW t \in Workers, InTx(t),
           InTx(t)', Lag(t) = Lag(t)', UNCHANGED <<docs, schemas, failed, wal>>,
           pc'[t] # "insert_items", pc'[t] # "update_read",
           pc[t] # "schema_commit", pc'[t] # "schema_commit", LagDone(t)', OthersStay(t)
    PROVE  DurableInv'
<1>1. InTxOK(t)
  BY DEF DurableInv
<1>2. InTxOK(t)'
  BY <1>1 DEF InTxOK, Matches, TxSchemas, Undoable
<1>3. pc'[t] # "schema_set"
  BY DEF InTx
<1> QED
  BY <1>2, <1>3, WriterStep DEF Writing

LEMMA TypeFacts ==
    ASSUME TypeInv, NEW t \in Workers
    PROVE  /\ docs \in Documents /\ wal.pending \in Db /\ wal.durable \in Db
           /\ req[t].c \in Collections /\ req[t].keys \in SUBSET Keys
           /\ req[t].bodies \in SUBSET Bodies /\ key[t] \in Keys
           /\ todo[t] \subseteq req[t].keys
           /\ failed \in SUBSET (Collections \X Keys)
BY RequestFields DEF TypeInv, TypeOK, WorkerOK, Documents

LEMMA DurableInsertItem ==
    ASSUME TypeInv, OneWriter, OneWriter', DurableInv, NEW t \in Workers,
           NEW k \in Keys, InsertItem(t, k)
    PROVE  DurableInv'
<1> DEFINE c == req[t].c
           d == Stored(docs[c][k], seq_counters[c], req[t].body[k])
<1>1. /\ pc[t] = "insert_items" /\ k \in todo[t]
      /\ docs' = [docs EXCEPT ![c][k] = d] /\ failed' = failed \ {<<c, k>>}
      /\ WriteEntry(InsertEntry(c, k, d)) /\ todo'[t] = todo[t] \ {k}
      /\ UNCHANGED <<schemas, pc, req>>
  BY DEF InsertItem, TypeInv, TypeOK
<1>2. d \in Doc
  BY StoredType
<1> HIDE DEF d
<1>3. InTx(t) /\ InTx(t)' /\ InTxOK(t)
  BY <1>1 DEF InTx, DurableInv
<1>4. Buffered(PutDoc(wal.pending, c, k, d))
  BY <1>1, <1>2, <1>3, TypeFacts, BufferedEntries DEF InTxOK
<1>5. /\ wal'.durable = wal.durable /\ wal'.pending = PutDoc(wal.pending, c, k, d)
      /\ wal'.active = t
  BY <1>3, <1>4 DEF Buffered, LogOf, InTxOK
<1>6. Lag(t) = {} /\ Lag(t)' = {} /\ LagDone(t)'
  BY <1>1 DEF Lag, LagDone
<1>7. Agree(docs, wal.pending, failed)
  BY <1>3, <1>6 DEF InTxOK, Matches
<1>8. Agree(docs', wal'.pending, failed')
  <2>1. failed \subseteq failed' \cup {<<c, k>>}
    BY <1>1
  <2>2. /\ docs \in Documents /\ wal.pending \in Db /\ c \in Collections
    BY TypeFacts
  <2>3. Agree([docs EXCEPT ![c][k] = d], PutDoc(wal.pending, c, k, d), failed')
    <3> HIDE DEF c
    <3> QED
      BY <1>2, <1>7, <2>1, <2>2, AgreePut
  <2> QED
    BY <1>1, <1>5, <2>3
<1>9. Agree(docs, wal.durable, failed \cup ({c} \X (req[t].keys \ todo[t])))
  BY <1>1, <1>3 DEF InTxOK, Undoable, Matches
<1>10. Agree(docs', wal'.durable, failed' \cup ({c} \X (req[t].keys \ todo'[t])))
  <2> DEFINE F == failed \cup ({c} \X (req[t].keys \ todo[t]))
             G == failed' \cup ({c} \X (req[t].keys \ todo'[t]))
  <2>1. F \subseteq G /\ <<c, k>> \in G
    BY <1>1, TypeFacts
  <2> HIDE DEF F, G
  <2>2. Agree(docs', wal.durable, G)
    BY <1>1, <1>9, <2>1, TypeFacts, AgreeMemory DEF F
  <2> QED
    BY <1>5, <2>2 DEF G
<1>11. Undoable(t)'
  BY <1>1, <1>10 DEF Undoable, Matches
<1>12. TxSchemas(t)'
  BY <1>1, <1>3, <1>5 DEF InTxOK, TxSchemas, PutDoc, DbOf
<1>13. InTxOK(t)'
  BY <1>5, <1>6, <1>8, <1>11, <1>12 DEF InTxOK, Matches
<1>14. pc'[t] # "schema_set" /\ OthersStay(t)
  BY <1>1 DEF OthersStay
<1> QED
  BY <1>3, <1>13, <1>14, WriterStep DEF Writing

LEMMA DurableInsert ==
    ASSUME TypeInv, OneWriter, OneWriter', DurableInv, NEW t \in Workers,
           \/ InsertBegin(t) \/ InsertCommit(t) \/ CheckMaxSize(t)
           \/ \E k \in Keys : InsertItem(t, k) \/ InsertInvalid(t, k)
    PROVE  DurableInv'
<1>1. CASE InsertBegin(t)
  <2>1. /\ ~ Writing(t) /\ Goto(t, "insert_items") /\ WriteEntry(TxBegin(req[t].c, t))
        /\ todo'[t] = req[t].keys /\ UNCHANGED <<docs, schemas, failed, req>>
    BY <1>1 DEF InsertBegin, Writing, InTx, TypeInv, TypeOK
  <2> QED
    BY <2>1, TxStarts
<1>2. CASE InsertCommit(t)
  <2>1. OthersStay(t) /\ (pc'[t] = "idle" \/ pc'[t] = "max_size")
    BY <1>2, OthersStayAt DEF InsertCommit
  <2>2. InTx(t) /\ pc[t] # "schema_commit" /\ Lag(t) = {} /\ ~ Writing(t)'
    BY <1>2, <2>1 DEF InsertCommit, InTx, Lag, Writing
  <2> QED
    BY <1>2, <2>1, <2>2, TxEnds DEF InsertCommit, memory
<1>3. CASE CheckMaxSize(t)
  <2>1. (pc'[t] = "idle" \/ pc'[t] = "evict") /\ pc[t] = "max_size"
    BY <1>3, OthersStayAt DEF CheckMaxSize
  <2>2. ~ Writing(t) /\ ~ Writing(t)'
    BY <2>1 DEF Writing, InTx
  <2>3. \A u \in Workers : u # t => Stays(u)
    BY <1>3, ReturnStays, GotoStays DEF CheckMaxSize
  <2> QED
    BY <1>3, <2>2, <2>3, IdleStep DEF CheckMaxSize, memory
<1>4. ASSUME NEW k \in Keys, InsertItem(t, k) PROVE DurableInv'
  BY <1>4, DurableInsertItem
<1>5. ASSUME NEW k \in Keys, InsertInvalid(t, k) PROVE DurableInv'
  <2>1. OthersStay(t) /\ pc'[t] = "idle"
    BY <1>5, OthersStayAt DEF InsertInvalid
  <2>2. InTx(t) /\ ~ Writing(t)' /\ ~ InTx(t)'
    BY <1>5, <2>1 DEF InsertInvalid, InTx, Writing
  <2>3. InTxOK(t)
    BY <2>2 DEF DurableInv
  <2>4. Rest'
    BY <1>5, <2>3 DEF InsertInvalid, InTxOK, Undoable, TxSchemas, Rest, Matches
  <2> QED
    BY <2>1, <2>2, <2>4, WriterStep DEF Writing
<1> QED
  BY <1>1, <1>2, <1>3, <1>4, <1>5

LEMMA DurableDeleteKey ==
    ASSUME TypeInv, OneWriter, OneWriter', DurableInv, NEW t \in Workers,
           NEW k \in Keys, DeleteKey(t, k)
    PROVE  DurableInv'
<1> DEFINE c == req[t].c
<1>1. /\ pc[t] = "delete_keys" /\ pc'[t] = "delete_log" /\ OthersStay(t)
      /\ docs' = [docs EXCEPT ![c][k] = NoDoc] /\ failed' = failed \ {<<c, k>>}
      /\ key'[t] = k /\ UNCHANGED <<schemas, wal, req>>
  BY OthersStayAt DEF DeleteKey, TypeInv, TypeOK
<1>2. InTx(t) /\ InTx(t)' /\ InTxOK(t)
  BY <1>1 DEF InTx, DurableInv
<1>3. Lag(t) = {} /\ Lag(t)' = {<<c, k>>}
  BY <1>1 DEF Lag
<1>4. /\ docs \in Documents /\ wal.pending \in Db /\ c \in Collections
      /\ Agree(docs, wal.pending, failed)
  BY <1>2, <1>3, TypeFacts DEF InTxOK, Matches
<1>5. Agree(docs', wal'.pending, failed' \cup {<<c, k>>})
  <2> DEFINE G == failed' \cup {<<c, k>>}
  <2>1. failed \subseteq G /\ <<c, k>> \in G
    BY <1>1
  <2> HIDE DEF G
  <2>2. Agree([docs EXCEPT ![c][k] = NoDoc], wal.pending, G)
    <3> HIDE DEF c
    <3> QED
      BY <1>4, <2>1, AgreeMemory
  <2> QED
    BY <1>1, <2>2 DEF G
<1>6. LagDone(t)'
  BY <1>1, <1>4 DEF LagDone, Documents
<1>7. InTxOK(t)'
  BY <1>1, <1>2, <1>3, <1>5, <1>6 DEF InTxOK, Matches, Undoable, TxSchemas
<1> QED
  BY <1>1, <1>2, <1>7, WriterStep DEF Writing

LEMMA DurableDeleteLog ==
    ASSUME TypeInv, OneWriter, OneWriter', DurableInv, NEW t \in Workers, DeleteLog(t)
    PROVE  DurableInv'
<1> DEFINE c == req[t].c
           k == key[t]
<1>1. /\ pc[t] = "delete_log" /\ pc'[t] \in {"delete_commit", "delete_keys"}
      /\ OthersStay(t) /\ WriteEntry(DeleteEntry(c, k))
      /\ UNCHANGED <<docs, failed, schemas, req>>
  BY OthersStayAt DEF DeleteLog, memory
<1>2. InTx(t) /\ InTx(t)' /\ InTxOK(t)
  BY <1>1 DEF InTx, DurableInv
<1>3. Lag(t) = {<<c, k>>} /\ Lag(t)' = {} /\ LagDone(t)'
  BY <1>1 DEF Lag, LagDone
<1>4. /\ docs \in Documents /\ wal.pending \in Db /\ c \in Collections /\ k \in Keys
      /\ Agree(docs, wal.pending, failed \cup {<<c, k>>}) /\ docs[c][k] = NoDoc
  BY <1>1, <1>2, <1>3, TypeFacts DEF InTxOK, Matches, LagDone
<1>5. Buffered(RemoveDoc(wal.pending, c, k))
  BY <1>1, <1>2, <1>4, BufferedEntries DEF InTxOK
<1>6. /\ wal'.durable = wal.durable /\ wal'.pending = RemoveDoc(wal.pending, c, k)
      /\ wal'.active = t
  BY <1>2, <1>5 DEF Buffered, LogOf, InTxOK
<1>7. Agree(docs, RemoveDoc(wal.pending, c, k), failed)
  <2> DEFINE F == failed \cup {<<c, k>>}
  <2>1. F \subseteq failed \cup {<<c, k>>} /\ Agree(docs, wal.pending, F)
    BY <1>4
  <2> HIDE DEF F, c, k
  <2> QED
    BY <1>4, <2>1, AgreeLogRemove
<1>8. TxSchemas(t)'
  BY <1>1, <1>2, <1>6 DEF InTxOK, TxSchemas, RemoveDoc, DbOf
<1>9. InTxOK(t)'
  BY <1>1, <1>3, <1>6, <1>7, <1>8 DEF InTxOK, Matches, Undoable
<1> QED
  BY <1>1, <1>2, <1>9, WriterStep DEF Writing

LEMMA DurableDelete ==
    ASSUME TypeInv, OneWriter, OneWriter', DurableInv, NEW t \in Workers,
           \/ (\E chosen : Select(t, chosen)) \/ SelectNothing(t)
           \/ DeleteBegin(t) \/ DeleteGet(t) \/ DeleteLog(t) \/ DeleteCommit(t)
           \/ \E k \in Keys : DeleteKey(t, k)
    PROVE  DurableInv'
<1>1. ASSUME NEW chosen, Select(t, chosen) PROVE DurableInv'
  <2>1. pc'[t] = "delete" /\ pc[t] \in {"evict", "delete_filtered", "delete_n"}
    BY <1>1, OthersStayAt DEF Select
  <2>2. ~ Writing(t) /\ ~ Writing(t)'
    BY <2>1 DEF Writing, InTx
  <2>3. \A u \in Workers : u # t => Stays(u)
    BY <1>1, GotoStays DEF Select
  <2> QED
    BY <1>1, <2>2, <2>3, IdleStep DEF Select, memory
<1>2. CASE SelectNothing(t)
  <2>1. pc'[t] = "idle" /\ pc[t] \in {"evict", "delete_filtered", "delete_n"}
    BY <1>2, OthersStayAt DEF SelectNothing
  <2>2. ~ Writing(t) /\ ~ Writing(t)'
    BY <2>1 DEF Writing, InTx
  <2>3. \A u \in Workers : u # t => Stays(u)
    BY <1>2, ReturnStays DEF SelectNothing
  <2> QED
    BY <1>2, <2>2, <2>3, IdleStep DEF SelectNothing, memory
<1>3. CASE DeleteBegin(t)
  <2>1. /\ ~ Writing(t) /\ Goto(t, "delete_get") /\ WriteEntry(TxBegin(req[t].c, t))
        /\ UNCHANGED <<docs, schemas, failed, req>>
    BY <1>3 DEF DeleteBegin, Writing, InTx, memory
  <2> QED
    BY <2>1, TxStarts
<1>4. CASE DeleteGet(t)
  <2>1. /\ OthersStay(t) /\ pc[t] = "delete_get"
        /\ pc'[t] \in {"delete_keys", "delete_commit"}
    BY <1>4, OthersStayAt DEF DeleteGet
  <2>2. /\ InTx(t) /\ InTx(t)' /\ Lag(t) = {} /\ Lag(t)' = {} /\ LagDone(t)'
    BY <2>1 DEF InTx, Lag, LagDone
  <2>3. UNCHANGED <<docs, schemas, failed, wal>>
    BY <1>4 DEF DeleteGet, memory
  <2>4. /\ pc'[t] # "insert_items" /\ pc'[t] # "update_read"
        /\ pc[t] # "schema_commit" /\ pc'[t] # "schema_commit"
    BY <2>1
  <2> QED
    BY <2>1, <2>2, <2>3, <2>4, TxMoves
<1>5. CASE DeleteCommit(t)
  <2>1. OthersStay(t) /\ pc'[t] = "idle"
    BY <1>5, OthersStayAt DEF DeleteCommit
  <2>2. InTx(t) /\ pc[t] # "schema_commit" /\ Lag(t) = {} /\ ~ Writing(t)'
    BY <1>5, <2>1 DEF DeleteCommit, InTx, Lag, Writing
  <2> QED
    BY <1>5, <2>1, <2>2, TxEnds DEF DeleteCommit, memory
<1> QED
  BY <1>1, <1>2, <1>3, <1>4, <1>5, DurableDeleteKey, DurableDeleteLog

LEMMA DurableUpdateWrite ==
    ASSUME TypeInv, OneWriter, OneWriter', DurableInv, NEW t \in Workers, UpdateWrite(t)
    PROVE  DurableInv'
<1> DEFINE c == req[t].c
           k == key[t]
<1>1. /\ pc[t] = "update_write" /\ pc'[t] = "update_log" /\ OthersStay(t)
      /\ docs' = [docs EXCEPT ![c][k] = doc[t]] /\ failed' = failed \ {<<c, k>>}
      /\ UNCHANGED <<schemas, wal, req, key, doc>>
  BY OthersStayAt DEF UpdateWrite, TypeInv, TypeOK
<1>2. InTx(t) /\ InTx(t)' /\ InTxOK(t)
  BY <1>1 DEF InTx, DurableInv
<1>3. Lag(t) = {} /\ Lag(t)' = {<<c, k>>}
  BY <1>1 DEF Lag
<1>4. /\ docs \in Documents /\ wal.pending \in Db /\ c \in Collections /\ k \in Keys
      /\ Agree(docs, wal.pending, failed)
  BY <1>2, <1>3, TypeFacts DEF InTxOK, Matches
<1>5. Agree(docs', wal'.pending, failed' \cup {<<c, k>>})
  <2> DEFINE G == failed' \cup {<<c, k>>}
             d == doc[t]
  <2>1. failed \subseteq G /\ <<c, k>> \in G
    BY <1>1
  <2> HIDE DEF G
  <2>2. Agree([docs EXCEPT ![c][k] = d], wal.pending, G)
    <3> HIDE DEF c, k, d
    <3> QED
      BY <1>4, <2>1, AgreeMemory
  <2> QED
    BY <1>1, <2>2 DEF G
<1>6. LagDone(t)'
  BY <1>1, <1>4 DEF LagDone, Documents
<1>7. InTxOK(t)'
  BY <1>1, <1>2, <1>3, <1>5, <1>6 DEF InTxOK, Matches, Undoable, TxSchemas
<1> QED
  BY <1>1, <1>2, <1>7, WriterStep DEF Writing

LEMMA DurableUpdateLog ==
    ASSUME TypeInv, OneWriter, OneWriter', DurableInv, NEW t \in Workers, UpdateLog(t)
    PROVE  DurableInv'
<1> DEFINE c == req[t].c
           k == key[t]
<1>1. /\ pc[t] = "update_log" /\ pc'[t] = "update_commit"
      /\ OthersStay(t) /\ WriteEntry(InsertEntry(c, k, doc[t])) /\ doc[t] \in Doc
      /\ UNCHANGED <<docs, failed, schemas, req>>
  BY OthersStayAt DEF UpdateLog, memory, TypeInv, TypeOK, WorkerOK
<1>2. InTx(t) /\ InTx(t)' /\ InTxOK(t)
  BY <1>1 DEF InTx, DurableInv
<1>3. Lag(t) = {<<c, k>>} /\ Lag(t)' = {} /\ LagDone(t)'
  BY <1>1 DEF Lag, LagDone
<1>4. /\ docs \in Documents /\ wal.pending \in Db /\ c \in Collections /\ k \in Keys
      /\ Agree(docs, wal.pending, failed \cup {<<c, k>>}) /\ docs[c][k] = doc[t]
  BY <1>1, <1>2, <1>3, TypeFacts DEF InTxOK, Matches, LagDone
<1>5. Buffered(PutDoc(wal.pending, c, k, docs[c][k]))
  BY <1>1, <1>2, <1>4, BufferedEntries DEF InTxOK
<1>6. /\ wal'.durable = wal.durable /\ wal'.pending = PutDoc(wal.pending, c, k, docs[c][k])
      /\ wal'.active = t
  BY <1>2, <1>5 DEF Buffered, LogOf, InTxOK
<1>7. Agree(docs, PutDoc(wal.pending, c, k, docs[c][k]), failed)
  <2> DEFINE F == failed \cup {<<c, k>>}
  <2>1. F \subseteq failed \cup {<<c, k>>} /\ Agree(docs, wal.pending, F)
    BY <1>4
  <2> HIDE DEF F, c, k
  <2> QED
    BY <1>4, <2>1, AgreeLogPut
<1>8. TxSchemas(t)'
  BY <1>1, <1>2, <1>6 DEF InTxOK, TxSchemas, PutDoc, DbOf
<1>9. InTxOK(t)'
  BY <1>1, <1>3, <1>6, <1>7, <1>8 DEF InTxOK, Matches, Undoable
<1> QED
  BY <1>1, <1>2, <1>9, WriterStep DEF Writing

LEMMA DurableUpdate ==
    ASSUME TypeInv, OneWriter, OneWriter', DurableInv, NEW t \in Workers,
           \/ \E k \in Keys : UpdateRead(t, k) \/ UpdateRejected(t, k) \/ UpdateAbsent(t, k)
           \/ UpdateBegin(t) \/ UpdateWrite(t) \/ UpdateLog(t) \/ UpdateCommit(t)
    PROVE  DurableInv'
<1>1. CASE UpdateBegin(t)
  <2>1. /\ ~ Writing(t) /\ Goto(t, "update_read") /\ WriteEntry(TxBegin(req[t].c, t))
        /\ UNCHANGED <<docs, schemas, failed, req>>
    BY <1>1 DEF UpdateBegin, Writing, InTx, memory
  <2> QED
    BY <2>1, TxStarts
<1>2. ASSUME NEW k \in Keys, UpdateRead(t, k) \/ UpdateAbsent(t, k) PROVE DurableInv'
  <2>1. /\ OthersStay(t) /\ pc[t] = "update_read"
        /\ pc'[t] \in {"update_write", "update_absent"}
    BY <1>2, OthersStayAt DEF UpdateRead, UpdateAbsent
  <2>2. /\ InTx(t) /\ InTx(t)' /\ Lag(t) = {} /\ Lag(t)' = {} /\ LagDone(t)'
    BY <2>1 DEF InTx, Lag, LagDone
  <2>3. UNCHANGED <<docs, schemas, failed, wal>>
    BY <1>2 DEF UpdateRead, UpdateAbsent, memory
  <2>4. /\ pc'[t] # "insert_items" /\ pc'[t] # "update_read"
        /\ pc[t] # "schema_commit" /\ pc'[t] # "schema_commit"
    BY <2>1
  <2> QED
    BY <2>1, <2>2, <2>3, <2>4, TxMoves
<1>3. ASSUME NEW k \in Keys, UpdateRejected(t, k) PROVE DurableInv'
  <2>1. OthersStay(t) /\ pc'[t] = "idle" /\ pc[t] = "update_read"
    BY <1>3, OthersStayAt DEF UpdateRejected
  <2>2. InTx(t) /\ ~ Writing(t)' /\ ~ InTx(t)'
    BY <2>1 DEF InTx, Writing
  <2>3. InTxOK(t)
    BY <2>2 DEF DurableInv
  <2>4. Rest'
    BY <1>3, <2>1, <2>3 DEF UpdateRejected, InTxOK, Undoable, TxSchemas, Rest, Matches, memory
  <2> QED
    BY <2>1, <2>2, <2>4, WriterStep DEF Writing
<1>4. CASE UpdateCommit(t)
  <2>1. OthersStay(t) /\ pc'[t] = "idle"
    BY <1>4, OthersStayAt DEF UpdateCommit
  <2>2. InTx(t) /\ pc[t] # "schema_commit" /\ Lag(t) = {} /\ ~ Writing(t)'
    BY <1>4, <2>1 DEF UpdateCommit, InTx, Lag, Writing
  <2> QED
    BY <1>4, <2>1, <2>2, TxEnds DEF UpdateCommit, memory
<1> QED
  BY <1>1, <1>2, <1>3, <1>4, DurableUpdateWrite, DurableUpdateLog

LEMMA DurableDropState ==
    ASSUME TypeInv, OneWriter, OneWriter', DurableInv, NEW t \in Workers, DropState(t)
    PROVE  DurableInv'
<1> DEFINE c == req[t].c
<1>1. /\ pc[t] = "drop_state" /\ pc'[t] = "drop_index" /\ OthersStay(t)
      /\ docs' = [docs EXCEPT ![c] = NoDocs] /\ failed' = failed \ ({c} \X Keys)
      /\ UNCHANGED <<schemas, wal, req>>
  BY OthersStayAt DEF DropState
<1>2. InTx(t) /\ InTx(t)' /\ InTxOK(t)
  BY <1>1 DEF InTx, DurableInv
<1>3. Lag(t) = {} /\ Lag(t)' = {c} \X Keys
  BY <1>1 DEF Lag
<1>4. /\ docs \in Documents /\ wal.pending \in Db /\ c \in Collections
      /\ Agree(docs, wal.pending, failed)
  BY <1>2, <1>3, TypeFacts DEF InTxOK, Matches
<1>5. Agree(docs', wal'.pending, failed' \cup ({c} \X Keys))
  <2> DEFINE G == failed' \cup ({c} \X Keys)
  <2>1. failed \subseteq G /\ {c} \X Keys \subseteq G
    BY <1>1
  <2> HIDE DEF G
  <2>2. Agree([docs EXCEPT ![c] = NoDocs], wal.pending, G)
    <3> HIDE DEF c
    <3> QED
      BY <1>4, <2>1, AgreeDropMemory
  <2> QED
    BY <1>1, <2>2 DEF G
<1>6. LagDone(t)'
  BY <1>1, <1>4 DEF LagDone, Documents
<1>7. InTxOK(t)'
  BY <1>1, <1>2, <1>3, <1>5, <1>6 DEF InTxOK, Matches, Undoable, TxSchemas
<1> QED
  BY <1>1, <1>2, <1>7, WriterStep DEF Writing

LEMMA DurableDropLog ==
    ASSUME TypeInv, OneWriter, OneWriter', DurableInv, NEW t \in Workers, DropLog(t)
    PROVE  DurableInv'
<1> DEFINE c == req[t].c
<1>1. /\ pc[t] = "drop_log" /\ pc'[t] = "drop_commit" /\ OthersStay(t)
      /\ WriteEntry(DropEntry(c)) /\ UNCHANGED <<docs, failed, schemas, req>>
  BY OthersStayAt DEF DropLog, memory
<1>2. InTx(t) /\ InTx(t)' /\ InTxOK(t)
  BY <1>1 DEF InTx, DurableInv
<1>3. Lag(t) = {c} \X Keys /\ Lag(t)' = {} /\ LagDone(t)'
  BY <1>1 DEF Lag, LagDone
<1>4. /\ docs \in Documents /\ wal.pending \in Db /\ c \in Collections
      /\ Agree(docs, wal.pending, failed \cup ({c} \X Keys)) /\ docs[c] = NoDocs
  BY <1>1, <1>2, <1>3, TypeFacts DEF InTxOK, Matches, LagDone
<1>5. Buffered(RemoveCollection(wal.pending, c))
  BY <1>1, <1>2, <1>4, BufferedEntries DEF InTxOK
<1>6. /\ wal'.durable = wal.durable /\ wal'.pending = RemoveCollection(wal.pending, c)
      /\ wal'.active = t
  BY <1>2, <1>5 DEF Buffered, LogOf, InTxOK
<1>7. Agree(docs, RemoveCollection(wal.pending, c), failed)
  <2> DEFINE F == failed \cup ({c} \X Keys)
  <2>1. F \subseteq failed \cup ({c} \X Keys) /\ Agree(docs, wal.pending, F)
    BY <1>4
  <2> HIDE DEF F, c
  <2> QED
    BY <1>4, <2>1, AgreeLogDrop
<1>8. TxSchemas(t)'
  BY <1>1, <1>2, <1>6 DEF InTxOK, TxSchemas, RemoveCollection, DbOf
<1>9. InTxOK(t)'
  BY <1>1, <1>3, <1>6, <1>7, <1>8 DEF InTxOK, Matches, Undoable
<1> QED
  BY <1>1, <1>2, <1>9, WriterStep DEF Writing

LEMMA DurableDrop ==
    ASSUME TypeInv, OneWriter, OneWriter', DurableInv, NEW t \in Workers,
           \/ DropBegin(t) \/ DropState(t) \/ DropIndex(t) \/ DropLog(t)
           \/ DropCommit(t) \/ DropCounter(t)
    PROVE  DurableInv'
<1>1. CASE DropBegin(t)
  <2>1. /\ ~ Writing(t) /\ Goto(t, "drop_state") /\ WriteEntry(TxBegin(req[t].c, t))
        /\ UNCHANGED <<docs, schemas, failed, req>>
    BY <1>1 DEF DropBegin, Writing, InTx, memory
  <2> QED
    BY <2>1, TxStarts
<1>2. CASE DropIndex(t)
  <2>1. /\ OthersStay(t) /\ pc[t] = "drop_index" /\ pc'[t] = "drop_log"
        /\ UNCHANGED <<docs, schemas, failed, wal, req>>
    BY <1>2, OthersStayAt DEF DropIndex
  <2>2. InTx(t) /\ InTx(t)' /\ Lag(t) = Lag(t)'
    BY <2>1 DEF InTx, Lag
  <2>3. LagDone(t)'
    BY <2>1, <2>2 DEF LagDone, InTxOK, DurableInv
  <2>4. /\ pc'[t] # "insert_items" /\ pc'[t] # "update_read"
        /\ pc[t] # "schema_commit" /\ pc'[t] # "schema_commit"
    BY <2>1
  <2> QED
    BY <2>1, <2>2, <2>3, <2>4, TxMoves
<1>3. CASE DropCommit(t)
  <2>1. OthersStay(t) /\ pc'[t] = "drop_counter"
    BY <1>3, OthersStayAt DEF DropCommit
  <2>2. InTx(t) /\ pc[t] # "schema_commit" /\ Lag(t) = {} /\ ~ Writing(t)'
    BY <1>3, <2>1 DEF DropCommit, InTx, Lag, Writing
  <2> QED
    BY <1>3, <2>1, <2>2, TxEnds DEF DropCommit, memory
<1>4. CASE DropCounter(t)
  <2>1. pc'[t] = "idle" /\ pc[t] = "drop_counter"
    BY <1>4, OthersStayAt DEF DropCounter
  <2>2. ~ Writing(t) /\ ~ Writing(t)'
    BY <2>1 DEF Writing, InTx
  <2>3. \A u \in Workers : u # t => Stays(u)
    BY <1>4, ReturnStays DEF DropCounter
  <2> QED
    BY <1>4, <2>2, <2>3, IdleStep DEF DropCounter
<1> QED
  BY <1>1, <1>2, <1>3, <1>4, DurableDropState, DurableDropLog

LEMMA DurableSchema ==
    ASSUME TypeInv, OneWriter, OneWriter', DurableInv, NEW t \in Workers,
           SchemaBegin(t) \/ SchemaLog(t) \/ SchemaCommit(t) \/ SchemaSet(t)
    PROVE  DurableInv'
<1> DEFINE c == req[t].c
           bs == req[t].bodies
<1>1. CASE SchemaBegin(t)
  <2>1. /\ ~ Writing(t) /\ Goto(t, "schema_log") /\ WriteEntry(TxBegin(req[t].c, t))
        /\ UNCHANGED <<docs, schemas, failed, req>>
    BY <1>1 DEF SchemaBegin, Writing, InTx, memory
  <2> QED
    BY <2>1, TxStarts
<1>2. CASE SchemaLog(t)
  <2>1. /\ pc[t] = "schema_log" /\ pc'[t] = "schema_commit" /\ OthersStay(t)
        /\ WriteEntry(SchemaEntry(c, bs)) /\ UNCHANGED <<docs, failed, schemas, req>>
    BY <1>2, OthersStayAt DEF SchemaLog, memory
  <2>2. InTx(t) /\ InTx(t)' /\ InTxOK(t)
    BY <2>1 DEF InTx, DurableInv
  <2>3. Lag(t) = {} /\ Lag(t)' = {} /\ LagDone(t)'
    BY <2>1 DEF Lag, LagDone
  <2>4. Buffered(SetSchema(wal.pending, c, bs))
    BY <2>1, <2>2, TypeFacts, BufferedEntries DEF InTxOK
  <2>5. /\ wal'.durable = wal.durable /\ wal'.pending = SetSchema(wal.pending, c, bs)
        /\ wal'.active = t
    BY <2>2, <2>4 DEF Buffered, LogOf, InTxOK
  <2>6. Agree(docs, SetSchema(wal.pending, c, bs), failed)
    <3>1. Agree(docs, wal.pending, failed)
      BY <2>2, <2>3 DEF InTxOK, Matches
    <3> HIDE DEF c, bs
    <3> QED
      BY <3>1, AgreeSchema
  <2>7. TxSchemas(t)'
    BY <2>1, <2>2, <2>5 DEF InTxOK, TxSchemas, SetSchema, DbOf
  <2>8. InTxOK(t)'
    BY <2>1, <2>3, <2>5, <2>6, <2>7 DEF InTxOK, Matches, Undoable
  <2> QED
    BY <2>1, <2>2, <2>8, WriterStep DEF Writing
<1>3. CASE SchemaCommit(t)
  <2>1. /\ pc[t] = "schema_commit" /\ pc'[t] = "schema_set" /\ OthersStay(t)
        /\ WriteEntry(TxCommit(c, t)) /\ UNCHANGED <<docs, failed, schemas, req>>
    BY <1>3, OthersStayAt DEF SchemaCommit, memory
  <2>2. InTx(t) /\ ~ InTx(t)' /\ InTxOK(t) /\ Writing(t)'
    BY <2>1 DEF InTx, DurableInv, Writing
  <2>3. wal'.durable = wal.pending
    BY <2>1, <2>2, TypeFacts, BufferCommitted DEF InTxOK
  <2>4. Lag(t) = {}
    BY <2>1 DEF Lag
  <2>5. SetOK(t)'
    BY <2>1, <2>2, <2>3, <2>4 DEF InTxOK, SetOK, TxSchemas, Matches
  <2> QED
    BY <2>1, <2>2, <2>5, WriterStep DEF Writing
<1>4. CASE SchemaSet(t)
  <2>1. /\ pc[t] = "schema_set" /\ pc'[t] = "idle" /\ OthersStay(t)
        /\ UNCHANGED <<docs, failed, wal>> /\ schemas' = [schemas EXCEPT ![c] = bs]
    BY <1>4, OthersStayAt DEF SchemaSet
  <2>2. Writing(t) /\ ~ Writing(t)' /\ ~ InTx(t)' /\ SetOK(t)
    BY <2>1 DEF InTx, DurableInv, Writing
  <2>3. Rest'
    BY <2>1, <2>2 DEF SetOK, Rest, Matches
  <2> QED
    BY <2>1, <2>2, <2>3, WriterStep
<1> QED
  BY <1>1, <1>2, <1>3, <1>4

LEMMA DurableCrash ==
    ASSUME TypeInv, CrashAndReopen
    PROVE  DurableInv'
<1>1. \A t \in Workers : pc'[t] = "idle"
  BY DEF CrashAndReopen
<1>2. Rest'
  BY DEF CrashAndReopen, Rest, Matches, Agree
<1> QED
  BY <1>1, <1>2 DEF DurableInv, InTx

LEMMA DurableSubmit ==
    ASSUME TypeInv, DurableInv, NEW t \in Workers, NEW c \in Collections,
           NEW r \in Requests(c), Submit(t, r)
    PROVE  DurableInv'
<1>1. pc[t] = "idle" /\ pc'[t] = r.op /\ r.op \in AllOps
  BY OpsAssumption, OthersStayAt DEF Submit
<1>2. ~ Writing(t) /\ ~ Writing(t)'
  BY <1>1 DEF Writing, InTx, AllOps
<1>3. \A u \in Workers : u # t => Stays(u)
  BY GotoStays DEF Submit
<1> QED
  BY <1>2, <1>3, IdleStep DEF Submit, memory

LEMMA DurableStep ==
    TypeInv /\ OneWriter /\ OneWriter' /\ DurableInv /\ [Next]_vars => DurableInv'
<1> SUFFICES ASSUME TypeInv, OneWriter, OneWriter', DurableInv, [Next]_vars PROVE DurableInv'
  OBVIOUS
<1>1. CASE \E t \in Workers, c \in Collections : \E r \in Requests(c) : Submit(t, r)
  BY <1>1, DurableSubmit
<1>2. CASE \E t \in Workers : Step(t)
  <2>1. PICK t \in Workers : Step(t)
    BY <1>2
  <2> QED
    BY <2>1, DurableInsert, DurableDelete, DurableUpdate, DurableDrop, DurableSchema DEF Step
<1>3. CASE CrashAndReopen
  BY <1>3, DurableCrash
<1>4. CASE UNCHANGED vars
  <2>1. (\A t \in Workers : Writing(t)' <=> Writing(t)) /\ (Rest' <=> Rest)
    BY <1>4 DEF vars, Writing, InTx, Rest, Matches
  <2>2. \A t \in Workers : (InTx(t)' <=> InTx(t)) /\ (SetOK(t)' <=> SetOK(t))
    BY <1>4 DEF vars, InTx, SetOK, Matches
  <2>3. \A t \in Workers : InTxOK(t)' <=> InTxOK(t)
    BY <1>4 DEF vars, InTxOK, Matches, Lag, LagDone, Undoable, TxSchemas
  <2> QED
    BY <1>4, <2>1, <2>2, <2>3 DEF vars, DurableInv
<1> QED
  BY <1>1, <1>2, <1>3, <1>4 DEF Next, Wait

LEMMA DurableInit == Init => DurableInv
BY DEF Init, DurableInv, Rest, Matches, Agree, InTx, EmptyLog, LogOf, EmptyDb, DbOf

LEMMA DurableAcked == DurableInv => AckedWritesDurable
BY DEF DurableInv, AckedWritesDurable, Quiescent, Writing, InTx, Rest, Matches, Agree

(***************************************************************************)
(* As long as the transactions of requests do not overlap, every answered  *)
(* write survives: whenever no request is under way, what Db::open would   *)
(* rebuild from the log is what readers see, after any sequence of         *)
(* batches, evictions, updates, refusals, drops, schema changes and        *)
(* crashes in the middle of them.                                          *)
(***************************************************************************)
THEOREM EngineAckedDurable == Spec /\ []OneWriter => []AckedWritesDurable
<1>1. Init => TypeInv /\ DurableInv
  BY TypeInit, DurableInit
<1>2. TypeInv /\ DurableInv /\ OneWriter /\ OneWriter' /\ [Next]_vars
         => (TypeInv /\ DurableInv)'
  BY TypeStep, DurableStep
<1> QED
  BY <1>1, <1>2, DurableAcked, PTL DEF Spec

(* With one worker there is one transaction at a time. *)
COROLLARY EngineAckedDurableAlone ==
    ASSUME \A t, u \in Workers : t = u
    PROVE  Spec => []AckedWritesDurable
<1>1. TypeInv => OneWriter
  BY DEF OneWriter
<1>2. Spec => []OneWriter
  BY <1>1, TypeInit, TypeStep, PTL DEF Spec
<1> QED
  BY <1>2, EngineAckedDurable, PTL

(* A server that only inserts, into one collection, without eviction. *)
InsertsOnly ==
    /\ \A t \in Workers : pc[t] \in {"idle", "insert", "insert_items"}
    /\ OneWriter

LEMMA InsertsOnlyStep ==
    ASSUME Ops \subseteq {"insert"}, \A c, d \in Collections : c = d,
           \A c \in Collections : MaxSize[c] = NoCap
    PROVE  TypeInv /\ InsertsOnly /\ [Next]_vars => InsertsOnly'
<1> SUFFICES ASSUME TypeInv, InsertsOnly, [Next]_vars PROVE InsertsOnly'
  OBVIOUS
<1> DEFINE Places == {"idle", "insert", "insert_items"}
<1>0. ASSUME NEW t \in Workers, OthersStay(t), pc'[t] \in Places \ {"insert_items"}
      PROVE  InsertsOnly'
  BY <1>0 DEF InsertsOnly, OthersStay, OneWriter, Writing, InTx
<1>1. ASSUME NEW t \in Workers, NEW c \in Collections, NEW r \in Requests(c), Submit(t, r)
      PROVE  InsertsOnly'
  <2>1. OthersStay(t) /\ pc'[t] = r.op /\ r.op = "insert"
    BY <1>1, OthersStayAt DEF Submit
  <2> QED
    BY <1>0, <2>1
<1>2. ASSUME NEW t \in Workers, Step(t) PROVE InsertsOnly'
  <2>1. pc[t] \in Places
    BY DEF InsertsOnly
  <2>2. CASE InsertBegin(t)
    <3>1. OthersStay(t) /\ pc'[t] = "insert_items" /\ ~ Exclusive(req[t].c)
      BY <2>2, OthersStayAt DEF InsertBegin
    <3>2. \A u \in Workers : req[u].c \in Collections
      BY TypeFacts
    <3>3. \A u \in Workers : pc[u] # "insert_items"
      BY <3>1, <3>2 DEF Exclusive
    <3> QED
      BY <3>1, <3>3 DEF InsertsOnly, OthersStay, OneWriter, Writing, InTx
  <2>3. CASE InsertCommit(t)
    <3>1. req[t].c \in Collections
      BY TypeFacts
    <3>2. OthersStay(t) /\ pc'[t] = "idle"
      BY <2>3, <3>1, OthersStayAt DEF InsertCommit
    <3> QED
      BY <1>0, <3>2
  <2>4. ASSUME NEW k \in Keys, InsertItem(t, k) PROVE InsertsOnly'
    BY <2>4 DEF InsertItem, InsertsOnly, OneWriter, Writing, InTx
  <2>5. ASSUME NEW k \in Keys, InsertInvalid(t, k) PROVE InsertsOnly'
    <3>1. OthersStay(t) /\ pc'[t] = "idle"
      BY <2>5, OthersStayAt DEF InsertInvalid
    <3> QED
      BY <1>0, <3>1
  <2>6. ~(CheckMaxSize(t) \/ (\E chosen : Select(t, chosen)) \/ SelectNothing(t))
    BY <2>1 DEF CheckMaxSize, Select, SelectNothing
  <2>7. ~(\/ DeleteBegin(t) \/ DeleteGet(t) \/ DeleteLog(t) \/ DeleteCommit(t)
          \/ \E k \in Keys : DeleteKey(t, k))
    BY <2>1 DEF DeleteBegin, DeleteGet, DeleteLog, DeleteCommit, DeleteKey
  <2>8. ~(\/ \E k \in Keys : UpdateRead(t, k) \/ UpdateRejected(t, k) \/ UpdateAbsent(t, k)
          \/ UpdateBegin(t) \/ UpdateWrite(t) \/ UpdateLog(t) \/ UpdateCommit(t))
    BY <2>1 DEF UpdateRead, UpdateRejected, UpdateAbsent, UpdateBegin, UpdateWrite,
       UpdateLog, UpdateCommit
  <2>9. ~(DropBegin(t) \/ DropState(t) \/ DropIndex(t) \/ DropLog(t)
            \/ DropCommit(t) \/ DropCounter(t))
    BY <2>1 DEF DropBegin, DropState, DropIndex, DropLog, DropCommit, DropCounter
  <2>10. ~(SchemaBegin(t) \/ SchemaLog(t) \/ SchemaCommit(t) \/ SchemaSet(t))
    BY <2>1 DEF SchemaBegin, SchemaLog, SchemaCommit, SchemaSet
  <2> QED
    BY <1>2, <2>2, <2>3, <2>4, <2>5, <2>6, <2>7, <2>8, <2>9, <2>10 DEF Step
<1>3. CASE CrashAndReopen
  BY <1>3 DEF CrashAndReopen, InsertsOnly, OneWriter, Writing, InTx
<1>4. CASE UNCHANGED vars
  BY <1>4 DEF vars, InsertsOnly, OneWriter, Writing, InTx
<1> QED
  BY <1>1, <1>2, <1>3, <1>4 DEF Next, Wait

(***************************************************************************)
(* However many workers insert, as long as they insert into one collection *)
(* without a maxSize: the guard on the collection that insert takes before *)
(* TX_BEGIN and keeps until TX_COMMIT (set.rs) serialises them.            *)
(***************************************************************************)
LEMMA InsertsSerialised ==
    ASSUME Ops \subseteq {"insert"}, \A c, d \in Collections : c = d,
           \A c \in Collections : MaxSize[c] = NoCap
    PROVE  Spec => []OneWriter
<1>1. Init => InsertsOnly
  BY DEF Init, InsertsOnly, OneWriter, Writing, InTx
<1>2. InsertsOnly => OneWriter
  BY DEF InsertsOnly
<1> QED
  BY <1>1, <1>2, TypeInit, TypeStep, InsertsOnlyStep, PTL DEF Spec

(* Concurrent inserts into one collection lose nothing that was answered. *)
COROLLARY EngineAckedDurableInserts ==
    ASSUME Ops \subseteq {"insert"}, \A c, d \in Collections : c = d,
           \A c \in Collections : MaxSize[c] = NoCap
    PROVE  Spec => []AckedWritesDurable
BY InsertsSerialised, EngineAckedDurable, PTL
-----------------------------------------------------------------------------
(***************************************************************************)
(* Atomicity.  Under the same condition the log implements AtomicStore.    *)
(* What has to be known of the open transaction is which documents it may  *)
(* have touched and what it has done to them so far; and of a document     *)
(* that a failed batch left in memory, that it is no older than the        *)
(* durable one, because the next write builds on it.                       *)
(***************************************************************************)
Ahead(d, e) == e # NoDoc => d # NoDoc /\ d.v >= e.v /\ d.seq = e.seq

FailedAhead(db) ==
    \A c \in Collections, k \in Keys :
        <<c, k>> \in failed => Ahead(docs[c][k], db.docs[c][k])

NoGhosts ==
    \A c \in Collections \ cols :
        \A k \in Keys : docs[c][k] = NoDoc /\ <<c, k>> \notin failed

(* The documents the transaction of t may have touched. *)
Scope(t) ==
    IF pc[t] \in {"schema_log", "schema_commit"} THEN {}
    ELSE IF pc[t] = "drop_commit" THEN {req[t].c} \X Keys
    ELSE {req[t].c} \X req[t].keys

Untouched(t) ==
    \A c \in Collections, k \in Keys :
        <<c, k>> \notin Scope(t) => wal.pending.docs[c][k] = wal.durable.docs[c][k]

Old(t, k) == wal.durable.docs[req[t].c][k]
New(t, k) == wal.pending.docs[req[t].c][k]
Done(t) == req[t].keys \ todo[t]
Renewed(t, k) == Abstract!Succeeds(New(t, k), Old(t, k), req[t].body[k])

(* What the transaction of t has done when t stands where it stands. *)
InsertPromise(t) ==
    pc[t] = "insert_items" => req[t].c \in cols /\ \A k \in Done(t) : Renewed(t, k)

DeletePromise(t) ==
    /\ pc[t] = "delete_keys" => \A k \in Done(t) : New(t, k) = NoDoc
    /\ pc[t] = "delete_log" =>
          key[t] \in req[t].keys /\ \A k \in Done(t) \ {key[t]} : New(t, k) = NoDoc
    /\ pc[t] = "delete_commit" => \A k \in req[t].keys : New(t, k) = NoDoc

UpdatePromise(t) ==
    /\ pc[t] \in {"update_write", "update_log"} =>
          /\ req[t].c \in cols /\ key[t] \in req[t].keys
          /\ Abstract!Succeeds(doc[t], Old(t, key[t]), req[t].body[key[t]])
    /\ pc[t] = "update_commit" => \A k \in req[t].keys : Renewed(t, k)
    /\ pc[t] = "update_absent" =>
          \A k \in req[t].keys : Old(t, k) = NoDoc /\ New(t, k) = NoDoc

DropPromise(t) == pc[t] = "drop_commit" => \A k \in Keys : New(t, k) = NoDoc

TxAtom(t) ==
    /\ FailedAhead(wal.pending)
    /\ Untouched(t)
    /\ InsertPromise(t) /\ DeletePromise(t) /\ UpdatePromise(t) /\ DropPromise(t)

AtomInv ==
    /\ FailedAhead(wal.durable)
    /\ NoGhosts
    /\ \A t \in Workers : InTx(t) => TxAtom(t)

(* An update names one key. *)
Patching(t) == pc[t] \in {"update", "update_read", "update_write", "update_log",
                          "update_commit", "update_absent"}

KeyInv == \A t \in Workers : Patching(t) => \A k, l \in req[t].keys : k = l

LEMMA UpdateHasOneKey ==
    ASSUME NEW c \in Collections, NEW r \in Requests(c), r.op = "update"
    PROVE  \A k, l \in r.keys : k = l
<1>1. r \in UpdateRequests(c)
  BY DEF Requests, InsertRequests, DeleteRequests, DeleteNRequests, DeleteFilteredRequests,
     DeleteMatching, DropRequests, SchemaRequests, Call, KeysOnly
<1>2. PICK b \in Patches, g \in 0 .. MaxGuard : r = Call("update", c, b, {}, g, "asc")
  BY <1>1 DEF UpdateRequests
<1>3. PICK k \in Keys : b \in [{k} -> Bodies]
  BY DEF Patches
<1> QED
  BY <1>2, <1>3 DEF Call

LEMMA KeyStep == TypeInv /\ KeyInv /\ [Next]_vars => KeyInv'
<1> SUFFICES ASSUME TypeInv, KeyInv, [Next]_vars PROVE KeyInv'
  OBVIOUS
<1>1. ASSUME NEW t \in Workers, NEW c \in Collections, NEW r \in Requests(c), Submit(t, r)
      PROVE  KeyInv'
  <2>1. pc'[t] = r.op /\ req'[t] = r /\ \A u \in Workers : u # t => Stays(u)
    BY <1>1, OthersStayAt, GotoStays DEF Submit, TypeInv, TypeOK
  <2>2. r.op \in AllOps
    BY <1>1, OpsAssumption DEF Submit
  <2>3. Patching(t)' => \A k, l \in r.keys : k = l
    BY <2>1, <2>2, UpdateHasOneKey DEF Patching, AllOps
  <2> QED
    BY <2>1, <2>3 DEF KeyInv, Patching, Stays
<1>2. ASSUME NEW t \in Workers, Step(t) PROVE KeyInv'
  <2>0. ASSUME OthersStay(t), \A u \in Workers : u # t => req'[u] = req[u],
               Patching(t)' => Patching(t) /\ req'[t] = req[t]
        PROVE  KeyInv'
    BY <2>0 DEF KeyInv, Patching, OthersStay
  <2>1. ASSUME NEW w, Goto(t, w), req' = req,
               w \in {"update_read", "update_write", "update_log", "update_commit",
                      "update_absent"} => Patching(t), w # "update"
        PROVE  KeyInv'
    <3>1. OthersStay(t) /\ pc'[t] = w
      BY <2>1, OthersStayAt
    <3> QED
      BY <2>0, <2>1, <3>1 DEF Patching
  <2>2. ASSUME Return(t) PROVE KeyInv'
    BY <2>0, <2>2, ReturnStays, OthersStayAt DEF Patching, Stays
  <2>3. CASE InsertBegin(t) \/ InsertCommit(t)
    BY <2>1, <2>2, <2>3 DEF InsertBegin, InsertCommit
  <2>4. CASE CheckMaxSize(t) \/ SelectNothing(t) \/ \E chosen : Select(t, chosen)
    <3>1. ASSUME NEW w \in {"evict", "delete"}, NEW r, Goto(t, w), req' = [req EXCEPT ![t] = r]
          PROVE  KeyInv'
      <4>1. \A u \in Workers : u # t => req'[u] = req[u]
        BY <3>1 DEF TypeInv, TypeOK
      <4>2. OthersStay(t) /\ pc'[t] = w
        BY <3>1, OthersStayAt
      <4> QED
        BY <2>0, <4>1, <4>2 DEF Patching
    <3> QED
      BY <2>2, <2>4, <3>1 DEF CheckMaxSize, Select, SelectNothing
  <2>5. CASE \E k \in Keys : InsertItem(t, k) \/ InsertInvalid(t, k) \/ DeleteKey(t, k)
    BY <2>1, <2>2, <2>5 DEF InsertItem, InsertInvalid, DeleteKey, KeyInv, Patching
  <2>6. CASE DeleteBegin(t) \/ DeleteGet(t) \/ DeleteLog(t) \/ DeleteCommit(t)
    BY <2>1, <2>2, <2>6 DEF DeleteBegin, DeleteGet, DeleteLog, DeleteCommit
  <2>7. CASE \E k \in Keys : UpdateRead(t, k) \/ UpdateRejected(t, k) \/ UpdateAbsent(t, k)
    BY <2>1, <2>2, <2>7 DEF UpdateRead, UpdateRejected, UpdateAbsent, Patching
  <2>8. CASE UpdateBegin(t) \/ UpdateWrite(t) \/ UpdateLog(t) \/ UpdateCommit(t)
    BY <2>1, <2>2, <2>8 DEF UpdateBegin, UpdateWrite, UpdateLog, UpdateCommit, Patching
  <2>9. CASE \/ DropBegin(t) \/ DropState(t) \/ DropIndex(t) \/ DropLog(t)
             \/ DropCommit(t) \/ DropCounter(t)
    BY <2>1, <2>2, <2>9 DEF DropBegin, DropState, DropIndex, DropLog, DropCommit, DropCounter
  <2>10. CASE SchemaBegin(t) \/ SchemaLog(t) \/ SchemaCommit(t) \/ SchemaSet(t)
    BY <2>1, <2>2, <2>10 DEF SchemaBegin, SchemaLog, SchemaCommit, SchemaSet
  <2> QED
    BY <1>2, <2>3, <2>4, <2>5, <2>6, <2>7, <2>8, <2>9, <2>10 DEF Step
<1>3. CASE CrashAndReopen
  BY <1>3 DEF CrashAndReopen, KeyInv, Patching
<1>4. CASE UNCHANGED vars
  BY <1>4 DEF vars, KeyInv, Patching
<1> QED
  BY <1>1, <1>2, <1>3, <1>4 DEF Next, Wait

(* Ahead and Succeeds. *)
LEMMA AheadSame == ASSUME NEW d \in Doc \cup {NoDoc} PROVE Ahead(d, d)
BY DEF Ahead, Doc

LEMMA SucceedsAhead ==
    ASSUME NEW d \in Doc \cup {NoDoc}, NEW e \in Doc \cup {NoDoc}, NEW b,
           Abstract!Succeeds(d, e, b)
    PROVE  Ahead(d, e)
BY NoDocAssumption DEF Ahead, Doc, Abstract!Succeeds

LEMMA StoredSucceeds ==
    ASSUME NEW d \in Doc \cup {NoDoc}, NEW e \in Doc \cup {NoDoc}, Ahead(d, e),
           NEW n \in Nat, NEW b \in Bodies
    PROVE  Abstract!Succeeds(Stored(d, n, b), e, b)
<1>1. Stored(d, n, b) \in Doc
  BY DEF Stored, Doc
<1> QED
  BY <1>1, NoDocAssumption DEF Ahead, Doc, Abstract!Succeeds, Stored

LEMMA PatchedSucceeds ==
    ASSUME NEW d \in Doc, NEW e \in Doc \cup {NoDoc}, Ahead(d, e), NEW b \in Bodies
    PROVE  Abstract!Succeeds(Patched(d, b), e, b)
<1>1. Patched(d, b) \in Doc
  BY DEF Patched, Doc
<1> QED
  BY <1>1, NoDocAssumption DEF Ahead, Doc, Abstract!Succeeds, Patched

(* A step after which only t can be in a transaction. *)
LEMMA AtomWriter ==
    ASSUME OneWriter, OneWriter', NEW t \in Workers, OthersStay(t),
           Writing(t) \/ Writing(t)', FailedAhead(wal.durable)', NoGhosts',
           InTx(t)' => TxAtom(t)'
    PROVE  AtomInv'
<1>1. ASSUME NEW u \in Workers, u # t PROVE ~ InTx(u)'
  BY <1>1 DEF OneWriter, OthersStay, Writing, InTx
<1> QED
  BY <1>1 DEF AtomInv

(* A worker moves outside a transaction, or gives its transaction up. *)
LEMMA AtomIdle ==
    ASSUME AtomInv, NEW t \in Workers, UNCHANGED <<cols, docs, wal, failed>>,
           ~ InTx(t)', \A u \in Workers : u # t => Stays(u)
    PROVE  AtomInv'
<1>1. FailedAhead(wal.durable)' /\ FailedAhead(wal.pending)' = FailedAhead(wal.pending) /\ NoGhosts'
  BY DEF AtomInv, FailedAhead, NoGhosts
<1>2. ASSUME NEW u \in Workers, InTx(u)' PROVE TxAtom(u)'
  <2>1. u # t /\ Stays(u)
    BY <1>2
  <2>2. TxAtom(u)
    BY <1>2, <2>1 DEF AtomInv, InTx, Stays
  <2>3. Scope(u)' = Scope(u) /\ Done(u)' = Done(u)
    BY <2>1 DEF Scope, Done, Stays
  <2>4. \A k : Old(u, k)' = Old(u, k) /\ New(u, k)' = New(u, k)
    BY <2>1 DEF Old, New, Stays
  <2>5. \A k : Renewed(u, k)' = Renewed(u, k)
    BY <2>1 DEF Renewed, Stays, Old, New, Abstract!Succeeds
  <2>6. Untouched(u)'
    BY <2>2, <2>3 DEF TxAtom, Untouched
  <2>7. InsertPromise(u)' /\ DropPromise(u)'
    BY <2>1, <2>2, <2>3, <2>4, <2>5 DEF TxAtom, InsertPromise, DropPromise, Stays
  <2>8. DeletePromise(u)'
    BY <2>1, <2>2, <2>3, <2>4 DEF TxAtom, DeletePromise, Stays
  <2>9. UpdatePromise(u)'
    BY <2>1, <2>2, <2>3, <2>4, <2>5 DEF TxAtom, UpdatePromise, Stays
  <2> QED
    BY <1>1, <2>2, <2>6, <2>7, <2>8, <2>9 DEF TxAtom
<1> QED
  BY <1>1, <1>2 DEF AtomInv

LEMMA AtomBegin ==
    ASSUME TypeInv, OneWriter, OneWriter', AtomInv, NEW t \in Workers, ~ Writing(t),
           NEW w \in {"insert_items", "delete_get", "update_read", "drop_state", "schema_log"},
           Goto(t, w), UNCHANGED <<docs, failed>>, cols \subseteq cols',
           WriteEntry(TxBegin(req[t].c, t)), req' = req,
           w = "insert_items" => todo'[t] = req[t].keys /\ req[t].c \in cols'
    PROVE  AtomInv'
<1>1. OthersStay(t) /\ pc'[t] = w
  BY OthersStayAt
<1>2. InTx(t)' /\ Writing(t)'
  BY <1>1 DEF InTx, Writing
<1>3. wal' = LogOf(wal.durable, wal.durable, t)
  BY BeginEntry, RequestFields DEF WriteEntry, TypeInv, TypeOK, Workers
<1>4. wal'.durable = wal.durable /\ wal'.pending = wal.durable
  BY <1>3 DEF LogOf
<1>5. FailedAhead(wal.durable)' /\ FailedAhead(wal.pending)'
  BY <1>4 DEF AtomInv, FailedAhead
<1>6. NoGhosts'
  BY DEF AtomInv, NoGhosts
<1>7. Untouched(t)'
  BY <1>4 DEF Untouched
<1>8. InsertPromise(t)'
  BY <1>1 DEF InsertPromise, Done
<1>9. DeletePromise(t)' /\ UpdatePromise(t)' /\ DropPromise(t)'
  BY <1>1 DEF DeletePromise, UpdatePromise, DropPromise
<1>10. TxAtom(t)'
  BY <1>5, <1>7, <1>8, <1>9 DEF TxAtom
<1> QED
  BY <1>1, <1>2, <1>5, <1>6, <1>10, AtomWriter

LEMMA AtomCommit ==
    ASSUME TypeInv, OneWriter, OneWriter', DurableInv, AtomInv, NEW t \in Workers, InTx(t),
           ~ InTx(t)', OthersStay(t), UNCHANGED <<cols, docs, failed>>,
           WriteEntry(TxCommit(req[t].c, t))
    PROVE  AtomInv'
<1>1. wal'.durable = wal.pending
  BY BufferCommitted, TypeFacts DEF DurableInv, InTxOK
<1>2. FailedAhead(wal.durable)'
  BY <1>1 DEF AtomInv, TxAtom, FailedAhead
<1>3. NoGhosts'
  BY DEF AtomInv, NoGhosts
<1> QED
  BY <1>2, <1>3, AtomWriter DEF Writing

LEMMA AtomInsertItem ==
    ASSUME TypeInv, OneWriter, OneWriter', DurableInv, AtomInv, NEW t \in Workers,
           NEW k \in Keys, InsertItem(t, k)
    PROVE  AtomInv' /\ wal'.durable = wal.durable
<1> DEFINE c == req[t].c
           b == req[t].body[k]
           d == Stored(docs[c][k], seq_counters[c], b)
<1>1. /\ pc[t] = "insert_items" /\ k \in todo[t]
      /\ docs' = [docs EXCEPT ![c][k] = d] /\ failed' = failed \ {<<c, k>>}
      /\ WriteEntry(InsertEntry(c, k, d)) /\ todo'[t] = todo[t] \ {k}
      /\ UNCHANGED <<cols, pc, req>>
  BY DEF InsertItem, TypeInv, TypeOK
<1>2. d \in Doc
  BY StoredType
<1>3. InTx(t) /\ InTx(t)' /\ InTxOK(t) /\ TxAtom(t)
  BY <1>1 DEF InTx, DurableInv, AtomInv
<1>4. /\ docs \in Documents /\ wal.pending \in Db /\ wal.durable \in Db /\ c \in Collections
      /\ req[t].keys \in SUBSET Keys /\ todo[t] \subseteq req[t].keys
  BY TypeFacts
<1>5. Ahead(docs[c][k], wal.durable.docs[c][k])
  <2>1. CASE <<c, k>> \in failed
    BY <1>4, <2>1 DEF AtomInv, FailedAhead
  <2>2. CASE <<c, k>> \notin failed
    <3>1. docs[c][k] = wal.durable.docs[c][k]
      BY <1>1, <1>3, <1>4, <2>2 DEF InTxOK, Undoable, Matches, Agree
    <3>2. docs[c][k] \in Doc \cup {NoDoc}
      BY <1>4 DEF Documents
    <3> QED
      BY <3>1, <3>2, AheadSame
  <2> QED
    BY <2>1, <2>2
<1>6. Abstract!Succeeds(d, wal.durable.docs[c][k], b)
  <2>1. b \in Bodies /\ seq_counters[c] \in Nat
    BY <1>1, <1>4 DEF TypeInv, TypeOK, WorkerOK
  <2>2. docs[c][k] \in Doc \cup {NoDoc} /\ wal.durable.docs[c][k] \in Doc \cup {NoDoc}
    BY <1>4 DEF Documents, Db
  <2> HIDE DEF b
  <2> QED
    BY <1>5, <2>1, <2>2, StoredSucceeds
<1> HIDE DEF d
<1>7. Buffered(PutDoc(wal.pending, c, k, d))
  BY <1>1, <1>2, <1>3, TypeFacts, BufferedEntries DEF InTxOK
<1>8. wal'.durable = wal.durable /\ wal'.pending = PutDoc(wal.pending, c, k, d)
  BY <1>7 DEF Buffered, LogOf
<1>9. /\ wal'.pending.docs[c][k] = d
      /\ \A cc \in Collections, kk \in Keys : <<cc, kk>> # <<c, k>>
            => wal'.pending.docs[cc][kk] = wal.pending.docs[cc][kk]
  BY <1>4, <1>8 DEF PutDoc, DbOf, Db
<1>10. \A cc \in Collections, kk \in Keys : <<cc, kk>> # <<c, k>> => docs'[cc][kk] = docs[cc][kk]
  BY <1>1, <1>4 DEF Documents
<1>11. FailedAhead(wal.durable)' /\ FailedAhead(wal.pending)'
  BY <1>1, <1>3, <1>8, <1>9, <1>10 DEF AtomInv, TxAtom, FailedAhead
<1>12. NoGhosts'
  <2>1. c \in cols /\ cols' = cols /\ failed' \subseteq failed
    BY <1>1, <1>3 DEF TxAtom, InsertPromise
  <2>2. \A cc \in Collections \ cols, kk \in Keys : docs'[cc][kk] = docs[cc][kk]
    BY <1>10, <2>1
  <2> QED
    BY <2>1, <2>2 DEF AtomInv, NoGhosts
<1>13. Untouched(t)'
  BY <1>1, <1>3, <1>4, <1>8, <1>9 DEF TxAtom, Untouched, Scope
<1>14. InsertPromise(t)'
  <2>1. c \in cols'
    BY <1>1, <1>3 DEF TxAtom, InsertPromise
  <2>2. ASSUME NEW kk \in Done(t)' PROVE Renewed(t, kk)'
    <3>1. kk = k \/ (kk # k /\ kk \in Done(t))
      BY <1>1, <2>2 DEF Done
    <3>2. kk \in Keys
      BY <1>1, <1>4, <2>2 DEF Done
    <3>3. CASE kk = k
      BY <1>1, <1>6, <1>8, <1>9, <3>3 DEF Renewed, New, Old
    <3>4. CASE kk # k /\ kk \in Done(t)
      <4>1. New(t, kk)' = New(t, kk) /\ Old(t, kk)' = Old(t, kk)
        BY <1>1, <1>4, <1>8, <1>9, <3>2, <3>4 DEF New, Old
      <4>2. Renewed(t, kk)
        BY <1>1, <1>3, <3>4 DEF TxAtom, InsertPromise
      <4> QED
        BY <1>1, <4>1, <4>2 DEF Renewed
    <3> QED
      BY <3>1, <3>3, <3>4
  <2> QED
    BY <1>1, <2>1, <2>2 DEF InsertPromise
<1>15. DeletePromise(t)' /\ UpdatePromise(t)' /\ DropPromise(t)'
  BY <1>1 DEF DeletePromise, UpdatePromise, DropPromise
<1>16. TxAtom(t)'
  BY <1>11, <1>13, <1>14, <1>15 DEF TxAtom
<1>17. OthersStay(t)
  BY <1>1 DEF OthersStay
<1> QED
  BY <1>3, <1>8, <1>11, <1>12, <1>16, <1>17, AtomWriter DEF Writing

LEMMA AtomInsertInvalid ==
    ASSUME TypeInv, OneWriter, OneWriter', DurableInv, AtomInv, NEW t \in Workers,
           NEW k \in Keys, InsertInvalid(t, k)
    PROVE  AtomInv'
<1> DEFINE c == req[t].c
<1>1. /\ pc[t] = "insert_items" /\ pc'[t] = "idle" /\ OthersStay(t)
      /\ failed' = failed \cup ({c} \X (req[t].keys \ todo[t]))
      /\ UNCHANGED <<cols, docs, wal>>
  BY OthersStayAt DEF InsertInvalid
<1>2. InTx(t) /\ ~ InTx(t)' /\ InTxOK(t) /\ TxAtom(t)
  BY <1>1 DEF InTx, DurableInv, AtomInv
<1>3. /\ docs \in Documents /\ wal.pending \in Db /\ wal.durable \in Db /\ c \in Collections
  BY TypeFacts
<1>4. ASSUME NEW cc \in Collections, NEW kk \in Keys, <<cc, kk>> \in failed'
      PROVE  Ahead(docs[cc][kk], wal.durable.docs[cc][kk])
  <2>1. CASE <<cc, kk>> \in failed
    BY <2>1 DEF AtomInv, FailedAhead
  <2>2. CASE <<cc, kk>> \notin failed
    <3>1. cc = c /\ kk \in Done(t)
      BY <1>1, <1>4, <2>2 DEF Done
    <3>2. Lag(t) = {}
      BY <1>1 DEF Lag
    <3>3. docs[cc][kk] = wal.pending.docs[cc][kk]
      BY <1>2, <2>2, <3>2 DEF InTxOK, Matches, Agree
    <3>4. Abstract!Succeeds(docs[cc][kk], wal.durable.docs[cc][kk], req[t].body[kk])
      BY <1>1, <1>2, <3>1, <3>3 DEF TxAtom, InsertPromise, Renewed, New, Old
    <3>5. docs[cc][kk] \in Doc \cup {NoDoc} /\ wal.durable.docs[cc][kk] \in Doc \cup {NoDoc}
      BY <1>3 DEF Documents, Db
    <3> QED
      BY <3>4, <3>5, SucceedsAhead
  <2> QED
    BY <2>1, <2>2
<1>5. FailedAhead(wal.durable)'
  BY <1>1, <1>4 DEF FailedAhead
<1>6. NoGhosts'
  BY <1>1, <1>2 DEF AtomInv, NoGhosts, TxAtom, InsertPromise
<1> QED
  BY <1>1, <1>2, <1>5, <1>6, AtomWriter DEF Writing

(* A step inside a transaction that writes nothing to memory or the log. *)
LEMMA AtomMoves ==
    ASSUME OneWriter, OneWriter', AtomInv, NEW t \in Workers, InTx(t), InTx(t)',
           OthersStay(t), UNCHANGED <<cols, docs, wal, failed>>, Scope(t) \subseteq Scope(t)',
           InsertPromise(t)' /\ DeletePromise(t)' /\ UpdatePromise(t)' /\ DropPromise(t)'
    PROVE  AtomInv'
<1>1. TxAtom(t)
  BY DEF AtomInv
<1>2. FailedAhead(wal.durable)' /\ FailedAhead(wal.pending)' /\ NoGhosts'
  BY <1>1 DEF AtomInv, TxAtom, FailedAhead, NoGhosts
<1>3. Untouched(t)'
  BY <1>1 DEF TxAtom, Untouched
<1>4. TxAtom(t)'
  BY <1>2, <1>3 DEF TxAtom
<1> QED
  BY <1>2, <1>4, AtomWriter DEF Writing

LEMMA AtomDeleteGet ==
    ASSUME TypeInv, OneWriter, OneWriter', DurableInv, AtomInv, NEW t \in Workers, DeleteGet(t)
    PROVE  AtomInv'
<1>1. /\ OthersStay(t) /\ pc[t] = "delete_get" /\ UNCHANGED <<cols, docs, wal, failed, req>>
      /\ \/ pc'[t] = "delete_keys" /\ todo'[t] = req[t].keys
         \/ pc'[t] = "delete_commit" /\ req[t].c \notin cols
  BY OthersStayAt DEF DeleteGet, memory, TypeInv, TypeOK
<1>2. InTx(t) /\ InTx(t)' /\ Scope(t)' = Scope(t) /\ InTxOK(t) /\ Lag(t) = {}
  BY <1>1 DEF InTx, Scope, DurableInv, Lag
<1>3. DeletePromise(t)'
  <2>1. CASE pc'[t] = "delete_keys" /\ todo'[t] = req[t].keys
    BY <1>1, <2>1 DEF DeletePromise, Done
  <2>2. CASE pc'[t] = "delete_commit" /\ req[t].c \notin cols
    <3>1. ASSUME NEW k \in Keys PROVE New(t, k) = NoDoc
      <4>1. req[t].c \in Collections \ cols
        BY <2>2, TypeFacts
      <4>2. docs[req[t].c][k] = NoDoc /\ <<req[t].c, k>> \notin failed
        BY <4>1 DEF AtomInv, NoGhosts
      <4> QED
        BY <1>2, <4>1, <4>2 DEF InTxOK, Matches, Agree, New
    <3>2. \A k \in req[t].keys : New(t, k)' = NoDoc
      BY <1>1, <3>1, TypeFacts DEF New
    <3> QED
      BY <1>1, <2>2, <3>2 DEF DeletePromise
  <2> QED
    BY <1>1, <2>1, <2>2
<1>4. InsertPromise(t)' /\ UpdatePromise(t)' /\ DropPromise(t)'
  BY <1>1 DEF InsertPromise, UpdatePromise, DropPromise
<1> QED
  BY <1>1, <1>2, <1>3, <1>4, AtomMoves

LEMMA AtomDeleteKey ==
    ASSUME TypeInv, OneWriter, OneWriter', AtomInv, NEW t \in Workers,
           NEW k \in Keys, DeleteKey(t, k)
    PROVE  AtomInv'
<1> DEFINE c == req[t].c
<1>1. /\ pc[t] = "delete_keys" /\ pc'[t] = "delete_log" /\ OthersStay(t)
      /\ docs' = [docs EXCEPT ![c][k] = NoDoc] /\ failed' = failed \ {<<c, k>>}
      /\ k \in todo[t] /\ key'[t] = k /\ todo'[t] = todo[t] \ {k} /\ UNCHANGED <<cols, wal, req>>
  BY OthersStayAt DEF DeleteKey, TypeInv, TypeOK
<1>2. InTx(t) /\ InTx(t)' /\ TxAtom(t) /\ Scope(t)' = Scope(t)
  BY <1>1 DEF InTx, AtomInv, Scope
<1>3. docs \in Documents /\ c \in Collections /\ todo[t] \subseteq req[t].keys
  BY TypeFacts
<1>4. \A cc \in Collections, kk \in Keys :
         docs'[cc][kk] = IF <<cc, kk>> = <<c, k>> THEN NoDoc ELSE docs[cc][kk]
  BY <1>1, <1>3 DEF Documents
<1>5. FailedAhead(wal.durable)' /\ FailedAhead(wal.pending)'
  BY <1>1, <1>2, <1>4 DEF AtomInv, TxAtom, FailedAhead
<1>6. NoGhosts'
  <2>1. cols' = cols /\ failed' \subseteq failed
    BY <1>1
  <2> QED
    BY <1>4, <2>1 DEF AtomInv, NoGhosts
<1>7. Untouched(t)'
  BY <1>1, <1>2 DEF TxAtom, Untouched
<1>8. DeletePromise(t)'
  <2>1. \A kk \in Done(t) : New(t, kk) = NoDoc
    BY <1>1, <1>2 DEF TxAtom, DeletePromise
  <2>2. Done(t)' \ {k} \subseteq Done(t) /\ k \in req'[t].keys
    BY <1>1, <1>3 DEF Done
  <2> QED
    BY <1>1, <2>1, <2>2 DEF DeletePromise, New
<1>9. InsertPromise(t)' /\ UpdatePromise(t)' /\ DropPromise(t)'
  BY <1>1 DEF InsertPromise, UpdatePromise, DropPromise
<1>10. TxAtom(t)'
  BY <1>5, <1>7, <1>8, <1>9 DEF TxAtom
<1> QED
  BY <1>1, <1>2, <1>5, <1>6, <1>10, AtomWriter DEF Writing

(***************************************************************************)
(* The buffer becomes db, which is no further on than memory where a batch *)
(* failed and leaves the rest alone outside the transaction's scope.       *)
(***************************************************************************)
LEMMA AtomBuffered ==
    ASSUME OneWriter, OneWriter', AtomInv, NEW t \in Workers, InTx(t), InTx(t)',
           OthersStay(t), UNCHANGED <<cols, docs, failed>>, NEW db, Buffered(db),
           \A c \in Collections, k \in Keys :
              /\ <<c, k>> \notin Scope(t)' => db.docs[c][k] = wal.pending.docs[c][k]
              /\ db.docs[c][k] \in {wal.pending.docs[c][k], NoDoc, docs[c][k]},
           Scope(t) \subseteq Scope(t)', docs \in Documents,
           InsertPromise(t)' /\ DeletePromise(t)' /\ UpdatePromise(t)' /\ DropPromise(t)'
    PROVE  AtomInv'
<1>1. TxAtom(t)
  BY DEF AtomInv
<1>2. wal'.durable = wal.durable /\ wal'.pending = db
  BY DEF Buffered, LogOf
<1>3. FailedAhead(wal.durable)' /\ NoGhosts'
  BY <1>2 DEF AtomInv, FailedAhead, NoGhosts
<1>4. FailedAhead(wal.pending)'
  <2> SUFFICES ASSUME NEW c \in Collections, NEW k \in Keys, <<c, k>> \in failed
               PROVE  Ahead(docs[c][k], db.docs[c][k])
    BY <1>2 DEF FailedAhead
  <2>1. Ahead(docs[c][k], wal.pending.docs[c][k])
    BY <1>1 DEF TxAtom, FailedAhead
  <2>2. Ahead(docs[c][k], docs[c][k])
    BY AheadSame DEF Documents
  <2>3. Ahead(docs[c][k], NoDoc)
    BY DEF Ahead
  <2> QED
    BY <2>1, <2>2, <2>3
<1>5. Untouched(t)'
  BY <1>1, <1>2 DEF TxAtom, Untouched
<1>6. TxAtom(t)'
  BY <1>4, <1>5 DEF TxAtom
<1> QED
  BY <1>3, <1>6, AtomWriter DEF Writing

LEMMA AtomDeleteLog ==
    ASSUME TypeInv, OneWriter, OneWriter', DurableInv, AtomInv, NEW t \in Workers, DeleteLog(t)
    PROVE  AtomInv' /\ wal'.durable = wal.durable
<1> DEFINE c == req[t].c
           k == key[t]
           db == RemoveDoc(wal.pending, c, k)
<1>1. /\ pc[t] = "delete_log" /\ OthersStay(t) /\ WriteEntry(DeleteEntry(c, k))
      /\ pc'[t] = IF todo[t] = {} THEN "delete_commit" ELSE "delete_keys"
      /\ UNCHANGED <<cols, docs, failed, req, todo>>
  BY OthersStayAt DEF DeleteLog, memory
<1>2. InTx(t) /\ InTx(t)' /\ InTxOK(t) /\ TxAtom(t) /\ Scope(t)' = Scope(t)
  BY <1>1 DEF InTx, DurableInv, AtomInv, Scope
<1>3. /\ docs \in Documents /\ wal.pending \in Db /\ c \in Collections /\ k \in Keys
      /\ req[t].keys \in SUBSET Keys
  BY TypeFacts
<1>4. Buffered(db)
  BY <1>1, <1>2, <1>3, BufferedEntries DEF InTxOK
<1>5. \A cc \in Collections, kk \in Keys :
         db.docs[cc][kk] = IF <<cc, kk>> = <<c, k>> THEN NoDoc ELSE wal.pending.docs[cc][kk]
  BY <1>3 DEF RemoveDoc, DbOf, Db
<1> HIDE DEF db
<1>6. wal'.durable = wal.durable /\ wal'.pending = db
  BY <1>4 DEF Buffered, LogOf
<1>7. k \in req[t].keys /\ \A kk \in Done(t) \ {k} : New(t, kk) = NoDoc
  BY <1>1, <1>2 DEF TxAtom, DeletePromise
<1>8. <<c, k>> \in Scope(t)'
  BY <1>1, <1>2, <1>7 DEF Scope
<1>9. \A kk \in Done(t) : New(t, kk)' = NoDoc
  BY <1>1, <1>3, <1>5, <1>6, <1>7 DEF New, Done
<1>10. DeletePromise(t)'
  <2>1. Done(t)' = Done(t) /\ (todo[t] = {} => Done(t) = req[t].keys)
    BY <1>1 DEF Done
  <2> QED
    BY <1>1, <1>9, <2>1 DEF DeletePromise
<1>11. InsertPromise(t)' /\ UpdatePromise(t)' /\ DropPromise(t)'
  BY <1>1 DEF InsertPromise, UpdatePromise, DropPromise
<1>12. \A cc \in Collections, kk \in Keys :
          /\ <<cc, kk>> \notin Scope(t)' => db.docs[cc][kk] = wal.pending.docs[cc][kk]
          /\ db.docs[cc][kk] \in {wal.pending.docs[cc][kk], NoDoc, docs[cc][kk]}
  BY <1>5, <1>8
<1> QED
  BY <1>1, <1>2, <1>3, <1>4, <1>6, <1>10, <1>11, <1>12, AtomBuffered

(* What an update reads is no older than the durable document. *)
LEMMA ReadAhead ==
    ASSUME TypeInv, DurableInv, AtomInv, NEW t \in Workers, pc[t] = "update_read", NEW k \in Keys
    PROVE  Ahead(docs[req[t].c][k], Old(t, k))
<1>1. InTxOK(t)
  BY DEF DurableInv, InTx
<1>2. docs \in Documents /\ req[t].c \in Collections
  BY TypeFacts
<1>3. CASE <<req[t].c, k>> \in failed
  BY <1>2, <1>3 DEF AtomInv, FailedAhead, Old
<1>4. CASE <<req[t].c, k>> \notin failed
  <2>1. docs[req[t].c][k] = Old(t, k)
    BY <1>1, <1>2, <1>4 DEF InTxOK, Undoable, Matches, Agree, Old
  <2>2. docs[req[t].c][k] \in Doc \cup {NoDoc}
    BY <1>2 DEF Documents
  <2> QED
    BY <2>1, <2>2, AheadSame
<1> QED
  BY <1>3, <1>4

LEMMA AtomUpdateRead ==
    ASSUME TypeInv, OneWriter, OneWriter', DurableInv, AtomInv, NEW t \in Workers,
           NEW k \in Keys, UpdateRead(t, k)
    PROVE  AtomInv'
<1> DEFINE c == req[t].c
           d == docs[c][k]
           b == req[t].body[k]
<1>1. /\ pc[t] = "update_read" /\ pc'[t] = "update_write" /\ OthersStay(t)
      /\ k \in req[t].keys /\ d # NoDoc /\ key'[t] = k /\ doc'[t] = Patched(d, b)
      /\ UNCHANGED <<cols, docs, wal, failed, req>>
  BY OthersStayAt DEF UpdateRead, memory, TypeInv, TypeOK
<1>2. InTx(t) /\ InTx(t)' /\ Scope(t)' = Scope(t)
  BY <1>1 DEF InTx, Scope
<1>3. docs \in Documents /\ c \in Collections /\ wal.durable \in Db
  BY TypeFacts
<1>4. c \in cols
  BY <1>1, <1>3 DEF AtomInv, NoGhosts
<1>5. d \in Doc /\ b \in Bodies /\ Old(t, k) \in Doc \cup {NoDoc}
  BY <1>1, <1>3 DEF Documents, TypeInv, TypeOK, WorkerOK, Old, Db
<1>6. Abstract!Succeeds(Patched(d, b), Old(t, k), b)
  <2>1. Ahead(d, Old(t, k))
    BY <1>1, ReadAhead
  <2> HIDE DEF d, b
  <2> QED
    BY <1>5, <2>1, PatchedSucceeds
<1>7. UpdatePromise(t)'
  BY <1>1, <1>4, <1>6 DEF UpdatePromise, Old
<1>8. InsertPromise(t)' /\ DeletePromise(t)' /\ DropPromise(t)'
  BY <1>1 DEF InsertPromise, DeletePromise, DropPromise
<1> QED
  BY <1>1, <1>2, <1>7, <1>8, AtomMoves

LEMMA AtomUpdateAbsent ==
    ASSUME TypeInv, OneWriter, OneWriter', DurableInv, AtomInv, KeyInv, NEW t \in Workers,
           NEW k \in Keys, UpdateAbsent(t, k)
    PROVE  AtomInv'
<1>1. /\ pc[t] = "update_read" /\ pc'[t] = "update_absent" /\ OthersStay(t)
      /\ k \in req[t].keys /\ docs[req[t].c][k] = NoDoc
      /\ UNCHANGED <<cols, docs, wal, failed, req>>
  BY OthersStayAt DEF UpdateAbsent, memory
<1>2. InTx(t) /\ InTx(t)' /\ Scope(t)' = Scope(t) /\ InTxOK(t) /\ TxAtom(t) /\ Lag(t) = {}
  BY <1>1 DEF InTx, Scope, DurableInv, AtomInv, Lag
<1>3. req[t].c \in Collections
  BY TypeFacts
<1>4. Old(t, k) = NoDoc
  BY <1>1, ReadAhead DEF Ahead
<1>5. New(t, k) = NoDoc
  <2>1. CASE <<req[t].c, k>> \in failed
    BY <1>1, <1>2, <1>3, <2>1 DEF TxAtom, FailedAhead, Ahead, New
  <2>2. CASE <<req[t].c, k>> \notin failed
    BY <1>1, <1>2, <1>3, <2>2 DEF InTxOK, Matches, Agree, New
  <2> QED
    BY <2>1, <2>2
<1>6. \A l \in req[t].keys : l = k
  BY <1>1 DEF KeyInv, Patching
<1>7. UpdatePromise(t)'
  BY <1>1, <1>4, <1>5, <1>6 DEF UpdatePromise, Old, New
<1>8. InsertPromise(t)' /\ DeletePromise(t)' /\ DropPromise(t)'
  BY <1>1 DEF InsertPromise, DeletePromise, DropPromise
<1> QED
  BY <1>1, <1>2, <1>7, <1>8, AtomMoves

LEMMA AtomUpdateWrite ==
    ASSUME TypeInv, OneWriter, OneWriter', AtomInv, NEW t \in Workers, UpdateWrite(t)
    PROVE  AtomInv'
<1> DEFINE c == req[t].c
           k == key[t]
<1>1. /\ pc[t] = "update_write" /\ pc'[t] = "update_log" /\ OthersStay(t)
      /\ docs' = [docs EXCEPT ![c][k] = doc[t]] /\ failed' = failed \ {<<c, k>>}
      /\ UNCHANGED <<cols, wal, req, key, doc>>
  BY OthersStayAt DEF UpdateWrite
<1>2. InTx(t) /\ InTx(t)' /\ TxAtom(t) /\ Scope(t)' = Scope(t)
  BY <1>1 DEF InTx, AtomInv, Scope
<1>3. docs \in Documents /\ c \in Collections /\ k \in Keys
  BY TypeFacts
<1>4. \A cc \in Collections, kk \in Keys : <<cc, kk>> # <<c, k>> => docs'[cc][kk] = docs[cc][kk]
  BY <1>1, <1>3 DEF Documents
<1>5. FailedAhead(wal.durable)' /\ FailedAhead(wal.pending)'
  BY <1>1, <1>2, <1>4 DEF AtomInv, TxAtom, FailedAhead
<1>6. NoGhosts'
  <2>1. c \in cols /\ cols' = cols /\ failed' \subseteq failed
    BY <1>1, <1>2 DEF TxAtom, UpdatePromise
  <2>2. \A cc \in Collections \ cols, kk \in Keys : docs'[cc][kk] = docs[cc][kk]
    BY <1>4, <2>1
  <2> QED
    BY <2>1, <2>2 DEF AtomInv, NoGhosts
<1>7. Untouched(t)'
  BY <1>1, <1>2 DEF TxAtom, Untouched
<1>8. UpdatePromise(t)'
  BY <1>1, <1>2 DEF TxAtom, UpdatePromise, Old
<1>9. InsertPromise(t)' /\ DeletePromise(t)' /\ DropPromise(t)'
  BY <1>1 DEF InsertPromise, DeletePromise, DropPromise
<1>10. TxAtom(t)'
  BY <1>5, <1>7, <1>8, <1>9 DEF TxAtom
<1> QED
  BY <1>1, <1>2, <1>5, <1>6, <1>10, AtomWriter DEF Writing

LEMMA AtomUpdateLog ==
    ASSUME TypeInv, OneWriter, OneWriter', DurableInv, AtomInv, KeyInv, NEW t \in Workers,
           UpdateLog(t)
    PROVE  AtomInv' /\ wal'.durable = wal.durable
<1> DEFINE c == req[t].c
           k == key[t]
           d == doc[t]
           db == PutDoc(wal.pending, c, k, d)
<1>1. /\ pc[t] = "update_log" /\ pc'[t] = "update_commit" /\ OthersStay(t)
      /\ WriteEntry(InsertEntry(c, k, d)) /\ d \in Doc
      /\ UNCHANGED <<cols, docs, failed, req>>
  BY OthersStayAt DEF UpdateLog, memory, TypeInv, TypeOK, WorkerOK
<1>2. InTx(t) /\ InTx(t)' /\ InTxOK(t) /\ TxAtom(t) /\ Scope(t)' = Scope(t)
  BY <1>1 DEF InTx, DurableInv, AtomInv, Scope
<1>3. docs \in Documents /\ wal.pending \in Db /\ c \in Collections /\ k \in Keys
  BY TypeFacts
<1>4. Buffered(db)
  BY <1>1, <1>2, <1>3, BufferedEntries DEF InTxOK
<1>5. \A cc \in Collections, kk \in Keys :
         db.docs[cc][kk] = IF <<cc, kk>> = <<c, k>> THEN d ELSE wal.pending.docs[cc][kk]
  BY <1>3 DEF PutDoc, DbOf, Db
<1> HIDE DEF db
<1>6. wal'.durable = wal.durable /\ wal'.pending = db
  BY <1>4 DEF Buffered, LogOf
<1>7. k \in req[t].keys /\ Abstract!Succeeds(d, Old(t, k), req[t].body[k])
  BY <1>1, <1>2 DEF TxAtom, UpdatePromise
<1>8. <<c, k>> \in Scope(t)' /\ d = docs[c][k] /\ \A l \in req[t].keys : l = k
  BY <1>1, <1>2, <1>7 DEF Scope, InTxOK, LagDone, KeyInv, Patching
<1>9. ASSUME NEW l \in req[t].keys PROVE Renewed(t, l)'
  <2>1. l = k
    BY <1>8, <1>9
  <2>2. New(t, l)' = d /\ Old(t, l)' = Old(t, k)
    BY <1>1, <1>3, <1>5, <1>6, <2>1 DEF New, Old
  <2> QED
    BY <1>1, <1>7, <2>1, <2>2 DEF Renewed
<1>10. UpdatePromise(t)'
  BY <1>1, <1>9 DEF UpdatePromise
<1>11. InsertPromise(t)' /\ DeletePromise(t)' /\ DropPromise(t)'
  BY <1>1 DEF InsertPromise, DeletePromise, DropPromise
<1>12. \A cc \in Collections, kk \in Keys :
          /\ <<cc, kk>> \notin Scope(t)' => db.docs[cc][kk] = wal.pending.docs[cc][kk]
          /\ db.docs[cc][kk] \in {wal.pending.docs[cc][kk], NoDoc, docs[cc][kk]}
  BY <1>5, <1>8
<1> QED
  BY <1>1, <1>2, <1>3, <1>4, <1>6, <1>10, <1>11, <1>12, AtomBuffered

LEMMA AtomDropState ==
    ASSUME TypeInv, OneWriter, OneWriter', AtomInv, NEW t \in Workers, DropState(t)
    PROVE  AtomInv'
<1> DEFINE c == req[t].c
<1>1. /\ pc[t] = "drop_state" /\ pc'[t] = "drop_index" /\ OthersStay(t)
      /\ docs' = [docs EXCEPT ![c] = NoDocs] /\ failed' = failed \ ({c} \X Keys)
      /\ cols' = cols \ {c} /\ UNCHANGED <<wal, req>>
  BY OthersStayAt DEF DropState
<1>2. InTx(t) /\ InTx(t)' /\ TxAtom(t) /\ Scope(t)' = Scope(t)
  BY <1>1 DEF InTx, AtomInv, Scope
<1>3. docs \in Documents /\ c \in Collections
  BY TypeFacts
<1>4. /\ \A cc \in Collections, kk \in Keys : cc # c => docs'[cc][kk] = docs[cc][kk]
      /\ \A kk \in Keys : docs'[c][kk] = NoDoc /\ <<c, kk>> \notin failed'
  BY <1>1, <1>3 DEF Documents, NoDocs
<1>5. failed' \subseteq failed
  BY <1>1
<1>6. FailedAhead(wal.durable)' /\ FailedAhead(wal.pending)'
  BY <1>1, <1>2, <1>4, <1>5 DEF AtomInv, TxAtom, FailedAhead
<1>7. NoGhosts'
  <2> SUFFICES ASSUME NEW cc \in Collections, cc \notin cols', NEW kk \in Keys
               PROVE  docs'[cc][kk] = NoDoc /\ <<cc, kk>> \notin failed'
    BY DEF NoGhosts
  <2>1. CASE cc = c
    BY <1>4, <2>1
  <2>2. CASE cc # c
    BY <1>1, <1>4, <1>5, <2>2 DEF AtomInv, NoGhosts
  <2> QED
    BY <2>1, <2>2
<1>8. Untouched(t)'
  BY <1>1, <1>2 DEF TxAtom, Untouched
<1>9. InsertPromise(t)' /\ DeletePromise(t)' /\ UpdatePromise(t)' /\ DropPromise(t)'
  BY <1>1 DEF InsertPromise, DeletePromise, UpdatePromise, DropPromise
<1>10. TxAtom(t)'
  BY <1>6, <1>8, <1>9 DEF TxAtom
<1> QED
  BY <1>1, <1>2, <1>6, <1>7, <1>10, AtomWriter DEF Writing

LEMMA AtomDropLog ==
    ASSUME TypeInv, OneWriter, OneWriter', DurableInv, AtomInv, NEW t \in Workers, DropLog(t)
    PROVE  AtomInv' /\ wal'.durable = wal.durable
<1> DEFINE c == req[t].c
           db == RemoveCollection(wal.pending, c)
<1>1. /\ pc[t] = "drop_log" /\ pc'[t] = "drop_commit" /\ OthersStay(t)
      /\ WriteEntry(DropEntry(c)) /\ UNCHANGED <<cols, docs, failed, req>>
  BY OthersStayAt DEF DropLog, memory
<1>2. InTx(t) /\ InTx(t)' /\ InTxOK(t)
  BY <1>1 DEF InTx, DurableInv
<1>3. /\ docs \in Documents /\ wal.pending \in Db /\ c \in Collections
      /\ req[t].keys \in SUBSET Keys
  BY TypeFacts
<1>4. Buffered(db)
  BY <1>1, <1>2, <1>3, BufferedEntries DEF InTxOK
<1>5. \A cc \in Collections, kk \in Keys :
         db.docs[cc][kk] = IF cc = c THEN NoDoc ELSE wal.pending.docs[cc][kk]
  BY <1>3 DEF RemoveCollection, DbOf, Db, NoDocs
<1> HIDE DEF db
<1>6. wal'.durable = wal.durable /\ wal'.pending = db
  BY <1>4 DEF Buffered, LogOf
<1>7. Scope(t)' = {c} \X Keys /\ Scope(t) \subseteq Scope(t)'
  BY <1>1, <1>3 DEF Scope
<1>8. DropPromise(t)'
  BY <1>1, <1>3, <1>5, <1>6 DEF DropPromise, New
<1>9. InsertPromise(t)' /\ DeletePromise(t)' /\ UpdatePromise(t)'
  BY <1>1 DEF InsertPromise, DeletePromise, UpdatePromise
<1>10. \A cc \in Collections, kk \in Keys :
          /\ <<cc, kk>> \notin Scope(t)' => db.docs[cc][kk] = wal.pending.docs[cc][kk]
          /\ db.docs[cc][kk] \in {wal.pending.docs[cc][kk], NoDoc, docs[cc][kk]}
  BY <1>5, <1>7
<1> QED
  BY <1>1, <1>2, <1>3, <1>4, <1>6, <1>7, <1>8, <1>9, <1>10, AtomBuffered

LEMMA AtomSchemaLog ==
    ASSUME TypeInv, OneWriter, OneWriter', DurableInv, AtomInv, NEW t \in Workers, SchemaLog(t)
    PROVE  AtomInv' /\ wal'.durable = wal.durable
<1> DEFINE db == SetSchema(wal.pending, req[t].c, req[t].bodies)
<1>1. /\ pc[t] = "schema_log" /\ pc'[t] = "schema_commit" /\ OthersStay(t)
      /\ WriteEntry(SchemaEntry(req[t].c, req[t].bodies)) /\ UNCHANGED <<cols, docs, failed, req>>
  BY OthersStayAt DEF SchemaLog, memory
<1>2. InTx(t) /\ InTx(t)' /\ InTxOK(t) /\ Scope(t)' = Scope(t)
  BY <1>1 DEF InTx, DurableInv, Scope
<1>3. docs \in Documents
  BY TypeFacts
<1>4. Buffered(db)
  BY <1>1, <1>2, TypeFacts, BufferedEntries DEF InTxOK
<1>5. db.docs = wal.pending.docs
  BY DEF SetSchema, DbOf
<1> HIDE DEF db
<1>6. wal'.durable = wal.durable
  BY <1>4 DEF Buffered, LogOf
<1>7. InsertPromise(t)' /\ DeletePromise(t)' /\ UpdatePromise(t)' /\ DropPromise(t)'
  BY <1>1 DEF InsertPromise, DeletePromise, UpdatePromise, DropPromise
<1>8. \A cc \in Collections, kk \in Keys :
         /\ <<cc, kk>> \notin Scope(t)' => db.docs[cc][kk] = wal.pending.docs[cc][kk]
         /\ db.docs[cc][kk] \in {wal.pending.docs[cc][kk], NoDoc, docs[cc][kk]}
  BY <1>5
<1> QED
  BY <1>1, <1>2, <1>3, <1>4, <1>6, <1>7, <1>8, AtomBuffered

LEMMA AtomCrash ==
    ASSUME TypeInv, CrashAndReopen
    PROVE  AtomInv'
<1>1. \A t \in Workers : ~ InTx(t)'
  BY DEF CrashAndReopen, InTx
<1>2. FailedAhead(wal.durable)'
  BY DEF CrashAndReopen, FailedAhead
<1>3. NoGhosts'
  BY DEF CrashAndReopen, NoGhosts, TypeInv, LogOK, DbOK, NoDocs
<1> QED
  BY <1>1, <1>2, <1>3 DEF AtomInv
-----------------------------------------------------------------------------
(***************************************************************************)
(* The steps of the engine as steps of AtomicStore.                        *)
(***************************************************************************)
AbstractStep == [Abstract!Next]_(Abstract!vars)

Pending == [u \in Workers |-> PendingWrite(u)]

(* Nothing becomes durable and no write comes or goes. *)
LEMMA MapStutter ==
    ASSUME wal'.durable.docs = wal.durable.docs,
           \A u \in Workers : PendingWrite(u)' = PendingWrite(u)
    PROVE  AbstractStep
<1>1. Pending' = Pending
  BY DEF Pending
<1> QED
  BY <1>1 DEF AbstractStep, Abstract!vars, Pending

(* The pending write of a worker that keeps its place in the same request. *)
LEMMA PendingStays ==
    ASSUME NEW u \in Workers, req'[u] = req[u], WriteKind(pc'[u]) = WriteKind(pc[u])
    PROVE  PendingWrite(u)' = PendingWrite(u)
BY DEF PendingWrite

LEMMA MapAccept ==
    ASSUME NEW t \in Workers, wal'.durable.docs = wal.durable.docs,
           WriteKind(pc[t]) = "none", WriteKind(pc'[t]) \in {"put", "patch", "remove", "drop"},
           req'[t] \in Request, \A u \in Workers : u # t => Stays(u)
    PROVE  AbstractStep
<1>1. \A u \in Workers : u # t => PendingWrite(u)' = PendingWrite(u)
  BY PendingStays DEF Stays
<1>2. PendingWrite(t) = NoWrite
  BY DEF PendingWrite
<1>3. PendingWrite(t)' \in Abstract!Write
  BY DEF PendingWrite, Abstract!Write, Request
<1>4. Pending' = [Pending EXCEPT ![t] = Pending'[t]]
  BY <1>1 DEF Pending
<1>5. Pending[t] = NoWrite /\ Pending'[t] \in Abstract!Write
  BY <1>2, <1>3 DEF Pending
<1>6. Abstract!Accept(t)
  BY <1>4, <1>5 DEF Abstract!Accept, Pending
<1> QED
  BY <1>6 DEF AbstractStep, Abstract!Next

LEMMA PendingIsWrite ==
    ASSUME NEW t \in Workers, WriteKind(pc[t]) # "none"
    PROVE  /\ PendingWrite(t) # NoWrite
           /\ PendingWrite(t).kind = WriteKind(pc[t]) /\ PendingWrite(t).c = req[t].c
           /\ PendingWrite(t).keys = req[t].keys /\ PendingWrite(t).body = req[t].body
<1>1. PendingWrite(t).kind # NoWrite.kind
  BY DEF PendingWrite, NoWrite
<1> QED
  BY <1>1 DEF PendingWrite

LEMMA MapEnds ==
    ASSUME NEW t \in Workers, WriteKind(pc'[t]) = "none", \A u \in Workers : u # t => Stays(u)
    PROVE  Pending' = [Pending EXCEPT ![t] = NoWrite]
<1>1. \A u \in Workers : u # t => PendingWrite(u)' = PendingWrite(u)
  BY PendingStays DEF Stays
<1>2. PendingWrite(t)' = NoWrite
  BY DEF PendingWrite
<1> QED
  BY <1>1, <1>2 DEF Pending

LEMMA MapRefuse ==
    ASSUME NEW t \in Workers, wal'.durable.docs = wal.durable.docs,
           WriteKind(pc[t]) # "none", WriteKind(pc'[t]) = "none",
           \A u \in Workers : u # t => Stays(u)
    PROVE  AbstractStep
<1>1. Pending' = [Pending EXCEPT ![t] = NoWrite]
  BY MapEnds
<1>2. Pending[t] # NoWrite
  BY PendingIsWrite DEF Pending
<1>3. Abstract!Refuse(t)
  BY <1>1, <1>2 DEF Abstract!Refuse, Pending
<1> QED
  BY <1>3 DEF AbstractStep, Abstract!Next

LEMMA MapTakeEffect ==
    ASSUME TypeInv, DurableInv, AtomInv, NEW t \in Workers, InTx(t),
           WriteEntry(TxCommit(req[t].c, t)),
           WriteKind(pc[t]) # "none", WriteKind(pc'[t]) = "none",
           \A u \in Workers : u # t => Stays(u),
           Abstract!Effect(PendingWrite(t), wal.durable.docs[req[t].c],
                                            wal.pending.docs[req[t].c])
    PROVE  AbstractStep
<1> DEFINE c == req[t].c
           w == PendingWrite(t)
<1>1. wal'.durable.docs = wal.pending.docs
  BY BufferCommitted, TypeFacts DEF DurableInv, InTxOK
<1>2. Pending' = [Pending EXCEPT ![t] = NoWrite]
  BY MapEnds
<1>3. w # NoWrite /\ w.c = c /\ Pending[t] = w
  BY PendingIsWrite DEF Pending
<1>4. Untouched(t) /\ wal.durable \in Db /\ wal.pending \in Db
  BY TypeFacts DEF AtomInv, TxAtom
<1>5. ASSUME NEW cc \in Collections \ {c} PROVE wal.pending.docs[cc] = wal.durable.docs[cc]
  <2>1. \A k \in Keys : wal.pending.docs[cc][k] = wal.durable.docs[cc][k]
    BY <1>4, <1>5 DEF Untouched, Scope
  <2> QED
    BY <1>4, <2>1 DEF Db
<1>6. Abstract!TakeEffect(t)
  <2> HIDE DEF w
  <2>1. Abstract!Effect(w, wal.durable.docs[w.c], wal'.durable.docs[w.c])
    BY <1>1, <1>3 DEF w
  <2>2. \A cc \in Collections \ {w.c} : wal'.durable.docs[cc] = wal.durable.docs[cc]
    BY <1>1, <1>3, <1>5
  <2> QED
    BY <1>2, <1>3, <2>1, <2>2 DEF Abstract!TakeEffect, Pending
<1> QED
  BY <1>6 DEF AbstractStep, Abstract!Next

(* Which places belong to which kind of write. *)
LEMMA Kinds ==
    /\ \A p \in {"insert", "insert_items"} : WriteKind(p) = "put"
    /\ \A p \in {"update", "update_read", "update_write", "update_log",
                 "update_commit", "update_absent"} : WriteKind(p) = "patch"
    /\ \A p \in {"delete", "delete_get", "delete_keys", "delete_log", "delete_commit"} :
          WriteKind(p) = "remove"
    /\ \A p \in {"delete_collection", "drop_state", "drop_index", "drop_log", "drop_commit"} :
          WriteKind(p) = "drop"
    /\ \A p \in {"idle", "max_size", "evict", "delete_n", "delete_filtered", "drop_counter",
                 "set_schema", "schema_log", "schema_commit", "schema_set"} :
          WriteKind(p) = "none"
<1>1. \A p \in {"insert", "insert_items"} : WriteKind(p) = "put"
  BY DEF WriteKind
<1>2. \A p \in {"update", "update_read", "update_write", "update_log",
                "update_commit", "update_absent"} : WriteKind(p) = "patch"
  BY DEF WriteKind
<1>3. \A p \in {"delete", "delete_get", "delete_keys", "delete_log", "delete_commit"} :
         WriteKind(p) = "remove"
  BY DEF WriteKind
<1>4. \A p \in {"delete_collection", "drop_state", "drop_index", "drop_log", "drop_commit"} :
         WriteKind(p) = "drop"
  BY DEF WriteKind
<1>5. \A p \in {"idle", "max_size", "evict", "delete_n", "delete_filtered", "drop_counter",
                "set_schema", "schema_log", "schema_commit", "schema_set"} :
         WriteKind(p) = "none"
  BY DEF WriteKind
<1> QED
  BY <1>1, <1>2, <1>3, <1>4, <1>5

(* t moves within its request, the others stay. *)
LEMMA MapMoves ==
    ASSUME NEW t \in Workers, wal'.durable.docs = wal.durable.docs,
           WriteKind(pc'[t]) = WriteKind(pc[t]),
           req' = req \/ WriteKind(pc[t]) = "none",
           OthersStay(t), \A u \in Workers : u # t => req'[u] = req[u]
    PROVE  AbstractStep
<1>1. ASSUME NEW u \in Workers PROVE PendingWrite(u)' = PendingWrite(u)
  <2>1. CASE u = t
    BY <2>1 DEF PendingWrite
  <2>2. CASE u # t
    BY <2>2, PendingStays DEF OthersStay
  <2> QED
    BY <2>1, <2>2
<1> QED
  BY <1>1, MapStutter

(* The commit of a batch, a deletion, an update and a drop as one effect. *)
LEMMA EffectOfCommit ==
    ASSUME TypeInv, AtomInv, NEW t \in Workers,
           \/ pc[t] = "insert_items" /\ todo[t] = {}
           \/ pc[t] \in {"delete_commit", "update_commit", "update_absent", "drop_commit"}
    PROVE  /\ InTx(t) /\ WriteKind(pc[t]) # "none"
           /\ Abstract!Effect(PendingWrite(t), wal.durable.docs[req[t].c],
                                               wal.pending.docs[req[t].c])
<1> DEFINE c == req[t].c
           old == wal.durable.docs[c]
           new == wal.pending.docs[c]
           w == PendingWrite(t)
<1>1. InTx(t) /\ TxAtom(t)
  BY DEF InTx, AtomInv
<1>2. /\ WriteKind(pc[t]) \in {"put", "patch", "remove", "drop"}
      /\ WriteKind(pc[t]) = "put" <=> pc[t] = "insert_items"
      /\ WriteKind(pc[t]) = "patch" <=> pc[t] \in {"update_commit", "update_absent"}
      /\ WriteKind(pc[t]) = "remove" <=> pc[t] = "delete_commit"
      /\ WriteKind(pc[t]) = "drop" <=> pc[t] = "drop_commit"
  BY Kinds
<1>3. w.kind = WriteKind(pc[t]) /\ w.c = c /\ w.keys = req[t].keys /\ w.body = req[t].body
  BY <1>2, PendingIsWrite
<1>4. c \in Collections
  BY TypeFacts
<1>5. ASSUME NEW k \in Keys, k \notin req[t].keys, pc[t] # "drop_commit" PROVE new[k] = old[k]
  BY <1>1, <1>2, <1>4, <1>5 DEF TxAtom, Untouched, Scope
<1>6. ASSUME NEW k \in req[t].keys, pc[t] = "insert_items"
      PROVE  Abstract!Succeeds(new[k], old[k], req[t].body[k])
  BY <1>1, <1>6 DEF TxAtom, InsertPromise, Done, Renewed, New, Old
<1>7. ASSUME NEW k \in req[t].keys, pc[t] = "update_commit"
      PROVE  Abstract!Succeeds(new[k], old[k], req[t].body[k])
  BY <1>1, <1>7 DEF TxAtom, UpdatePromise, Renewed, New, Old
<1>8. ASSUME NEW k \in req[t].keys, pc[t] = "update_absent" PROVE old[k] = NoDoc /\ new[k] = NoDoc
  BY <1>1, <1>8 DEF TxAtom, UpdatePromise, New, Old
<1>9. ASSUME NEW k \in req[t].keys, pc[t] = "delete_commit" PROVE new[k] = NoDoc
  BY <1>1, <1>9 DEF TxAtom, DeletePromise, New, Old
<1>10. ASSUME NEW k \in Keys, pc[t] = "drop_commit" PROVE new[k] = NoDoc
  BY <1>1, <1>10 DEF TxAtom, DropPromise, New
<1> HIDE DEF w, old, new
<1>11. Abstract!Effect(w, old, new)
  <2> SUFFICES ASSUME NEW k \in Keys
               PROVE  CASE k \notin w.keys ->
                             new[k] = IF w.kind = "drop" THEN NoDoc ELSE old[k]
                        [] k \in w.keys ->
                             CASE w.kind = "put" -> Abstract!Succeeds(new[k], old[k], w.body[k])
                               [] w.kind = "patch" ->
                                    \/ Abstract!Succeeds(new[k], old[k], w.body[k])
                                    \/ old[k] = NoDoc /\ new[k] = NoDoc
                               [] OTHER -> new[k] = NoDoc
    BY DEF Abstract!Effect
  <2>1. CASE k \notin w.keys
    BY <1>2, <1>3, <1>5, <1>10, <2>1
  <2>2. CASE k \in w.keys
    <3>1. CASE w.kind = "put"
      BY <1>2, <1>3, <1>6, <2>2, <3>1
    <3>2. CASE w.kind = "patch"
      BY <1>2, <1>3, <1>7, <1>8, <2>2, <3>2
    <3>3. CASE w.kind \notin {"put", "patch"}
      BY <1>2, <1>3, <1>9, <1>10, <2>2, <3>3
    <3> QED
      BY <3>1, <3>2, <3>3
  <2> QED
    BY <2>1, <2>2
<1> QED
  BY <1>1, <1>2, <1>11 DEF w, old, new

AtomStep == AtomInv' /\ AbstractStep

LEMMA AtomInsert ==
    ASSUME TypeInv, OneWriter, OneWriter', DurableInv, AtomInv, NEW t \in Workers,
           \/ InsertBegin(t) \/ InsertCommit(t) \/ CheckMaxSize(t)
           \/ \E k \in Keys : InsertItem(t, k) \/ InsertInvalid(t, k)
    PROVE  AtomStep
<1>1. CASE InsertBegin(t)
  <2>1. /\ ~ Writing(t) /\ Goto(t, "insert_items") /\ WriteEntry(TxBegin(req[t].c, t))
        /\ todo'[t] = req[t].keys /\ UNCHANGED <<docs, failed, req>>
        /\ pc[t] = "insert" /\ cols' = cols \cup {req[t].c}
    BY <1>1 DEF InsertBegin, Writing, InTx, TypeInv, TypeOK
  <2>2. AtomInv'
    BY <2>1, AtomBegin
  <2>3. wal'.durable = wal.durable
    BY <2>1, BeginEntry, TypeFacts DEF WriteEntry, TypeInv, Workers, LogOf
  <2>4. OthersStay(t) /\ pc'[t] = "insert_items"
    BY <2>1, OthersStayAt
  <2> QED
    BY <2>1, <2>2, <2>3, <2>4, Kinds, MapMoves DEF AtomStep
<1>2. CASE InsertCommit(t)
  <2>1. OthersStay(t) /\ (pc'[t] = "idle" \/ pc'[t] = "max_size")
    BY <1>2, OthersStayAt DEF InsertCommit
  <2>2. /\ pc[t] = "insert_items" /\ todo[t] = {} /\ WriteEntry(TxCommit(req[t].c, t))
        /\ UNCHANGED <<cols, docs, failed>>
    BY <1>2 DEF InsertCommit, memory
  <2>3. \A u \in Workers : u # t => Stays(u)
    BY <1>2, ReturnStays, GotoStays DEF InsertCommit
  <2>4. ~ InTx(t)' /\ WriteKind(pc'[t]) = "none" /\ InTx(t)
    BY <2>1, <2>2, Kinds DEF InTx
  <2>5. AtomInv'
    BY <2>1, <2>2, <2>4, AtomCommit
  <2> QED
    BY <2>2, <2>3, <2>4, <2>5, EffectOfCommit, MapTakeEffect DEF AtomStep
<1>3. CASE CheckMaxSize(t)
  <2>1. /\ (pc'[t] = "idle" \/ pc'[t] = "evict") /\ pc[t] = "max_size" /\ OthersStay(t)
        /\ UNCHANGED <<cols, docs, wal, failed>>
    BY <1>3, OthersStayAt DEF CheckMaxSize, memory
  <2>2. \A u \in Workers : u # t => Stays(u)
    BY <1>3, ReturnStays, GotoStays DEF CheckMaxSize
  <2>3. ~ InTx(t)'
    BY <2>1 DEF InTx
  <2>4. AtomInv'
    BY <2>1, <2>2, <2>3, AtomIdle
  <2> QED
    BY <2>1, <2>2, <2>4, Kinds, MapMoves DEF AtomStep, Stays
<1>4. ASSUME NEW k \in Keys, InsertItem(t, k) PROVE AtomStep
  <2>1. AtomInv' /\ wal'.durable = wal.durable
    BY <1>4, AtomInsertItem
  <2>2. UNCHANGED <<pc, req>>
    BY <1>4 DEF InsertItem
  <2>3. \A u \in Workers : PendingWrite(u)' = PendingWrite(u)
    BY <2>2, PendingStays
  <2> QED
    BY <2>1, <2>3, MapStutter DEF AtomStep
<1>5. ASSUME NEW k \in Keys, InsertInvalid(t, k) PROVE AtomStep
  <2>1. AtomInv'
    BY <1>5, AtomInsertInvalid
  <2>2. pc[t] = "insert_items" /\ pc'[t] = "idle" /\ wal' = wal
    BY <1>5, OthersStayAt DEF InsertInvalid
  <2>3. \A u \in Workers : u # t => Stays(u)
    BY <1>5, ReturnStays DEF InsertInvalid
  <2>4. WriteKind(pc[t]) # "none" /\ WriteKind(pc'[t]) = "none"
    BY <2>2, Kinds
  <2> QED
    BY <2>1, <2>2, <2>3, <2>4, MapRefuse DEF AtomStep
<1> QED
  BY <1>1, <1>2, <1>3, <1>4, <1>5

LEMMA AtomDelete ==
    ASSUME TypeInv, TypeInv', OneWriter, OneWriter', DurableInv, AtomInv, NEW t \in Workers,
           \/ (\E chosen : Select(t, chosen)) \/ SelectNothing(t)
           \/ DeleteBegin(t) \/ DeleteGet(t) \/ DeleteLog(t) \/ DeleteCommit(t)
           \/ \E k \in Keys : DeleteKey(t, k)
    PROVE  AtomStep
<1>1. ASSUME NEW chosen, Select(t, chosen) PROVE AtomStep
  <2>1. /\ pc'[t] = "delete" /\ pc[t] \in {"evict", "delete_filtered", "delete_n"}
        /\ UNCHANGED <<cols, docs, wal, failed>>
    BY <1>1, OthersStayAt DEF Select, memory
  <2>2. \A u \in Workers : u # t => Stays(u)
    BY <1>1, GotoStays DEF Select
  <2>3. ~ InTx(t)'
    BY <2>1 DEF InTx
  <2>4. AtomInv'
    BY <2>1, <2>2, <2>3, AtomIdle
  <2>5. req'[t] \in Request
    BY DEF TypeInv, TypeOK
  <2>6. WriteKind(pc[t]) = "none" /\ WriteKind(pc'[t]) = "remove"
    BY <2>1, Kinds
  <2> QED
    BY <2>1, <2>2, <2>4, <2>5, <2>6, MapAccept DEF AtomStep
<1>2. CASE SelectNothing(t)
  <2>1. /\ pc'[t] = "idle" /\ pc[t] \in {"evict", "delete_filtered", "delete_n"}
        /\ OthersStay(t) /\ UNCHANGED <<cols, docs, wal, failed>>
    BY <1>2, OthersStayAt DEF SelectNothing, memory
  <2>2. \A u \in Workers : u # t => Stays(u)
    BY <1>2, ReturnStays DEF SelectNothing
  <2>3. ~ InTx(t)'
    BY <2>1 DEF InTx
  <2>4. AtomInv'
    BY <2>1, <2>2, <2>3, AtomIdle
  <2> QED
    BY <2>1, <2>2, <2>4, Kinds, MapMoves DEF AtomStep, Stays
<1>3. CASE DeleteBegin(t)
  <2>1. /\ ~ Writing(t) /\ Goto(t, "delete_get") /\ WriteEntry(TxBegin(req[t].c, t))
        /\ pc[t] = "delete" /\ UNCHANGED <<cols, docs, failed, req>>
    BY <1>3 DEF DeleteBegin, Writing, InTx, memory
  <2>2. AtomInv'
    BY <2>1, AtomBegin
  <2>3. wal'.durable = wal.durable
    BY <2>1, BeginEntry, TypeFacts DEF WriteEntry, TypeInv, Workers, LogOf
  <2>4. OthersStay(t) /\ pc'[t] = "delete_get"
    BY <2>1, OthersStayAt
  <2> QED
    BY <2>1, <2>2, <2>3, <2>4, Kinds, MapMoves DEF AtomStep
<1>4. CASE DeleteGet(t)
  <2>1. /\ OthersStay(t) /\ pc[t] = "delete_get" /\ UNCHANGED <<wal, req>>
        /\ pc'[t] \in {"delete_keys", "delete_commit"}
    BY <1>4, OthersStayAt DEF DeleteGet
  <2> QED
    BY <1>4, <2>1, AtomDeleteGet, Kinds, MapMoves DEF AtomStep
<1>5. ASSUME NEW k \in Keys, DeleteKey(t, k) PROVE AtomStep
  <2>1. /\ OthersStay(t) /\ pc[t] = "delete_keys" /\ UNCHANGED <<wal, req>>
        /\ pc'[t] = "delete_log"
    BY <1>5, OthersStayAt DEF DeleteKey
  <2> QED
    BY <1>5, <2>1, AtomDeleteKey, Kinds, MapMoves DEF AtomStep
<1>6. CASE DeleteLog(t)
  <2>1. /\ OthersStay(t) /\ pc[t] = "delete_log" /\ req' = req
        /\ pc'[t] \in {"delete_keys", "delete_commit"}
    BY <1>6, OthersStayAt DEF DeleteLog
  <2> QED
    BY <1>6, <2>1, AtomDeleteLog, Kinds, MapMoves DEF AtomStep
<1>7. CASE DeleteCommit(t)
  <2>1. /\ OthersStay(t) /\ pc'[t] = "idle" /\ pc[t] = "delete_commit"
        /\ WriteEntry(TxCommit(req[t].c, t)) /\ UNCHANGED <<cols, docs, failed>>
    BY <1>7, OthersStayAt DEF DeleteCommit, memory
  <2>2. \A u \in Workers : u # t => Stays(u)
    BY <1>7, ReturnStays DEF DeleteCommit
  <2>3. ~ InTx(t)' /\ WriteKind(pc'[t]) = "none" /\ InTx(t)
    BY <2>1, Kinds DEF InTx
  <2>4. AtomInv'
    BY <2>1, <2>3, AtomCommit
  <2> QED
    BY <2>1, <2>2, <2>3, <2>4, EffectOfCommit, MapTakeEffect DEF AtomStep
<1> QED
  BY <1>1, <1>2, <1>3, <1>4, <1>5, <1>6, <1>7

LEMMA AtomUpdate ==
    ASSUME TypeInv, OneWriter, OneWriter', DurableInv, AtomInv, KeyInv, NEW t \in Workers,
           \/ \E k \in Keys : UpdateRead(t, k) \/ UpdateRejected(t, k) \/ UpdateAbsent(t, k)
           \/ UpdateBegin(t) \/ UpdateWrite(t) \/ UpdateLog(t) \/ UpdateCommit(t)
    PROVE  AtomStep
<1>1. CASE UpdateBegin(t)
  <2>1. /\ ~ Writing(t) /\ Goto(t, "update_read") /\ WriteEntry(TxBegin(req[t].c, t))
        /\ pc[t] = "update" /\ UNCHANGED <<cols, docs, failed, req>>
    BY <1>1 DEF UpdateBegin, Writing, InTx, memory
  <2>2. AtomInv'
    BY <2>1, AtomBegin
  <2>3. wal'.durable = wal.durable
    BY <2>1, BeginEntry, TypeFacts DEF WriteEntry, TypeInv, Workers, LogOf
  <2>4. OthersStay(t) /\ pc'[t] = "update_read"
    BY <2>1, OthersStayAt
  <2> QED
    BY <2>1, <2>2, <2>3, <2>4, Kinds, MapMoves DEF AtomStep
<1>2. ASSUME NEW k \in Keys, UpdateRead(t, k) \/ UpdateAbsent(t, k) PROVE AtomStep
  <2>1. /\ OthersStay(t) /\ pc[t] = "update_read" /\ UNCHANGED <<wal, req>>
        /\ pc'[t] \in {"update_write", "update_absent"}
    BY <1>2, OthersStayAt DEF UpdateRead, UpdateAbsent
  <2>2. AtomInv'
    BY <1>2, AtomUpdateRead, AtomUpdateAbsent
  <2> QED
    BY <2>1, <2>2, Kinds, MapMoves DEF AtomStep
<1>3. ASSUME NEW k \in Keys, UpdateRejected(t, k) PROVE AtomStep
  <2>1. /\ pc'[t] = "idle" /\ pc[t] = "update_read" /\ UNCHANGED <<cols, docs, wal, failed>>
    BY <1>3, OthersStayAt DEF UpdateRejected, memory
  <2>2. \A u \in Workers : u # t => Stays(u)
    BY <1>3, ReturnStays DEF UpdateRejected
  <2>3. ~ InTx(t)' /\ WriteKind(pc[t]) # "none" /\ WriteKind(pc'[t]) = "none"
    BY <2>1, Kinds DEF InTx
  <2>4. AtomInv'
    BY <2>1, <2>2, <2>3, AtomIdle
  <2> QED
    BY <2>1, <2>2, <2>3, <2>4, MapRefuse DEF AtomStep
<1>4. CASE UpdateWrite(t)
  <2>1. /\ OthersStay(t) /\ pc[t] = "update_write" /\ UNCHANGED <<wal, req>>
        /\ pc'[t] = "update_log"
    BY <1>4, OthersStayAt DEF UpdateWrite
  <2> QED
    BY <1>4, <2>1, AtomUpdateWrite, Kinds, MapMoves DEF AtomStep
<1>5. CASE UpdateLog(t)
  <2>1. OthersStay(t) /\ pc[t] = "update_log" /\ req' = req /\ pc'[t] = "update_commit"
    BY <1>5, OthersStayAt DEF UpdateLog
  <2> QED
    BY <1>5, <2>1, AtomUpdateLog, Kinds, MapMoves DEF AtomStep
<1>6. CASE UpdateCommit(t)
  <2>1. /\ OthersStay(t) /\ pc'[t] = "idle" /\ pc[t] \in {"update_commit", "update_absent"}
        /\ WriteEntry(TxCommit(req[t].c, t)) /\ UNCHANGED <<cols, docs, failed>>
    BY <1>6, OthersStayAt DEF UpdateCommit, memory
  <2>2. \A u \in Workers : u # t => Stays(u)
    BY <1>6, ReturnStays DEF UpdateCommit
  <2>3. ~ InTx(t)' /\ WriteKind(pc'[t]) = "none" /\ InTx(t)
    BY <2>1, Kinds DEF InTx
  <2>4. AtomInv'
    BY <2>1, <2>3, AtomCommit
  <2> QED
    BY <2>1, <2>2, <2>3, <2>4, EffectOfCommit, MapTakeEffect DEF AtomStep
<1> QED
  BY <1>1, <1>2, <1>3, <1>4, <1>5, <1>6

LEMMA AtomDrop ==
    ASSUME TypeInv, OneWriter, OneWriter', DurableInv, AtomInv, NEW t \in Workers,
           \/ DropBegin(t) \/ DropState(t) \/ DropIndex(t) \/ DropLog(t)
           \/ DropCommit(t) \/ DropCounter(t)
    PROVE  AtomStep
<1>1. CASE DropBegin(t)
  <2>1. /\ ~ Writing(t) /\ Goto(t, "drop_state") /\ WriteEntry(TxBegin(req[t].c, t))
        /\ pc[t] = "delete_collection" /\ UNCHANGED <<cols, docs, failed, req>>
    BY <1>1 DEF DropBegin, Writing, InTx, memory
  <2>2. AtomInv'
    BY <2>1, AtomBegin
  <2>3. wal'.durable = wal.durable
    BY <2>1, BeginEntry, TypeFacts DEF WriteEntry, TypeInv, Workers, LogOf
  <2>4. OthersStay(t) /\ pc'[t] = "drop_state"
    BY <2>1, OthersStayAt
  <2> QED
    BY <2>1, <2>2, <2>3, <2>4, Kinds, MapMoves DEF AtomStep
<1>2. CASE DropState(t)
  <2>1. OthersStay(t) /\ pc[t] = "drop_state" /\ UNCHANGED <<wal, req>> /\ pc'[t] = "drop_index"
    BY <1>2, OthersStayAt DEF DropState
  <2> QED
    BY <1>2, <2>1, AtomDropState, Kinds, MapMoves DEF AtomStep
<1>3. CASE DropIndex(t)
  <2>1. /\ OthersStay(t) /\ pc[t] = "drop_index" /\ pc'[t] = "drop_log"
        /\ UNCHANGED <<cols, docs, wal, failed, req>>
    BY <1>3, OthersStayAt DEF DropIndex
  <2>2. InTx(t) /\ InTx(t)' /\ Scope(t)' = Scope(t)
    BY <2>1 DEF InTx, Scope
  <2>3. InsertPromise(t)' /\ DeletePromise(t)' /\ UpdatePromise(t)' /\ DropPromise(t)'
    BY <2>1 DEF InsertPromise, DeletePromise, UpdatePromise, DropPromise
  <2>4. AtomInv'
    BY <2>1, <2>2, <2>3, AtomMoves
  <2> QED
    BY <2>1, <2>4, Kinds, MapMoves DEF AtomStep
<1>4. CASE DropLog(t)
  <2>1. OthersStay(t) /\ pc[t] = "drop_log" /\ req' = req /\ pc'[t] = "drop_commit"
    BY <1>4, OthersStayAt DEF DropLog
  <2> QED
    BY <1>4, <2>1, AtomDropLog, Kinds, MapMoves DEF AtomStep
<1>5. CASE DropCommit(t)
  <2>1. /\ OthersStay(t) /\ pc'[t] = "drop_counter" /\ pc[t] = "drop_commit"
        /\ WriteEntry(TxCommit(req[t].c, t)) /\ UNCHANGED <<cols, docs, failed>>
    BY <1>5, OthersStayAt DEF DropCommit, memory
  <2>2. \A u \in Workers : u # t => Stays(u)
    BY <1>5, GotoStays DEF DropCommit
  <2>3. ~ InTx(t)' /\ WriteKind(pc'[t]) = "none" /\ InTx(t)
    BY <2>1, Kinds DEF InTx
  <2>4. AtomInv'
    BY <2>1, <2>3, AtomCommit
  <2> QED
    BY <2>1, <2>2, <2>3, <2>4, EffectOfCommit, MapTakeEffect DEF AtomStep
<1>6. CASE DropCounter(t)
  <2>1. /\ pc'[t] = "idle" /\ pc[t] = "drop_counter" /\ OthersStay(t)
        /\ UNCHANGED <<cols, docs, wal, failed>>
    BY <1>6, OthersStayAt DEF DropCounter
  <2>2. \A u \in Workers : u # t => Stays(u)
    BY <1>6, ReturnStays DEF DropCounter
  <2>3. ~ InTx(t)'
    BY <2>1 DEF InTx
  <2>4. AtomInv'
    BY <2>1, <2>2, <2>3, AtomIdle
  <2> QED
    BY <2>1, <2>2, <2>4, Kinds, MapMoves DEF AtomStep, Stays
<1> QED
  BY <1>1, <1>2, <1>3, <1>4, <1>5, <1>6

LEMMA AtomSchema ==
    ASSUME TypeInv, OneWriter, OneWriter', DurableInv, AtomInv, NEW t \in Workers,
           SchemaBegin(t) \/ SchemaLog(t) \/ SchemaCommit(t) \/ SchemaSet(t)
    PROVE  AtomStep
<1>1. CASE SchemaBegin(t)
  <2>1. /\ ~ Writing(t) /\ Goto(t, "schema_log") /\ WriteEntry(TxBegin(req[t].c, t))
        /\ pc[t] = "set_schema" /\ UNCHANGED <<cols, docs, failed, req>>
    BY <1>1 DEF SchemaBegin, Writing, InTx, memory
  <2>2. AtomInv'
    BY <2>1, AtomBegin
  <2>3. wal'.durable = wal.durable
    BY <2>1, BeginEntry, TypeFacts DEF WriteEntry, TypeInv, Workers, LogOf
  <2>4. OthersStay(t) /\ pc'[t] = "schema_log"
    BY <2>1, OthersStayAt
  <2> QED
    BY <2>1, <2>2, <2>3, <2>4, Kinds, MapMoves DEF AtomStep
<1>2. CASE SchemaLog(t)
  <2>1. OthersStay(t) /\ pc[t] = "schema_log" /\ req' = req /\ pc'[t] = "schema_commit"
    BY <1>2, OthersStayAt DEF SchemaLog
  <2> QED
    BY <1>2, <2>1, AtomSchemaLog, Kinds, MapMoves DEF AtomStep
<1>3. CASE SchemaCommit(t)
  <2>1. /\ OthersStay(t) /\ pc[t] = "schema_commit" /\ req' = req /\ pc'[t] = "schema_set"
        /\ WriteEntry(TxCommit(req[t].c, t)) /\ UNCHANGED <<cols, docs, failed>>
    BY <1>3, OthersStayAt DEF SchemaCommit, memory
  <2>2. InTx(t) /\ ~ InTx(t)' /\ InTxOK(t) /\ TxAtom(t) /\ Scope(t) = {}
    BY <2>1 DEF InTx, DurableInv, AtomInv, Scope
  <2>3. AtomInv'
    BY <2>1, <2>2, AtomCommit
  <2>4. wal'.durable = wal.pending
    BY <2>1, <2>2, TypeFacts, BufferCommitted DEF InTxOK
  <2>5. wal.pending.docs = wal.durable.docs
    <3>1. \A c \in Collections, k \in Keys : wal.pending.docs[c][k] = wal.durable.docs[c][k]
      BY <2>2 DEF TxAtom, Untouched
    <3>2. wal.pending.docs \in Documents /\ wal.durable.docs \in Documents
      BY TypeFacts DEF Db, Documents
    <3>3. \A c \in Collections : wal.pending.docs[c] = wal.durable.docs[c]
      BY <3>1, <3>2 DEF Documents
    <3> QED
      BY <3>2, <3>3 DEF Documents
  <2> QED
    BY <2>1, <2>3, <2>4, <2>5, Kinds, MapMoves DEF AtomStep
<1>4. CASE SchemaSet(t)
  <2>1. /\ pc[t] = "schema_set" /\ pc'[t] = "idle" /\ OthersStay(t)
        /\ UNCHANGED <<cols, docs, failed, wal>>
    BY <1>4, OthersStayAt DEF SchemaSet
  <2>2. \A u \in Workers : u # t => Stays(u)
    BY <1>4, ReturnStays DEF SchemaSet
  <2>3. ~ InTx(t)'
    BY <2>1 DEF InTx
  <2>4. AtomInv'
    BY <2>1, <2>2, <2>3, AtomIdle
  <2> QED
    BY <2>1, <2>2, <2>4, Kinds, MapMoves DEF AtomStep, Stays
<1> QED
  BY <1>1, <1>2, <1>3, <1>4

LEMMA AtomSubmit ==
    ASSUME TypeInv, TypeInv', AtomInv, NEW t \in Workers, NEW c \in Collections,
           NEW r \in Requests(c), Submit(t, r)
    PROVE  AtomStep
<1>1. pc[t] = "idle" /\ pc'[t] = r.op /\ r.op \in AllOps /\ OthersStay(t)
  BY OpsAssumption, OthersStayAt DEF Submit
<1>2. ~ InTx(t)' /\ UNCHANGED <<cols, docs, wal, failed>> /\ req'[t] \in Request
  BY <1>1 DEF InTx, AllOps, Submit, memory, TypeInv, TypeOK
<1>3. \A u \in Workers : u # t => Stays(u)
  BY GotoStays DEF Submit
<1>4. AtomInv'
  BY <1>2, <1>3, AtomIdle
<1>5. CASE r.op \in {"delete_n", "delete_filtered", "set_schema"}
  BY <1>1, <1>2, <1>3, <1>4, <1>5, Kinds, MapMoves DEF AtomStep, Stays
<1>6. CASE r.op \in {"insert", "update", "delete", "delete_collection"}
  <2>1. /\ WriteKind(pc[t]) = "none"
        /\ WriteKind(pc'[t]) \in {"put", "patch", "remove", "drop"}
    BY <1>1, <1>6, Kinds
  <2> QED
    BY <1>2, <1>3, <1>4, <2>1, MapAccept DEF AtomStep
<1> QED
  BY <1>1, <1>5, <1>6 DEF AllOps

LEMMA AtomNext ==
    TypeInv /\ TypeInv' /\ OneWriter /\ OneWriter' /\ DurableInv /\ AtomInv /\ KeyInv
      /\ [Next]_vars => AtomStep
<1> SUFFICES ASSUME TypeInv, TypeInv', OneWriter, OneWriter', DurableInv, AtomInv, KeyInv,
                    [Next]_vars
             PROVE  AtomStep
  OBVIOUS
<1>1. CASE \E t \in Workers, c \in Collections : \E r \in Requests(c) : Submit(t, r)
  BY <1>1, AtomSubmit
<1>2. CASE \E t \in Workers : Step(t)
  <2>1. PICK t \in Workers : Step(t)
    BY <1>2
  <2> QED
    BY <2>1, AtomInsert, AtomDelete, AtomUpdate, AtomDrop, AtomSchema DEF Step
<1>3. CASE CrashAndReopen
  <2>1. AtomInv' /\ wal' = wal /\ \A u \in Workers : pc'[u] = "idle"
    BY <1>3, AtomCrash DEF CrashAndReopen
  <2>2. \A u \in Workers : PendingWrite(u)' = NoWrite
    BY <2>1, Kinds DEF PendingWrite
  <2>3. Pending' = [u \in Workers |-> NoWrite]
    BY <2>2 DEF Pending
  <2>4. Abstract!Crash
    BY <2>1, <2>3 DEF Abstract!Crash, Pending
  <2> QED
    BY <2>1, <2>4 DEF AtomStep, AbstractStep, Abstract!Next
<1>4. CASE UNCHANGED vars
  <2>1. wal' = wal /\ \A u \in Workers : PendingWrite(u)' = PendingWrite(u)
    BY <1>4 DEF vars, PendingWrite
  <2>2. AbstractStep
    BY <2>1, MapStutter
  <2>3. FailedAhead(wal.durable)' /\ NoGhosts'
    BY <1>4 DEF vars, AtomInv, FailedAhead, NoGhosts
  <2>4. \A u \in Workers : InTx(u)' => InTx(u)
    BY <1>4 DEF vars, InTx
  <2>5. ASSUME NEW u \in Workers PROVE TxAtom(u)' = TxAtom(u)
    <3>1. FailedAhead(wal.pending)' = FailedAhead(wal.pending) /\ Untouched(u)' = Untouched(u)
      BY <1>4 DEF vars, FailedAhead, Untouched, Scope
    <3>2. \A k : Old(u, k)' = Old(u, k) /\ New(u, k)' = New(u, k) /\ Renewed(u, k)' = Renewed(u, k)
      BY <1>4 DEF vars, Old, New, Renewed
    <3>3. /\ InsertPromise(u)' = InsertPromise(u) /\ DeletePromise(u)' = DeletePromise(u)
          /\ UpdatePromise(u)' = UpdatePromise(u) /\ DropPromise(u)' = DropPromise(u)
      BY <1>4, <3>2 DEF vars, InsertPromise, DeletePromise, UpdatePromise, DropPromise, Done
    <3> QED
      BY <3>1, <3>3 DEF TxAtom
  <2>6. AtomInv'
    BY <2>3, <2>4, <2>5 DEF AtomInv
  <2> QED
    BY <2>2, <2>6 DEF AtomStep
<1> QED
  BY <1>1, <1>2, <1>3, <1>4 DEF Next, Wait

LEMMA AtomInit == Init => AtomInv /\ KeyInv /\ Abstract!Init
<1> SUFFICES ASSUME Init PROVE AtomInv /\ KeyInv /\ Abstract!Init
  OBVIOUS
<1>1. AtomInv
  BY DEF Init, AtomInv, FailedAhead, NoGhosts, InTx, NoDocs
<1>2. KeyInv
  BY DEF Init, KeyInv, Patching
<1>3. \A u \in Workers : PendingWrite(u) = NoWrite
  BY Kinds DEF Init, PendingWrite
<1>4. wal.durable.docs = [c \in Collections |-> [k \in Keys |-> NoDoc]]
  BY DEF Init, EmptyLog, LogOf, EmptyDb, DbOf, NoDocs
<1>5. Abstract!Init
  BY <1>3, <1>4 DEF Abstract!Init
<1> QED
  BY <1>1, <1>2, <1>5

(***************************************************************************)
(* Under the same condition the log makes every write atomic: what a       *)
(* restart brings back changes only by one accepted write taking its whole *)
(* effect (a batch with each of its documents, a deletion, an update, a    *)
(* drop), never by part of one and never by a refused or crashed request.  *)
(***************************************************************************)
THEOREM EngineWritesAtomic == Spec /\ []OneWriter => WritesAreAtomic
<1> DEFINE All == TypeInv /\ DurableInv /\ AtomInv /\ KeyInv
<1>1. Init => All /\ Abstract!Init
  BY TypeInit, DurableInit, AtomInit
<1>2. All /\ OneWriter /\ OneWriter' /\ [Next]_vars
         => All' /\ [Abstract!Next]_(Abstract!vars)
  BY TypeStep, DurableStep, KeyStep, AtomNext DEF AtomStep, AbstractStep
<1> HIDE DEF All
<1> QED
  BY <1>1, <1>2, PTL DEF Spec, WritesAreAtomic, Abstract!Spec

(* Concurrent batches inserted into one collection are atomic. *)
COROLLARY EngineWritesAtomicInserts ==
    ASSUME Ops \subseteq {"insert"}, \A c, d \in Collections : c = d,
           \A c \in Collections : MaxSize[c] = NoCap
    PROVE  Spec => WritesAreAtomic
BY InsertsSerialised, EngineWritesAtomic, PTL
-----------------------------------------------------------------------------
(***************************************************************************)
(* Versions.  The guard of a collection keeps inserts and drops away while *)
(* an update holds a document, but not other updates and deletes.          *)
(***************************************************************************)
SharedPlaces == {"update_write", "update_log", "update_commit", "delete_keys", "delete_log"}

(* No request updates or deletes a document that an update has read and not written yet. *)
UpdateAlone ==
    \A t, u \in Workers :
       t # u /\ pc[t] = "update_write" /\ req[u].c = req[t].c
         => /\ pc[u] = "update_write" => key[u] # key[t]
            /\ pc[u] = "delete_keys" => key[t] \notin todo[u]

(* What the guards exclude. *)
Locked ==
    \A t, u \in Workers :
       t # u /\ req[t].c = req[u].c /\ pc[t] = "insert_items"
         => pc[u] \notin SharedPlaces \cup {"insert_items"}

(* The document in the hands of an update continues the stored one. *)
Fresh(t) ==
    pc[t] = "update_write" =>
       LET d == docs[req[t].c][key[t]]
       IN  /\ d # NoDoc
           /\ doc[t].v = d.v + 1 /\ doc[t].seq = d.seq
           /\ req[t].n # NoGuard => d.v = req[t].n

FreshInv == TypeInv /\ Locked /\ \A t \in Workers : Fresh(t)

(* The other workers and their requests stay, and t keeps to the guards. *)
LEMMA LockMoves ==
    ASSUME TypeInv, Locked, NEW t \in Workers,
           \A u \in Workers : u # t => pc'[u] = pc[u] /\ req'[u] = req[u],
           \/ pc'[t] \notin SharedPlaces \cup {"insert_items"}
           \/ /\ req'[t] = req[t]
              /\ pc[t] \in SharedPlaces /\ pc'[t] \in SharedPlaces
           \/ /\ req'[t] = req[t]
              /\ pc'[t] \in SharedPlaces /\ ~Exclusive(req[t].c)
           \/ /\ req'[t] = req[t]
              /\ pc'[t] = "insert_items" /\ ~Exclusive(req[t].c) /\ ~Shared(req[t].c)
    PROVE  Locked'
<1> SUFFICES ASSUME NEW v \in Workers, NEW u \in Workers, v # u,
                    req'[v].c = req'[u].c, pc'[v] = "insert_items"
             PROVE  pc'[u] \notin SharedPlaces \cup {"insert_items"}
  BY DEF Locked
<1>1. CASE v # t /\ u # t
  BY <1>1 DEF Locked
<1>2. CASE v = t
  <2>1. pc'[u] = pc[u] /\ req'[u] = req[u] /\ pc'[t] = "insert_items"
    BY <1>2
  <2>2. req'[t] = req[t] /\ ~Exclusive(req[t].c) /\ ~Shared(req[t].c)
    BY <2>1 DEF SharedPlaces
  <2> QED
    BY <1>2, <2>1, <2>2 DEF Exclusive, Shared, SharedPlaces
<1>3. CASE u = t
  <2>1. pc'[v] = pc[v] /\ req'[v] = req[v] /\ pc[v] = "insert_items"
    BY <1>3
  <2>2. CASE pc'[t] \notin SharedPlaces \cup {"insert_items"}
    BY <1>3, <2>2
  <2>3. CASE req'[t] = req[t] /\ pc[t] \in SharedPlaces
    BY <1>3, <2>1, <2>3 DEF Locked
  <2>4. CASE req'[t] = req[t] /\ ~Exclusive(req[t].c)
    BY <1>3, <2>1, <2>4 DEF Exclusive
  <2> QED
    BY <2>2, <2>3, <2>4
<1> QED
  BY <1>1, <1>2, <1>3

(* A step of worker t that leaves the documents alone and reads none for an update. *)
LEMMA FreshMoves ==
    ASSUME FreshInv, TypeInv', NEW t \in Workers, UNCHANGED docs,
           \A u \in Workers : u # t => Stays(u),
           pc'[t] # "update_write",
           \/ pc'[t] \notin SharedPlaces \cup {"insert_items"}
           \/ /\ req'[t] = req[t]
              /\ pc[t] \in SharedPlaces /\ pc'[t] \in SharedPlaces
           \/ /\ req'[t] = req[t]
              /\ pc'[t] \in SharedPlaces /\ ~Exclusive(req[t].c)
           \/ /\ req'[t] = req[t]
              /\ pc'[t] = "insert_items" /\ ~Exclusive(req[t].c) /\ ~Shared(req[t].c)
    PROVE  FreshInv'
<1>1. Locked'
  <2>1. \A u \in Workers : u # t => pc'[u] = pc[u] /\ req'[u] = req[u]
    BY DEF Stays
  <2> QED
    BY <2>1, LockMoves DEF FreshInv
<1>2. ASSUME NEW u \in Workers PROVE Fresh(u)'
  <2>1. CASE u = t
    BY <2>1 DEF Fresh
  <2>2. CASE u # t
    BY <2>2 DEF Fresh, FreshInv, Stays
  <2> QED
    BY <2>1, <2>2
<1> QED
  BY <1>1, <1>2 DEF FreshInv

(* A step of worker t that changes documents no update has in hand. *)
LEMMA FreshWrites ==
    ASSUME FreshInv, TypeInv', NEW t \in Workers,
           \A u \in Workers : u # t => Stays(u),
           \A u \in Workers : u # t /\ pc[u] = "update_write"
              => docs'[req[u].c][key[u]] = docs[req[u].c][key[u]],
           pc'[t] # "update_write", Locked'
    PROVE  FreshInv'
<1>2. ASSUME NEW u \in Workers PROVE Fresh(u)'
  <2>1. CASE u = t
    BY <2>1 DEF Fresh
  <2>2. CASE u # t
    <3>1. Fresh(u) /\ Stays(u)
      BY <2>2 DEF FreshInv
    <3>2. pc'[u] = "update_write" => docs'[req'[u].c][key'[u]] = docs[req[u].c][key[u]]
      BY <2>2, <3>1 DEF Stays
    <3> QED
      BY <3>1, <3>2 DEF Fresh, Stays
  <2> QED
    BY <2>1, <2>2
<1> QED
  BY <1>2 DEF FreshInv

(* Only documents of the request's collection change. *)
LEMMA OtherCollections ==
    ASSUME TypeInv, NEW c \in Collections, NEW u \in Workers, req[u].c # c,
           (\E m : docs' = [docs EXCEPT ![c] = m]) \/ (\E k, d : docs' = [docs EXCEPT ![c][k] = d])
    PROVE  docs'[req[u].c][key[u]] = docs[req[u].c][key[u]]
<1>1. req[u].c \in Collections /\ docs \in Documents
  BY TypeFacts
<1> QED
  BY <1>1 DEF Documents

LEMMA FreshInsert ==
    ASSUME FreshInv, TypeInv', NEW t \in Workers
    PROVE  /\ InsertBegin(t) => FreshInv'
           /\ \A k \in Keys : InsertItem(t, k) => FreshInv'
           /\ \A k \in Keys : InsertInvalid(t, k) => FreshInv'
           /\ InsertCommit(t) => FreshInv'
           /\ CheckMaxSize(t) => FreshInv'
<1>0. TypeInv /\ req[t].c \in Collections
  BY TypeFacts DEF FreshInv
<1>1. ASSUME InsertBegin(t) PROVE FreshInv'
  <2>1. \A u \in Workers : u # t => Stays(u)
    BY <1>0, <1>1 DEF InsertBegin, Goto, Stays, TypeInv, TypeOK
  <2>2. pc'[t] = "insert_items" /\ req' = req /\ UNCHANGED docs
        /\ ~Exclusive(req[t].c) /\ ~Shared(req[t].c)
    BY <1>0, <1>1, OthersStayAt DEF InsertBegin
  <2> QED
    BY <2>1, <2>2, FreshMoves
<1>2. ASSUME NEW k \in Keys, InsertItem(t, k) PROVE FreshInv'
  <2>1. \A u \in Workers : u # t => Stays(u)
    BY <1>0, <1>2 DEF InsertItem, Stays, TypeInv, TypeOK
  <2>2. pc' = pc /\ req' = req /\ pc[t] = "insert_items"
    BY <1>2 DEF InsertItem
  <2>3. ASSUME NEW u \in Workers, u # t, pc[u] = "update_write"
        PROVE  docs'[req[u].c][key[u]] = docs[req[u].c][key[u]]
    <3>1. req[u].c # req[t].c
      BY <2>2, <2>3 DEF FreshInv, Locked, SharedPlaces
    <3>2. \E kk, d : docs' = [docs EXCEPT ![req[t].c][kk] = d]
      BY <1>2 DEF InsertItem
    <3> QED
      BY <1>0, <3>1, <3>2, OtherCollections
  <2>4. Locked'
    BY <2>2 DEF FreshInv, Locked
  <2> QED
    BY <2>1, <2>2, <2>3, <2>4, FreshWrites
<1>3. ASSUME NEW k \in Keys, InsertInvalid(t, k) PROVE FreshInv'
  <2>1. Return(t) /\ UNCHANGED docs
    BY <1>3 DEF InsertInvalid
  <2> QED
    BY <1>0, <2>1, OthersStayAt, ReturnStays, FreshMoves DEF SharedPlaces
<1>4. ASSUME InsertCommit(t) PROVE FreshInv'
  <2>1. CASE Return(t)
    BY <1>0, <1>4, <2>1, OthersStayAt, ReturnStays, FreshMoves DEF SharedPlaces, InsertCommit, memory
  <2>2. CASE Goto(t, "max_size") /\ UNCHANGED <<req, todo, key, doc>>
    BY <1>0, <1>4, <2>2, OthersStayAt, GotoStays, FreshMoves DEF SharedPlaces, InsertCommit, memory
  <2> QED
    BY <1>4, <2>1, <2>2 DEF InsertCommit
<1>5. ASSUME CheckMaxSize(t) PROVE FreshInv'
  <2>1. CASE Return(t)
    BY <1>0, <1>5, <2>1, OthersStayAt, ReturnStays, FreshMoves DEF SharedPlaces, CheckMaxSize, memory
  <2>2. CASE Goto(t, "evict") /\ UNCHANGED <<todo, key, doc>> /\ \E r : req' = [req EXCEPT ![t] = r]
    BY <1>0, <1>5, <2>2, OthersStayAt, GotoStays, FreshMoves DEF SharedPlaces, CheckMaxSize, memory
  <2> QED
    BY <1>5, <2>1, <2>2 DEF CheckMaxSize
<1> QED
  BY <1>1, <1>2, <1>3, <1>4, <1>5

LEMMA FreshDelete ==
    ASSUME FreshInv, TypeInv', UpdateAlone, NEW t \in Workers
    PROVE  /\ \A chosen : Select(t, chosen) => FreshInv'
           /\ SelectNothing(t) => FreshInv'
           /\ DeleteBegin(t) => FreshInv'
           /\ DeleteGet(t) => FreshInv'
           /\ \A k \in Keys : DeleteKey(t, k) => FreshInv'
           /\ DeleteLog(t) => FreshInv'
           /\ DeleteCommit(t) => FreshInv'
<1>0. TypeInv /\ req[t].c \in Collections
  BY TypeFacts DEF FreshInv
<1>1. ASSUME NEW chosen, Select(t, chosen) PROVE FreshInv'
  <2>1. /\ Goto(t, "delete") /\ UNCHANGED <<docs, todo, key, doc>>
        /\ \E r : req' = [req EXCEPT ![t] = r]
    BY <1>1 DEF Select, memory
  <2>2. pc'[t] = "delete"
    BY <1>0, <2>1, OthersStayAt
  <2>3. \A u \in Workers : u # t => Stays(u)
    BY <1>0, <2>1, GotoStays
  <2> QED
    BY <2>1, <2>2, <2>3, FreshMoves DEF SharedPlaces
<1>2. ASSUME SelectNothing(t) PROVE FreshInv'
  BY <1>0, <1>2, OthersStayAt, ReturnStays, FreshMoves DEF SharedPlaces, SelectNothing, memory
<1>3. ASSUME DeleteBegin(t) PROVE FreshInv'
  BY <1>0, <1>3, OthersStayAt, GotoStays, FreshMoves DEF SharedPlaces, DeleteBegin, memory
<1>4. ASSUME DeleteGet(t) PROVE FreshInv'
  <2>1. \A u \in Workers : u # t => Stays(u)
    BY <1>0, <1>4 DEF DeleteGet, Goto, Stays, TypeInv, TypeOK
  <2>2. pc'[t] \in {"delete_keys", "delete_commit"} /\ req' = req /\ UNCHANGED docs
        /\ ~Exclusive(req[t].c)
    BY <1>0, <1>4, OthersStayAt DEF DeleteGet, memory
  <2> QED
    BY <2>1, <2>2, FreshMoves DEF SharedPlaces
<1>5. ASSUME NEW k \in Keys, DeleteKey(t, k) PROVE FreshInv'
  <2>1. \A u \in Workers : u # t => Stays(u)
    BY <1>0, <1>5 DEF DeleteKey, Goto, Stays, TypeInv, TypeOK
  <2>2. /\ pc[t] = "delete_keys" /\ pc'[t] = "delete_log" /\ req' = req /\ k \in todo[t]
        /\ docs' = [docs EXCEPT ![req[t].c][k] = NoDoc]
    BY <1>0, <1>5, OthersStayAt DEF DeleteKey
  <2>3. ASSUME NEW u \in Workers, u # t, pc[u] = "update_write"
        PROVE  docs'[req[u].c][key[u]] = docs[req[u].c][key[u]]
    <3>1. CASE req[u].c # req[t].c
      BY <1>0, <2>2, <3>1, OtherCollections
    <3>2. CASE req[u].c = req[t].c
      <4>1. key[u] # k
        BY <2>2, <2>3, <3>2 DEF UpdateAlone
      <4>2. docs \in Documents
        BY <1>0, TypeFacts
      <4> QED
        BY <1>0, <2>2, <3>2, <4>1, <4>2 DEF Documents
    <3> QED
      BY <3>1, <3>2
  <2>4. Locked'
    <3>1. \A u \in Workers : u # t => pc'[u] = pc[u] /\ req'[u] = req[u]
      BY <2>1 DEF Stays
    <3> QED
      BY <2>2, <3>1, LockMoves DEF FreshInv, SharedPlaces
  <2> QED
    BY <2>1, <2>2, <2>3, <2>4, FreshWrites
<1>6. ASSUME DeleteLog(t) PROVE FreshInv'
  <2>1. pc[t] = "delete_log" /\ pc'[t] \in {"delete_keys", "delete_commit"}
    BY <1>0, <1>6, OthersStayAt DEF DeleteLog
  <2> QED
    BY <1>0, <1>6, <2>1, GotoStays, FreshMoves DEF SharedPlaces, DeleteLog, memory
<1>7. ASSUME DeleteCommit(t) PROVE FreshInv'
  BY <1>0, <1>7, OthersStayAt, ReturnStays, FreshMoves DEF SharedPlaces, DeleteCommit, memory
<1> QED
  BY <1>1, <1>2, <1>3, <1>4, <1>5, <1>6, <1>7

LEMMA FreshUpdate ==
    ASSUME FreshInv, TypeInv', UpdateAlone, NEW t \in Workers
    PROVE  /\ UpdateBegin(t) => FreshInv'
           /\ \A k \in Keys : UpdateRead(t, k) => FreshInv'
           /\ \A k \in Keys : UpdateRejected(t, k) => FreshInv'
           /\ \A k \in Keys : UpdateAbsent(t, k) => FreshInv'
           /\ UpdateWrite(t) => FreshInv'
           /\ UpdateLog(t) => FreshInv'
           /\ UpdateCommit(t) => FreshInv'
<1>0. TypeInv /\ req[t].c \in Collections /\ key[t] \in Keys /\ docs \in Documents
  BY TypeFacts DEF FreshInv
<1>1. ASSUME UpdateBegin(t) PROVE FreshInv'
  BY <1>0, <1>1, OthersStayAt, GotoStays, FreshMoves DEF SharedPlaces, UpdateBegin, memory
<1>2. ASSUME NEW k \in Keys, UpdateRead(t, k) PROVE FreshInv'
  <2>1. \A u \in Workers : u # t => Stays(u)
    BY <1>0, <1>2 DEF UpdateRead, Goto, Stays, TypeInv, TypeOK
  <2>2. /\ pc'[t] = "update_write" /\ req' = req /\ docs' = docs /\ key'[t] = k
        /\ doc'[t] = Patched(docs[req[t].c][k], req[t].body[k])
        /\ ~Exclusive(req[t].c)
        /\ docs[req[t].c][k] # NoDoc /\ ~Conflict(req[t], docs[req[t].c][k])
    BY <1>0, <1>2, OthersStayAt DEF UpdateRead, memory, TypeInv, TypeOK
  <2>3. Locked'
    <3>1. \A u \in Workers : u # t => pc'[u] = pc[u] /\ req'[u] = req[u]
      BY <2>1 DEF Stays
    <3> QED
      BY <2>2, <3>1, LockMoves DEF FreshInv, SharedPlaces
  <2>4. ASSUME NEW u \in Workers PROVE Fresh(u)'
    <3>1. CASE u = t
      BY <2>2, <3>1 DEF Fresh, Patched, Conflict
    <3>2. CASE u # t
      BY <2>1, <2>2, <3>2 DEF Fresh, FreshInv, Stays
    <3> QED
      BY <3>1, <3>2
  <2> QED
    BY <2>3, <2>4 DEF FreshInv
<1>3. ASSUME NEW k \in Keys, UpdateRejected(t, k) PROVE FreshInv'
  BY <1>0, <1>3, OthersStayAt, ReturnStays, FreshMoves DEF SharedPlaces, UpdateRejected, memory
<1>4. ASSUME NEW k \in Keys, UpdateAbsent(t, k) PROVE FreshInv'
  BY <1>0, <1>4, OthersStayAt, GotoStays, FreshMoves DEF SharedPlaces, UpdateAbsent, memory
<1>5. ASSUME UpdateWrite(t) PROVE FreshInv'
  <2>1. \A u \in Workers : u # t => Stays(u)
    BY <1>0, <1>5, GotoStays DEF UpdateWrite
  <2>2. /\ pc[t] = "update_write" /\ pc'[t] = "update_log" /\ req' = req
        /\ docs' = [docs EXCEPT ![req[t].c][key[t]] = doc[t]]
    BY <1>0, <1>5, OthersStayAt DEF UpdateWrite
  <2>3. ASSUME NEW u \in Workers, u # t, pc[u] = "update_write"
        PROVE  docs'[req[u].c][key[u]] = docs[req[u].c][key[u]]
    <3>1. CASE req[u].c # req[t].c
      BY <1>0, <2>2, <3>1, OtherCollections
    <3>2. CASE req[u].c = req[t].c
      <4>1. key[u] # key[t]
        BY <2>2, <2>3, <3>2 DEF UpdateAlone
      <4> QED
        BY <1>0, <2>2, <3>2, <4>1 DEF Documents
    <3> QED
      BY <3>1, <3>2
  <2>4. Locked'
    <3>1. \A u \in Workers : u # t => pc'[u] = pc[u] /\ req'[u] = req[u]
      BY <2>1 DEF Stays
    <3> QED
      BY <2>2, <3>1, LockMoves DEF FreshInv, SharedPlaces
  <2> QED
    BY <2>1, <2>2, <2>3, <2>4, FreshWrites
<1>6. ASSUME UpdateLog(t) PROVE FreshInv'
  <2>1. pc[t] = "update_log" /\ pc'[t] = "update_commit"
    BY <1>0, <1>6, OthersStayAt DEF UpdateLog
  <2> QED
    BY <1>0, <1>6, <2>1, GotoStays, FreshMoves DEF SharedPlaces, UpdateLog, memory
<1>7. ASSUME UpdateCommit(t) PROVE FreshInv'
  BY <1>0, <1>7, OthersStayAt, ReturnStays, FreshMoves DEF SharedPlaces, UpdateCommit, memory
<1> QED
  BY <1>1, <1>2, <1>3, <1>4, <1>5, <1>6, <1>7

LEMMA FreshDrop ==
    ASSUME FreshInv, TypeInv', NEW t \in Workers
    PROVE  /\ DropBegin(t) => FreshInv'
           /\ DropState(t) => FreshInv'
           /\ DropIndex(t) => FreshInv'
           /\ DropLog(t) => FreshInv'
           /\ DropCommit(t) => FreshInv'
           /\ DropCounter(t) => FreshInv'
<1>0. TypeInv /\ req[t].c \in Collections
  BY TypeFacts DEF FreshInv
<1>1. ASSUME DropBegin(t) PROVE FreshInv'
  BY <1>0, <1>1, OthersStayAt, GotoStays, FreshMoves DEF SharedPlaces, DropBegin, memory
<1>2. ASSUME DropState(t) PROVE FreshInv'
  <2>1. \A u \in Workers : u # t => Stays(u)
    BY <1>0, <1>2, GotoStays DEF DropState
  <2>2. /\ pc'[t] = "drop_index" /\ req' = req /\ ~Shared(req[t].c)
        /\ docs' = [docs EXCEPT ![req[t].c] = NoDocs]
    BY <1>0, <1>2, OthersStayAt DEF DropState
  <2>3. ASSUME NEW u \in Workers, u # t, pc[u] = "update_write"
        PROVE  docs'[req[u].c][key[u]] = docs[req[u].c][key[u]]
    <3>1. req[u].c # req[t].c
      BY <2>2, <2>3 DEF Shared
    <3> QED
      BY <1>0, <2>2, <3>1, OtherCollections
  <2>4. Locked'
    <3>1. \A u \in Workers : u # t => pc'[u] = pc[u] /\ req'[u] = req[u]
      BY <2>1 DEF Stays
    <3> QED
      BY <2>2, <3>1, LockMoves DEF FreshInv, SharedPlaces
  <2> QED
    BY <2>1, <2>2, <2>3, <2>4, FreshWrites
<1>3. ASSUME DropIndex(t) PROVE FreshInv'
  BY <1>0, <1>3, OthersStayAt, GotoStays, FreshMoves DEF SharedPlaces, DropIndex
<1>4. ASSUME DropLog(t) PROVE FreshInv'
  BY <1>0, <1>4, OthersStayAt, GotoStays, FreshMoves DEF SharedPlaces, DropLog, memory
<1>5. ASSUME DropCommit(t) PROVE FreshInv'
  BY <1>0, <1>5, OthersStayAt, GotoStays, FreshMoves DEF SharedPlaces, DropCommit, memory
<1>6. ASSUME DropCounter(t) PROVE FreshInv'
  BY <1>0, <1>6, OthersStayAt, ReturnStays, FreshMoves DEF SharedPlaces, DropCounter
<1> QED
  BY <1>1, <1>2, <1>3, <1>4, <1>5, <1>6

LEMMA FreshSchema ==
    ASSUME FreshInv, TypeInv', NEW t \in Workers
    PROVE  /\ SchemaBegin(t) => FreshInv'
           /\ SchemaLog(t) => FreshInv'
           /\ SchemaCommit(t) => FreshInv'
           /\ SchemaSet(t) => FreshInv'
<1>0. TypeInv
  BY DEF FreshInv
<1>1. ASSUME SchemaBegin(t) PROVE FreshInv'
  BY <1>0, <1>1, OthersStayAt, GotoStays, FreshMoves DEF SharedPlaces, SchemaBegin, memory
<1>2. ASSUME SchemaLog(t) PROVE FreshInv'
  BY <1>0, <1>2, OthersStayAt, GotoStays, FreshMoves DEF SharedPlaces, SchemaLog, memory
<1>3. ASSUME SchemaCommit(t) PROVE FreshInv'
  BY <1>0, <1>3, OthersStayAt, GotoStays, FreshMoves DEF SharedPlaces, SchemaCommit, memory
<1>4. ASSUME SchemaSet(t) PROVE FreshInv'
  BY <1>0, <1>4, OthersStayAt, ReturnStays, FreshMoves DEF SharedPlaces, SchemaSet
<1> QED
  BY <1>1, <1>2, <1>3, <1>4

LEMMA FreshStep == FreshInv /\ UpdateAlone /\ [Next]_vars => FreshInv'
<1> SUFFICES ASSUME FreshInv, UpdateAlone, [Next]_vars PROVE FreshInv'
  OBVIOUS
<1>0. TypeInv /\ TypeInv'
  BY TypeStep DEF FreshInv
<1>1. ASSUME NEW t \in Workers, NEW c \in Collections, NEW r \in Requests(c), Submit(t, r)
      PROVE  FreshInv'
  <2>1. pc'[t] = r.op /\ r.op \in AllOps
    BY <1>0, <1>1, OpsAssumption, OthersStayAt DEF Submit
  <2>2. pc'[t] \notin SharedPlaces \cup {"insert_items"}
    BY <2>1 DEF AllOps, SharedPlaces
  <2>3. \A u \in Workers : u # t => Stays(u)
    BY <1>0, <1>1, GotoStays DEF Submit
  <2>4. UNCHANGED docs
    BY <1>1 DEF Submit, memory
  <2> QED
    BY <1>0, <2>2, <2>3, <2>4, FreshMoves DEF SharedPlaces
<1>2. ASSUME NEW t \in Workers, Step(t) PROVE FreshInv'
  BY <1>0, <1>2, FreshInsert, FreshDelete, FreshUpdate, FreshDrop, FreshSchema DEF Step
<1>3. CASE CrashAndReopen
  BY <1>0, <1>3 DEF CrashAndReopen, FreshInv, Locked, Fresh
<1>4. CASE UNCHANGED vars
  BY <1>0, <1>4 DEF vars, FreshInv, Locked, Fresh
<1> QED
  BY <1>1, <1>2, <1>3, <1>4 DEF Next, Wait

LEMMA FreshInit == Init => FreshInv
BY TypeInit DEF Init, FreshInv, Locked, Fresh

(* What a step does to a stored document: another version, or nothing is left. *)
LEMMA VersionStep ==
    ASSUME FreshInv, [Next]_vars, crashes' = crashes, NEW c \in Collections, NEW k \in Keys,
           docs[c][k] # NoDoc, docs'[c][k] # NoDoc, docs'[c][k] # docs[c][k]
    PROVE  docs'[c][k].v = docs[c][k].v + 1 /\ docs'[c][k].seq = docs[c][k].seq
<1>0. TypeInv /\ docs \in Documents
  BY DEF FreshInv, TypeInv, TypeOK, Documents
<1>1. docs' # docs
  OBVIOUS
<1>2. ASSUME NEW t \in Workers, NEW l \in Keys, InsertItem(t, l)
      PROVE  docs'[c][k].v = docs[c][k].v + 1 /\ docs'[c][k].seq = docs[c][k].seq
  <2>1. docs' = [docs EXCEPT ![req[t].c][l] =
                    Stored(docs[req[t].c][l], seq_counters[req[t].c], req[t].body[l])]
    BY <1>2 DEF InsertItem
  <2>0. req[t].c \in Collections
    BY <1>0, TypeFacts
  <2>2. c = req[t].c /\ k = l
    BY <1>0, <2>0, <2>1 DEF Documents
  <2>3. docs'[c][k] = Stored(docs[c][k], seq_counters[c], req[t].body[k])
    BY <1>0, <2>1, <2>2 DEF Documents
  <2> QED
    BY <2>3 DEF Stored
<1>3. ASSUME NEW t \in Workers, NEW l \in Keys, DeleteKey(t, l) PROVE FALSE
  <2>1. req[t].c \in Collections
    BY <1>0, TypeFacts
  <2> QED
    BY <1>0, <1>3, <2>1 DEF DeleteKey, Documents
<1>4. ASSUME NEW t \in Workers, UpdateWrite(t)
      PROVE  docs'[c][k].v = docs[c][k].v + 1 /\ docs'[c][k].seq = docs[c][k].seq
  <2>1. docs' = [docs EXCEPT ![req[t].c][key[t]] = doc[t]] /\ pc[t] = "update_write"
    BY <1>4 DEF UpdateWrite
  <2>0. req[t].c \in Collections /\ key[t] \in Keys
    BY <1>0, TypeFacts
  <2>2. c = req[t].c /\ k = key[t]
    BY <1>0, <2>0, <2>1 DEF Documents
  <2>3. docs'[c][k] = doc[t]
    BY <1>0, <2>1, <2>2 DEF Documents
  <2> QED
    BY <2>1, <2>2, <2>3 DEF FreshInv, Fresh
<1>5. ASSUME NEW t \in Workers, DropState(t) PROVE FALSE
  <2>1. req[t].c \in Collections
    BY <1>0, TypeFacts
  <2> QED
    BY <1>0, <1>5, <2>1 DEF DropState, Documents, NoDocs
<1>6. ASSUME NEW t \in Workers, NEW d \in Collections, NEW r \in Requests(d), Submit(t, r)
      PROVE FALSE
  BY <1>1, <1>6 DEF Submit, memory
<1>7. ASSUME NEW t \in Workers, Step(t)
      PROVE  docs'[c][k].v = docs[c][k].v + 1 /\ docs'[c][k].seq = docs[c][k].seq
  <2>1. ~ (InsertBegin(t) \/ InsertCommit(t) \/ CheckMaxSize(t) \/ \E l \in Keys : InsertInvalid(t, l))
    BY <1>1 DEF InsertBegin, InsertCommit, CheckMaxSize, InsertInvalid, memory
  <2>2. ~ ((\E chosen : Select(t, chosen)) \/ SelectNothing(t))
    BY <1>1 DEF Select, SelectNothing, memory
  <2>3. ~ (DeleteBegin(t) \/ DeleteGet(t) \/ DeleteLog(t) \/ DeleteCommit(t))
    BY <1>1 DEF DeleteBegin, DeleteGet, DeleteLog, DeleteCommit, memory
  <2>4. ~ (\/ UpdateBegin(t) \/ UpdateLog(t) \/ UpdateCommit(t)
           \/ \E l \in Keys : UpdateRead(t, l) \/ UpdateRejected(t, l) \/ UpdateAbsent(t, l))
    BY <1>1 DEF UpdateBegin, UpdateLog, UpdateCommit, UpdateRead, UpdateRejected, UpdateAbsent, memory
  <2>5. ~ (DropBegin(t) \/ DropIndex(t) \/ DropLog(t) \/ DropCommit(t) \/ DropCounter(t))
    BY <1>1 DEF DropBegin, DropIndex, DropLog, DropCommit, DropCounter, memory
  <2>6. ~ (SchemaBegin(t) \/ SchemaLog(t) \/ SchemaCommit(t) \/ SchemaSet(t))
    BY <1>1 DEF SchemaBegin, SchemaLog, SchemaCommit, SchemaSet, memory
  <2> QED
    BY <1>2, <1>3, <1>4, <1>5, <1>7, <2>1, <2>2, <2>3, <2>4, <2>5, <2>6 DEF Step
<1>8. ~ CrashAndReopen
  <2>1. crashes \in Nat
    BY <1>0 DEF TypeInv, TypeOK
  <2> QED
    BY <2>1 DEF CrashAndReopen
<1>9. ~ UNCHANGED vars
  BY <1>1 DEF vars
<1> QED
  BY <1>6, <1>7, <1>8, <1>9 DEF Next, Wait

(***************************************************************************)
(* As long as no request updates or deletes a document between the read    *)
(* and the write of another update, _v names one content of a document:    *)
(* every change counts it up by one and keeps the _seq, whatever requests  *)
(* run concurrently (set.rs, update.rs).                                   *)
(***************************************************************************)
THEOREM EngineVersionNames == Spec /\ []UpdateAlone => VersionNamesContent
<1> DEFINE Named == crashes' = crashes =>
        \A c \in Collections, k \in Keys :
           LET d == docs[c][k]
               e == docs'[c][k]
           IN  d # NoDoc /\ e # NoDoc /\ d # e => e.v = d.v + 1 /\ e.seq = d.seq
<1>1. FreshInv /\ [Next]_vars => Named
  BY VersionStep
<1>2. UNCHANGED vars => Named
  BY DEF vars
<1>3. VersionNamesContent <=> [][Named]_vars
  BY PTL DEF VersionNamesContent
<1> HIDE DEF Named
<1> QED
  BY <1>1, <1>2, <1>3, FreshInit, FreshStep, PTL DEF Spec

(***************************************************************************)
(* Under the same condition an update that names a version replaces that   *)
(* version and no other (the guard of update.rs); two updates that overlap *)
(* compare before either writes, which is why the condition is needed.     *)
(***************************************************************************)
THEOREM EngineGuardHolds == Spec /\ []UpdateAlone => GuardHolds
<1> DEFINE Guarded == \A t \in Workers :
        pc[t] = "update_write" /\ pc'[t] = "update_log" /\ req[t].n # NoGuard
          => LET d == docs[req[t].c][key[t]]
             IN  d # NoDoc /\ d.v = req[t].n
<1>1. FreshInv => Guarded
  BY DEF FreshInv, Fresh
<1>2. GuardHolds <=> [][Guarded]_vars
  BY PTL DEF GuardHolds
<1> HIDE DEF Guarded
<1> QED
  BY <1>1, <1>2, FreshInit, FreshStep, PTL DEF Spec
-----------------------------------------------------------------------------
(***************************************************************************)
(* Drops.  delete_collection sets the counter back to 0 after its COMMIT   *)
(* and under no guard: what another request stores in between would be     *)
(* above the counter.  So the claim is about drops that run alone.         *)
(***************************************************************************)
DropPlaces == {"drop_state", "drop_index", "drop_log", "drop_commit", "drop_counter"}

(* While a collection is dropped no other request is under way. *)
DropAlone == \A t, u \in Workers : t # u /\ pc[t] \in DropPlaces => pc[u] = "idle"

(* How far a drop has come, in memory, in its transaction and in the durable content. *)
DropOK(t) ==
    LET c == req[t].c
    IN  /\ pc[t] \in DropPlaces \ {"drop_state"} => docs[c] = NoDocs
        /\ pc[t] \in DropPlaces \ {"drop_counter"} => wal.active = t
        /\ pc[t] = "drop_commit" => wal.pending.docs[c] = NoDocs
        /\ pc[t] = "drop_counter" => wal.durable.docs[c] = NoDocs /\ wal.active = NoTx

DropsInv == \A t \in Workers : DropOK(t)

(* Nobody else drops a collection while t is inside a request. *)
LEMMA NoOtherDrop ==
    ASSUME DropAlone, DropAlone', NEW t \in Workers, OthersStay(t),
           pc[t] # "idle" \/ pc'[t] # "idle",
           NEW u \in Workers, u # t
    PROVE  pc[u] \notin DropPlaces /\ pc'[u] \notin DropPlaces
<1>1. pc'[u] = pc[u]
  BY DEF OthersStay
<1>2. CASE pc[t] # "idle"
  BY <1>1, <1>2 DEF DropAlone
<1>3. CASE pc'[t] # "idle"
  BY <1>1, <1>3 DEF DropAlone
<1> QED
  BY <1>2, <1>3

LEMMA DropsElsewhere ==
    ASSUME DropAlone, DropAlone', NEW t \in Workers, OthersStay(t),
           pc[t] # "idle" \/ pc'[t] # "idle", DropOK(t)'
    PROVE  DropsInv'
<1> SUFFICES ASSUME NEW u \in Workers, u # t PROVE DropOK(u)'
  BY DEF DropsInv
<1>1. pc'[u] \notin DropPlaces
  BY NoOtherDrop
<1> QED
  BY <1>1 DEF DropOK, DropPlaces

LEMMA DropsDrop ==
    ASSUME TypeInv, DropAlone, DropAlone', DropsInv, NEW t \in Workers
    PROVE  /\ DropBegin(t) => DropsInv'
           /\ DropState(t) => DropsInv'
           /\ DropIndex(t) => DropsInv'
           /\ DropLog(t) => DropsInv'
           /\ DropCommit(t) => DropsInv'
           /\ DropCounter(t) => DropsInv'
<1> DEFINE c == req[t].c
<1>0. c \in Collections /\ docs \in Documents /\ wal.pending \in Db /\ DropOK(t)
  BY TypeFacts DEF DropsInv
<1>1. ASSUME DropBegin(t) PROVE DropsInv'
  <2>1. OthersStay(t) /\ pc'[t] = "drop_state"
    BY <1>1, OthersStayAt DEF DropBegin
  <2>2. wal' = LogOf(wal.durable, wal.durable, t)
    BY <1>0, <1>1, BeginEntry DEF DropBegin, WriteEntry, TypeInv, Workers
  <2>3. DropOK(t)'
    BY <2>1, <2>2 DEF DropOK, DropPlaces, LogOf
  <2> QED
    BY <2>1, <2>3, DropsElsewhere
<1>2. ASSUME DropState(t) PROVE DropsInv'
  <2>1. OthersStay(t) /\ pc'[t] = "drop_index" /\ pc[t] = "drop_state"
    BY <1>2, OthersStayAt DEF DropState
  <2>2. docs'[c] = NoDocs /\ UNCHANGED <<req, wal>>
    BY <1>0, <1>2 DEF DropState, Documents
  <2>3. DropOK(t)'
    BY <1>0, <2>1, <2>2 DEF DropOK, DropPlaces
  <2> QED
    BY <2>1, <2>3, DropsElsewhere
<1>3. ASSUME DropIndex(t) PROVE DropsInv'
  <2>1. OthersStay(t) /\ pc'[t] = "drop_log" /\ pc[t] = "drop_index"
    BY <1>3, OthersStayAt DEF DropIndex
  <2>2. UNCHANGED <<docs, req, wal>>
    BY <1>3 DEF DropIndex
  <2>3. DropOK(t)'
    BY <1>0, <2>1, <2>2 DEF DropOK, DropPlaces
  <2> QED
    BY <2>1, <2>3, DropsElsewhere
<1>4. ASSUME DropLog(t) PROVE DropsInv'
  <2>1. OthersStay(t) /\ pc'[t] = "drop_commit" /\ pc[t] = "drop_log"
    BY <1>4, OthersStayAt DEF DropLog
  <2>2. UNCHANGED <<docs, req>> /\ WriteEntry(DropEntry(c))
    BY <1>4 DEF DropLog, memory
  <2>3. wal.active = t /\ docs[c] = NoDocs
    BY <1>0, <2>1 DEF DropOK, DropPlaces
  <2>4. Buffered(RemoveCollection(wal.pending, c))
    BY <1>0, <2>2, <2>3, BufferedEntries
  <2>5. wal'.active = t /\ wal'.pending.docs[c] = NoDocs
    BY <1>0, <2>3, <2>4 DEF Buffered, LogOf, RemoveCollection, DbOf, Db
  <2>6. DropOK(t)'
    BY <2>1, <2>2, <2>3, <2>5 DEF DropOK, DropPlaces
  <2> QED
    BY <2>1, <2>6, DropsElsewhere
<1>5. ASSUME DropCommit(t) PROVE DropsInv'
  <2>1. OthersStay(t) /\ pc'[t] = "drop_counter" /\ pc[t] = "drop_commit"
    BY <1>5, OthersStayAt DEF DropCommit
  <2>2. UNCHANGED <<docs, req>> /\ WriteEntry(TxCommit(c, t))
    BY <1>5 DEF DropCommit, memory
  <2>3. wal.active = t /\ docs[c] = NoDocs /\ wal.pending.docs[c] = NoDocs
    BY <1>0, <2>1 DEF DropOK, DropPlaces
  <2>4. wal' = LogOf(wal.pending, wal.pending, NoTx)
    BY <1>0, <2>2, <2>3, CommitEntry DEF WriteEntry, TypeInv, Workers
  <2>5. DropOK(t)'
    BY <2>1, <2>2, <2>3, <2>4 DEF DropOK, DropPlaces, LogOf
  <2> QED
    BY <2>1, <2>5, DropsElsewhere
<1>6. ASSUME DropCounter(t) PROVE DropsInv'
  <2>1. OthersStay(t) /\ pc'[t] = "idle" /\ pc[t] = "drop_counter"
    BY <1>6, OthersStayAt DEF DropCounter
  <2> QED
    BY <2>1, DropsElsewhere DEF DropOK, DropPlaces
<1> QED
  BY <1>1, <1>2, <1>3, <1>4, <1>5, <1>6

(* Where the other operations go. *)
LEMMA OtherPlaces ==
    ASSUME TypeInv, NEW t \in Workers, Step(t),
           ~(DropBegin(t) \/ DropState(t) \/ DropIndex(t) \/ DropLog(t)
               \/ DropCommit(t) \/ DropCounter(t))
    PROVE  /\ OthersStay(t)
           /\ pc[t] # "idle" /\ pc[t] \notin DropPlaces
           /\ pc'[t] \notin DropPlaces
<1>1. CASE \/ InsertBegin(t) \/ CheckMaxSize(t) \/ InsertCommit(t)
           \/ \E k \in Keys : InsertInvalid(t, k)
  BY <1>1, OthersStayAt
  DEF InsertBegin, CheckMaxSize, InsertCommit, InsertInvalid, DropPlaces
<1>2. CASE \E k \in Keys : InsertItem(t, k)
  BY <1>2 DEF InsertItem, OthersStay, DropPlaces
<1>3. CASE \E chosen : Select(t, chosen)
  <2>1. PICK chosen : Select(t, chosen)
    BY <1>3
  <2>2. pc[t] \in {"evict", "delete_filtered", "delete_n"} /\ Goto(t, "delete")
    BY <2>1 DEF Select
  <2> QED
    BY <2>2, OthersStayAt DEF DropPlaces
<1>4a. CASE SelectNothing(t)
  <2>1. pc[t] \in {"evict", "delete_filtered", "delete_n"} /\ Return(t)
    BY <1>4a DEF SelectNothing
  <2> QED
    BY <2>1, OthersStayAt DEF DropPlaces
<1>4b. CASE DeleteBegin(t) \/ DeleteCommit(t)
  BY <1>4b, OthersStayAt DEF DeleteBegin, DeleteCommit, DropPlaces
<1>4c. CASE DeleteGet(t)
  BY <1>4c, OthersStayAt DEF DeleteGet, DropPlaces
<1>4d. CASE \E k \in Keys : DeleteKey(t, k)
  <2>1. PICK k \in Keys : DeleteKey(t, k)
    BY <1>4d
  <2> QED
    BY <2>1, OthersStayAt DEF DeleteKey, DropPlaces
<1>5. CASE DeleteLog(t)
  BY <1>5, OthersStayAt DEF DeleteLog, DropPlaces
<1>6. CASE \/ \E k \in Keys : UpdateRead(t, k) \/ UpdateRejected(t, k) \/ UpdateAbsent(t, k)
           \/ UpdateBegin(t) \/ UpdateWrite(t) \/ UpdateLog(t) \/ UpdateCommit(t)
  BY <1>6, OthersStayAt
  DEF UpdateRead, UpdateRejected, UpdateAbsent, UpdateBegin, UpdateWrite, UpdateLog,
      UpdateCommit, DropPlaces
<1>7. CASE SchemaBegin(t) \/ SchemaLog(t) \/ SchemaCommit(t) \/ SchemaSet(t)
  BY <1>7, OthersStayAt DEF SchemaBegin, SchemaLog, SchemaCommit, SchemaSet, DropPlaces
<1> QED
  BY <1>1, <1>2, <1>3, <1>4a, <1>4b, <1>4c, <1>4d, <1>5, <1>6, <1>7 DEF Step

LEMMA SubmitPlaces ==
    ASSUME TypeInv, NEW t \in Workers, NEW c \in Collections, NEW r \in Requests(c), Submit(t, r)
    PROVE  /\ OthersStay(t) /\ pc[t] = "idle" /\ pc'[t] = r.op /\ r.op \in AllOps
           /\ pc'[t] # "idle" /\ pc'[t] \notin DropPlaces
<1>1. OthersStay(t) /\ pc[t] = "idle" /\ pc'[t] = r.op /\ r.op \in AllOps
  BY OpsAssumption, OthersStayAt DEF Submit
<1> QED
  BY <1>1 DEF AllOps, DropPlaces

LEMMA DropsStep == TypeInv /\ DropAlone /\ DropAlone' /\ DropsInv /\ [Next]_vars => DropsInv'
<1> SUFFICES ASSUME TypeInv, DropAlone, DropAlone', DropsInv, [Next]_vars PROVE DropsInv'
  OBVIOUS
<1>0. ASSUME NEW t \in Workers, pc'[t] \notin DropPlaces PROVE DropOK(t)'
  BY <1>0 DEF DropOK, DropPlaces
<1>1. ASSUME NEW t \in Workers, NEW c \in Collections, NEW r \in Requests(c), Submit(t, r)
      PROVE  DropsInv'
  BY <1>0, <1>1, SubmitPlaces, DropsElsewhere
<1>2. ASSUME NEW t \in Workers, Step(t) PROVE DropsInv'
  <2>1. CASE \/ DropBegin(t) \/ DropState(t) \/ DropIndex(t) \/ DropLog(t)
             \/ DropCommit(t) \/ DropCounter(t)
    BY <2>1, DropsDrop
  <2>2. CASE ~(DropBegin(t) \/ DropState(t) \/ DropIndex(t) \/ DropLog(t)
               \/ DropCommit(t) \/ DropCounter(t))
    BY <1>0, <1>2, <2>2, OtherPlaces, DropsElsewhere
  <2> QED
    BY <2>1, <2>2
<1>3. CASE CrashAndReopen
  BY <1>3 DEF CrashAndReopen, DropsInv, DropOK, DropPlaces
<1>4. CASE UNCHANGED vars
  BY <1>4 DEF vars, DropsInv, DropOK
<1> QED
  BY <1>1, <1>2, <1>3, <1>4 DEF Next, Wait

(* A drop takes documents away, and with the last copy of them the counter. *)
LEMMA SeqDrop ==
    ASSUME TypeInv, TypeInv', SeqInv, DropAlone, DropsInv, NEW t \in Workers
    PROVE  /\ DropBegin(t) => SeqInv'
           /\ DropState(t) => SeqInv'
           /\ DropIndex(t) => SeqInv'
           /\ DropLog(t) => SeqInv'
           /\ DropCommit(t) => SeqInv'
           /\ DropCounter(t) => SeqInv'
<1> DEFINE c == req[t].c
<1>0. c \in Collections /\ docs \in Documents /\ wal.pending \in Db /\ DropOK(t)
  BY TypeFacts DEF DropsInv
<1>1. ASSUME DropBegin(t) PROVE SeqInv'
  <2>1. Moves(t)
    BY <1>1, GotoMoves DEF DropBegin, PCs
  <2> QED
    BY <1>0, <1>1, <2>1, BeginStep DEF DropBegin, memory
<1>2. ASSUME DropState(t) PROVE SeqInv'
  <2>1. Moves(t)
    BY <1>2, GotoMoves DEF DropState, PCs
  <2>2. InTx(t) /\ UNCHANGED wal /\ CountersGrow
    BY <1>2, UnchangedDerived DEF DropState, InTx
  <2>3. \A cc \in Collections, k \in Keys : docs'[cc][k] \in {docs[cc][k], NoDoc}
    BY <1>0, <1>2 DEF DropState, NoDocs, Documents
  <2> QED
    BY <2>1, <2>2, <2>3, QuietStep
<1>3. ASSUME DropIndex(t) PROVE SeqInv'
  <2>1. Moves(t)
    BY <1>3, GotoMoves DEF DropIndex, PCs
  <2>2. InTx(t) /\ UNCHANGED <<docs, wal>> /\ CountersGrow
    BY <1>3, UnchangedDerived DEF DropIndex, InTx
  <2> QED
    BY <2>1, <2>2, QuietStep
<1>4. ASSUME DropLog(t) PROVE SeqInv'
  <2>1. Moves(t) /\ InTx(t) /\ UNCHANGED <<docs, seq_counters>> /\ pc[t] = "drop_log"
    BY <1>4, GotoMoves DEF DropLog, PCs, InTx, memory
  <2>2. wal.active = t
    BY <1>0, <2>1 DEF DropOK, DropPlaces
  <2>3. Buffered(RemoveCollection(wal.pending, c))
    BY <1>0, <1>4, <2>2, BufferedEntries DEF DropLog
  <2>4. /\ wal'.active = wal.active /\ wal'.durable = wal.durable
        /\ wal'.pending = RemoveCollection(wal.pending, c)
    BY <2>3 DEF Buffered, LogOf
  <2>5. \A cc \in Collections, k \in Keys :
           wal'.pending.docs[cc][k] \in {wal.pending.docs[cc][k], NoDoc}
    BY <1>0, <2>4 DEF RemoveCollection, DbOf, Db, NoDocs
  <2>6. PICK k0 \in Keys : TRUE
    BY KeysAssumption
  <2>7. PendingIsLive' => PendingIsLive
    BY <2>1, <2>4, MovesDerived
  <2>8. PendingDerived(c, k0)
    BY <2>5, <2>7 DEF PendingDerived, Derived, Copies
  <2>9. DurableDerived(c, k0) /\ DocsDerived(c, k0) /\ CountersGrow /\ InHandDerived(c, k0)
    BY <2>1, <2>4, MovesDerived, UnchangedDerived
  <2> QED
    BY <1>0, <2>8, <2>9, SeqPreserved
<1>5. ASSUME DropCommit(t) PROVE SeqInv'
  <2>1. Moves(t)
    BY <1>5, GotoMoves DEF DropCommit, PCs
  <2>2. InTx(t)
    BY <1>5 DEF DropCommit, InTx
  <2> QED
    BY <1>0, <1>5, <2>1, <2>2, CommitStep DEF DropCommit, memory
<1>6. ASSUME DropCounter(t) PROVE SeqInv'
  <2>1. pc[t] = "drop_counter" /\ pc'[t] = "idle" /\ OthersStay(t) /\ UNCHANGED <<docs, wal>>
    BY <1>6, OthersStayAt DEF DropCounter
  <2>2. \A u \in Workers : pc'[u] = "idle"
    BY <2>1 DEF DropAlone, DropPlaces, OthersStay
  <2>3. docs[c] = NoDocs /\ wal.durable.docs[c] = NoDocs /\ wal.active = NoTx
    BY <1>0, <2>1 DEF DropOK, DropPlaces
  <2>4. ~PendingIsLive' /\ \A u \in Workers : ~InHand(u)'
    BY <2>1, <2>2, <2>3 DEF PendingIsLive, InHand
  <2>5. ASSUME NEW cc \in Collections, NEW k \in Keys
        PROVE  Copies(cc, k)' \subseteq Copies(cc, k) /\ (cc = c => Copies(cc, k)' = {})
    BY <2>1, <2>3, <2>4 DEF Copies, NoDocs
  <2>6. \A cc \in Collections : cc # c => seq_counters'[cc] = seq_counters[cc]
    BY <1>0, <1>6 DEF DropCounter, TypeInv, TypeOK
  <2>7. SUFFICES ASSUME NEW cc \in Collections, NEW k \in Keys, NEW l \in Keys,
                        NEW d \in Copies(cc, k)', NEW e \in Copies(cc, l)'
                 PROVE  d.seq < seq_counters'[cc] /\ (d.seq = e.seq => k = l)
    BY DEF SeqInv
  <2>8. cc # c /\ d \in Copies(cc, k) /\ e \in Copies(cc, l)
    BY <2>5
  <2> QED
    BY <2>6, <2>8 DEF SeqInv
<1> QED
  BY <1>1, <1>2, <1>3, <1>4, <1>5, <1>6

SeqDropInv == TypeInv /\ SeqInv /\ DropsInv

LEMMA SeqDropStep == SeqDropInv /\ DropAlone /\ DropAlone' /\ [Next]_vars => SeqDropInv'
<1> SUFFICES ASSUME SeqDropInv, DropAlone, DropAlone', [Next]_vars PROVE SeqDropInv'
  OBVIOUS
<1>0. TypeInv /\ SeqInv /\ DropsInv /\ TypeInv' /\ DropsInv'
  BY TypeStep, DropsStep DEF SeqDropInv
<1>1. CASE \E t \in Workers, c \in Collections : \E r \in Requests(c) : Submit(t, r)
  BY <1>0, <1>1, SeqSubmit DEF SeqDropInv
<1>2. CASE \E t \in Workers : Step(t)
  <2>1. PICK t \in Workers : Step(t)
    BY <1>2
  <2>2. SeqInv'
    BY <1>0, <2>1, SeqInsert, SeqDelete, SeqUpdate, SeqDrop, SeqSchema DEF Step
  <2> QED
    BY <1>0, <2>2 DEF SeqDropInv
<1>3. CASE CrashAndReopen
  BY <1>0, <1>3, SeqCrash DEF SeqDropInv
<1>4. CASE UNCHANGED vars
  <2>1. SeqInv'
    BY <1>0, <1>4 DEF vars, SeqInv, Copies, PendingIsLive, InTx, InHand
  <2> QED
    BY <1>0, <2>1 DEF SeqDropInv
<1> QED
  BY <1>1, <1>2, <1>3, <1>4 DEF Next, Wait

LEMMA SeqDropInit == Init => SeqDropInv
<1>1. Init => DropsInv
  BY DEF Init, DropsInv, DropOK, DropPlaces
<1> QED
  BY <1>1, SeqInit DEF SeqInductive, SeqDropInv

(***************************************************************************)
(* If collections may be dropped, and each drop runs while no other        *)
(* request is under way, _seq values stay distinct and below the counter,  *)
(* although the drop sets the counter back: by then neither memory nor the *)
(* log has a document left that a restart could bring back above it.       *)
(***************************************************************************)
THEOREM EngineSeqUniqueDrops == Spec /\ []DropAlone => []SeqUnique
<1>1. SeqDropInv => SeqUnique
  BY SeqInvUnique DEF SeqDropInv
<1> QED
  BY <1>1, SeqDropInit, SeqDropStep, PTL DEF Spec

-----------------------------------------------------------------------------
(***************************************************************************)
(* The index, with updates and drops.  An update writes the document it    *)
(* has read under the _seq it had; a drop empties the collection one step  *)
(* before its index.                                                       *)
(***************************************************************************)
Dropping(c) == \E t \in Workers : pc[t] = "drop_index" /\ req[t].c = c

IndexKept == \A c \in Collections : ~Dropping(c) => IndexOf(c) = SeqPairs(docs[c])

LEMMA PairsSame ==
    ASSUME NEW ds \in [Keys -> Doc \cup {NoDoc}], NEW k \in Keys, NEW d \in Doc,
           ds[k] # NoDoc, d.seq = ds[k].seq
    PROVE  SeqPairs([ds EXCEPT ![k] = d]) = SeqPairs(ds)
<1> DEFINE new == [ds EXCEPT ![k] = d]
<1>1. d # NoDoc /\ \A l \in Keys : (new[l] # NoDoc <=> ds[l] # NoDoc)
  BY NoDocAssumption
<1>2. \A l \in Keys : ds[l] # NoDoc => new[l].seq = ds[l].seq
  OBVIOUS
<1> HIDE DEF new
<1>3. ASSUME NEW p PROVE p \in SeqPairs(new) <=> p \in SeqPairs(ds)
  BY <1>1, <1>2 DEF SeqPairs
<1>4. SeqPairs(new) = SeqPairs(ds)
  BY <1>3
<1> QED
  BY <1>4 DEF new

LEMMA IndexUpdateWrite ==
    ASSUME TypeInv, IndexMatches, NEW t \in Workers, Fresh(t), UpdateWrite(t)
    PROVE  IndexMatches'
<1> DEFINE c == req[t].c
           k == key[t]
<1>0. /\ c \in Collections /\ k \in Keys /\ docs \in Documents
      /\ docs[c] \in [Keys -> Doc \cup {NoDoc}]
  BY TypeFacts DEF Documents
<1>1. pc[t] = "update_write" /\ UNCHANGED seq_index /\ docs' = [docs EXCEPT ![c][k] = doc[t]]
  BY DEF UpdateWrite
<1>2. doc[t] \in Doc /\ docs[c][k] # NoDoc /\ doc[t].seq = docs[c][k].seq
  BY <1>1 DEF TypeInv, TypeOK, WorkerOK, Fresh
<1>3. SeqPairs([docs[c] EXCEPT ![k] = doc[t]]) = SeqPairs(docs[c])
  BY <1>0, <1>2, PairsSame
<1>4. /\ docs'[c] = [docs[c] EXCEPT ![k] = doc[t]]
      /\ \A cc \in Collections : cc # c => docs'[cc] = docs[cc]
  BY <1>0, <1>1 DEF Documents
<1> HIDE DEF c, k
<1>5. ASSUME NEW cc \in Collections PROVE IndexOf(cc)' = SeqPairs(docs'[cc])
  <2>1. SeqPairs(docs'[cc]) = SeqPairs(docs[cc])
    BY <1>3, <1>4
  <2>2. IndexOf(cc)' = IndexOf(cc)
    BY <1>1 DEF IndexOf
  <2> QED
    BY <2>1, <2>2 DEF IndexMatches
<1> QED
  BY <1>5 DEF IndexMatches, SeqPairs

LEMMA IndexDrop ==
    ASSUME TypeInv, DropAlone, DropsInv, IndexKept, NEW t \in Workers
    PROVE  /\ DropState(t) => IndexKept'
           /\ DropIndex(t) => IndexKept'
<1> DEFINE c == req[t].c
<1>0. c \in Collections /\ docs \in Documents /\ DropOK(t)
  BY TypeFacts DEF DropsInv
<1>1. ASSUME pc[t] \in DropPlaces, NEW cc \in Collections, Dropping(cc)
      PROVE  pc[t] = "drop_index" /\ cc = c
  <2>1. PICK u \in Workers : pc[u] = "drop_index" /\ req[u].c = cc
    BY <1>1 DEF Dropping
  <2>2. u = t
    BY <1>1, <2>1 DEF DropAlone
  <2> QED
    BY <2>1, <2>2
<1>2. ASSUME DropState(t) PROVE IndexKept'
  <2>1. /\ pc[t] = "drop_state" /\ pc'[t] = "drop_index" /\ UNCHANGED <<req, seq_index>>
        /\ docs' = [docs EXCEPT ![c] = NoDocs]
    BY <1>2, OthersStayAt DEF DropState
  <2>2. Dropping(c)'
    BY <2>1 DEF Dropping
  <2>3. ASSUME NEW cc \in Collections, ~Dropping(cc)' PROVE IndexOf(cc)' = SeqPairs(docs'[cc])
    <3>1. cc # c /\ ~Dropping(cc)
      BY <1>1, <2>1, <2>2, <2>3 DEF DropPlaces
    <3>2. docs'[cc] = docs[cc] /\ IndexOf(cc)' = IndexOf(cc)
      BY <1>0, <2>1, <3>1 DEF Documents, IndexOf
    <3> QED
      BY <3>1, <3>2 DEF IndexKept
  <2> QED
    BY <2>3 DEF IndexKept, SeqPairs
<1>3. ASSUME DropIndex(t) PROVE IndexKept'
  <2>1. /\ pc[t] = "drop_index" /\ UNCHANGED docs
        /\ seq_index' = [seq_index EXCEPT ![c] = NoIndex]
    BY <1>3 DEF DropIndex
  <2>2. docs[c] = NoDocs
    BY <1>0, <2>1 DEF DropOK, DropPlaces
  <2>3. /\ seq_index'[c] = NoIndex
        /\ \A cc \in Collections : cc # c => seq_index'[cc] = seq_index[cc]
    BY <1>0, <2>1 DEF TypeInv, TypeOK
  <2>4. ASSUME NEW cc \in Collections PROVE IndexOf(cc)' = SeqPairs(docs'[cc])
    <3>1. CASE cc = c
      <4>1. SeqPairs(docs'[c]) = {}
        BY <2>1, <2>2 DEF SeqPairs, NoDocs
      <4> QED
        BY <2>3, <3>1, <4>1 DEF IndexOf
    <3>2. CASE cc # c
      <4>1. ~Dropping(cc)
        BY <1>1, <2>1, <3>2 DEF DropPlaces
      <4>2. IndexOf(cc)' = IndexOf(cc)
        BY <2>3, <3>2 DEF IndexOf
      <4> QED
        BY <2>1, <4>1, <4>2 DEF IndexKept
    <3> QED
      BY <3>1, <3>2
  <2> QED
    BY <2>4 DEF IndexKept, SeqPairs
<1> QED
  BY <1>2, <1>3

IndexSerial == FreshInv /\ SeqDropInv /\ IndexKept

LEMMA IndexKeptStep ==
    IndexSerial /\ DropAlone /\ DropAlone' /\ [Next]_vars => IndexKept'
<1> SUFFICES ASSUME IndexSerial, DropAlone, DropAlone', [Next]_vars PROVE IndexKept'
  OBVIOUS
<1>0. TypeInv /\ SeqInv /\ DropsInv /\ IndexKept /\ \A t \in Workers : Fresh(t)
  BY DEF IndexSerial, SeqDropInv, FreshInv
<1>1. ASSUME UNCHANGED <<docs, seq_index>>, \A c \in Collections : Dropping(c) => Dropping(c)'
      PROVE  IndexKept'
  BY <1>0, <1>1 DEF IndexKept, IndexOf, SeqPairs
<1>2. ASSUME IndexMatches' PROVE IndexKept'
  BY <1>2 DEF IndexMatches, IndexKept, SeqPairs
<1>3. ASSUME NEW t \in Workers, OthersStay(t), pc[t] # "idle" \/ pc'[t] # "idle",
             pc[t] \notin DropPlaces
      PROVE  IndexMatches
  <2>1. \A u \in Workers : pc[u] # "drop_index"
    BY <1>3, NoOtherDrop DEF DropPlaces
  <2> QED
    BY <1>0, <2>1 DEF IndexKept, IndexMatches, Dropping
<1>4. ASSUME NEW t \in Workers, OthersStay(t), pc[t] # "idle" \/ pc'[t] # "idle",
             pc[t] \notin DropPlaces, UNCHANGED <<docs, seq_index>>
      PROVE  IndexKept'
  BY <1>2, <1>3, <1>4 DEF IndexMatches, IndexOf, SeqPairs
<1>5. ASSUME NEW t \in Workers, NEW c \in Collections, NEW r \in Requests(c), Submit(t, r)
      PROVE  IndexKept'
  <2>1. UNCHANGED <<docs, seq_index>>
    BY <1>5 DEF Submit, memory
  <2>2. pc[t] = "idle" /\ pc[t] \notin DropPlaces /\ pc'[t] # "idle" /\ OthersStay(t)
    BY <1>0, <1>5, SubmitPlaces DEF DropPlaces
  <2> QED
    BY <1>4, <2>1, <2>2
<1>6. ASSUME NEW t \in Workers, Step(t) PROVE IndexKept'
  <2>1. CASE DropState(t) \/ DropIndex(t)
    BY <1>0, <2>1, IndexDrop
  <2>2. CASE DropBegin(t) \/ DropLog(t) \/ DropCommit(t) \/ DropCounter(t)
    <3>1. UNCHANGED <<docs, seq_index>> /\ pc[t] # "drop_index" /\ OthersStay(t)
      BY <1>0, <2>2, OthersStayAt DEF DropBegin, DropLog, DropCommit, DropCounter, memory
    <3>2. \A u \in Workers : u # t => req'[u] = req[u]
      BY <1>0, <2>2 DEF DropBegin, DropLog, DropCommit, DropCounter, Return, TypeInv, TypeOK
    <3> QED
      BY <1>1, <3>1, <3>2 DEF Dropping, OthersStay
  <2>3. CASE ~(DropBegin(t) \/ DropState(t) \/ DropIndex(t) \/ DropLog(t)
               \/ DropCommit(t) \/ DropCounter(t))
    <3>1. OthersStay(t) /\ pc[t] # "idle" /\ pc[t] \notin DropPlaces
      BY <1>0, <1>6, <2>3, OtherPlaces
    <3>2. IndexMatches
      BY <1>3, <3>1
    <3>3. CASE UNCHANGED <<docs, seq_index>>
      BY <1>4, <3>1, <3>3
    <3>4. CASE \E k \in Keys : InsertItem(t, k)
      BY <1>0, <1>2, <3>2, <3>4, IndexInsertItem
    <3>5. CASE \E k \in Keys : DeleteKey(t, k)
      BY <1>0, <1>2, <3>2, <3>5, IndexDeleteKey
    <3>6. CASE UpdateWrite(t)
      BY <1>0, <1>2, <3>2, <3>6, IndexUpdateWrite
    <3>7. UNCHANGED <<docs, seq_index>> \/ (\E k \in Keys : InsertItem(t, k))
            \/ (\E k \in Keys : DeleteKey(t, k)) \/ UpdateWrite(t)
      <4>1. CASE \/ InsertBegin(t) \/ InsertCommit(t) \/ CheckMaxSize(t)
                 \/ \E k \in Keys : InsertInvalid(t, k)
        BY <4>1 DEF InsertBegin, InsertCommit, CheckMaxSize, InsertInvalid, memory
      <4>2. CASE (\E chosen : Select(t, chosen)) \/ SelectNothing(t)
        BY <4>2 DEF Select, SelectNothing, memory
      <4>3. CASE DeleteBegin(t) \/ DeleteGet(t) \/ DeleteLog(t) \/ DeleteCommit(t)
        BY <4>3 DEF DeleteBegin, DeleteGet, DeleteLog, DeleteCommit, memory
      <4>4. CASE \/ \E k \in Keys : UpdateRead(t, k) \/ UpdateRejected(t, k) \/ UpdateAbsent(t, k)
                 \/ UpdateBegin(t) \/ UpdateLog(t) \/ UpdateCommit(t)
        BY <4>4 DEF UpdateRead, UpdateRejected, UpdateAbsent, UpdateBegin, UpdateLog,
           UpdateCommit, memory
      <4>5. CASE SchemaBegin(t) \/ SchemaLog(t) \/ SchemaCommit(t) \/ SchemaSet(t)
        BY <4>5 DEF SchemaBegin, SchemaLog, SchemaCommit, SchemaSet, memory
      <4> QED
        BY <1>6, <2>3, <4>1, <4>2, <4>3, <4>4, <4>5 DEF Step
    <3> QED
      BY <3>3, <3>4, <3>5, <3>6, <3>7
  <2> QED
    BY <2>1, <2>2, <2>3
<1>7. CASE CrashAndReopen
  BY <1>0, <1>2, <1>7, IndexCrash
<1>8. CASE UNCHANGED vars
  BY <1>1, <1>8 DEF vars, Dropping
<1> QED
  BY <1>5, <1>6, <1>7, <1>8 DEF Next, Wait

(***************************************************************************)
(* If no two requests update the same document at once, none deletes it    *)
(* while an update has it in hand, and drops run alone, then seq_index     *)
(* lists exactly the stored documents whenever no request is under way     *)
(* (get.rs, delete.rs read it instead of the documents), and during        *)
(* requests too except between the two steps of a drop.                    *)
(***************************************************************************)
THEOREM EngineIndexQuiescent ==
    Spec /\ []UpdateAlone /\ []DropAlone => []IndexMatchesWhenQuiescent
<1>1. Init => IndexSerial
  <2>1. Init => IndexKept
    <3> SUFFICES ASSUME Init, NEW c \in Collections PROVE IndexOf(c) = SeqPairs(docs[c])
      BY DEF IndexKept
    <3>1. IndexOf(c) = {}
      BY DEF Init, IndexOf
    <3>2. \A k \in Keys : docs[c][k] = NoDoc
      BY DEF Init, NoDocs
    <3> QED
      BY <3>1, <3>2 DEF SeqPairs
  <2> QED
    BY <2>1, FreshInit, SeqDropInit DEF IndexSerial
<1>2. IndexSerial /\ UpdateAlone /\ DropAlone /\ DropAlone' /\ [Next]_vars => IndexSerial'
  BY FreshStep, SeqDropStep, IndexKeptStep DEF IndexSerial
<1>3. IndexSerial => IndexMatchesWhenQuiescent
  BY DEF IndexSerial, IndexKept, Dropping, IndexMatchesWhenQuiescent, IndexMatches, Quiescent
<1> QED
  BY <1>1, <1>2, <1>3, PTL DEF Spec
-----------------------------------------------------------------------------
(***************************************************************************)
(* Eviction.  evict_oldest counts the documents, chooses the oldest and    *)
(* deletes them under three guards taken one after another: its count is   *)
(* right as long as nobody changes the collection in between.              *)
(***************************************************************************)
Changing == {"insert_items", "update_write", "delete_keys", "drop_state"}

(* While a request evicts, no other one changes documents of that collection. *)
EvictAlone ==
    \A t, u \in Workers :
       t # u /\ req[t].op = "evict" /\ req[u].c = req[t].c => pc[u] \notin Changing

(* What an eviction still has to delete is exactly what is over maxSize. *)
EvictOK(t) ==
    LET c == req[t].c
        stored == Present(c)
        over(n) == Cardinality(stored) = MaxSize[c] + n
    IN  req[t].op = "evict" =>
          /\ pc[t] \in {"evict", "delete", "delete_get", "delete_keys", "delete_log",
                        "delete_commit"}
          /\ pc[t] = "evict" => over(req[t].n) /\ req[t].n > 0
          /\ pc[t] \in {"delete", "delete_get"}
                => /\ c \in cols /\ req[t].keys # {} /\ req[t].keys \subseteq stored
                   /\ over(Cardinality(req[t].keys))
          /\ pc[t] \in {"delete_keys", "delete_log"}
                => todo[t] \subseteq stored /\ over(Cardinality(todo[t]))
          /\ pc[t] = "delete_keys" => todo[t] # {}
          /\ pc[t] = "delete_commit" => over(0)

EvictInv == \A t \in Workers : EvictOK(t)

(* A collection has as many pairs as documents, and a choice of pairs as many keys. *)
LEMMA PairsCount ==
    ASSUME NEW ds
    PROVE  /\ IsFiniteSet(SeqPairs(ds))
           /\ Cardinality(SeqPairs(ds)) = Cardinality({k \in Keys : ds[k] # NoDoc})
<1> DEFINE S == {k \in Keys : ds[k] # NoDoc}
           f == [k \in S |-> <<ds[k].seq, k>>]
<1>1. IsFiniteSet(S)
  BY KeysAssumption, FS_Subset
<1>2. f \in Bijection(S, SeqPairs(ds))
  <2>1. f \in [S -> SeqPairs(ds)]
    BY DEF SeqPairs
  <2>2. IsInjective(f)
    BY DEF IsInjective
  <2>3. \A p \in SeqPairs(ds) : \E k \in S : f[k] = p
    BY DEF SeqPairs
  <2> QED
    BY <2>1, <2>2, <2>3 DEF Bijection, Injection, Surjection
<1> HIDE DEF f, S
<1>3. IsFiniteSet(SeqPairs(ds)) /\ Cardinality(SeqPairs(ds)) = Cardinality(S)
  BY <1>1, <1>2, FS_Bijection DEF ExistsBijection
<1> QED
  BY <1>3 DEF S

LEMMA KeysCount ==
    ASSUME NEW ds, NEW chosen \in SUBSET SeqPairs(ds)
    PROVE  LET ks == {p[2] : p \in chosen}
           IN  /\ ks \subseteq {k \in Keys : ds[k] # NoDoc}
               /\ Cardinality(ks) = Cardinality(chosen)
               /\ chosen # {} => ks # {}
<1> DEFINE ks == {p[2] : p \in chosen}
           g == [p \in chosen |-> p[2]]
<1>1. IsFiniteSet(chosen)
  BY PairsCount, FS_Subset
<1>2. g \in Bijection(chosen, ks)
  <2>1. g \in [chosen -> ks]
    OBVIOUS
  <2>2. IsInjective(g)
    BY DEF IsInjective, SeqPairs
  <2>3. \A k \in ks : \E p \in chosen : g[p] = k
    OBVIOUS
  <2> QED
    BY <2>1, <2>2, <2>3 DEF Bijection, Injection, Surjection
<1>3. ks \subseteq {k \in Keys : ds[k] # NoDoc} /\ (chosen # {} => ks # {})
  BY DEF SeqPairs
<1> HIDE DEF ks, g
<1>4. Cardinality(ks) = Cardinality(chosen)
  BY <1>1, <1>2, FS_Bijection DEF ExistsBijection
<1> QED
  BY <1>3, <1>4 DEF ks

(* A step of worker t touches no other worker, and documents of its own collection at most. *)
LEMMA Touches ==
    ASSUME TypeInv, NEW t \in Workers, Step(t)
    PROVE  /\ \A u \in Workers : u # t => Stays(u)
           /\ \A c \in Collections : c # req[t].c \/ pc[t] \notin Changing
                 => docs'[c] = docs[c] /\ (c \in cols => c \in cols')
<1> DEFINE Calm == \A u \in Workers : u # t => Stays(u)
           Apart == \A c \in Collections : c # req[t].c \/ pc[t] \notin Changing
                       => docs'[c] = docs[c] /\ (c \in cols => c \in cols')
<1>0. req[t].c \in Collections /\ docs \in Documents
  BY TypeFacts
<1>1. CASE InsertBegin(t) \/ InsertCommit(t) \/ CheckMaxSize(t)
  <2>1. Calm
    BY <1>1 DEF InsertBegin, InsertCommit, CheckMaxSize, Return, Goto, Stays, TypeInv, TypeOK
  <2>2. Apart
    BY <1>1 DEF InsertBegin, InsertCommit, CheckMaxSize, memory
  <2> QED
    BY <2>1, <2>2
<1>2. CASE \E k \in Keys : InsertItem(t, k)
  <2>1. Calm
    BY <1>2 DEF InsertItem, Stays, TypeInv, TypeOK
  <2>2. Apart
    BY <1>0, <1>2 DEF InsertItem, Changing, Documents
  <2> QED
    BY <2>1, <2>2
<1>3. CASE \E k \in Keys : InsertInvalid(t, k)
  BY <1>3, ReturnStays DEF InsertInvalid
<1>4. CASE \E chosen : Select(t, chosen)
  <2>1. Calm
    BY <1>4 DEF Select, Goto, Stays, TypeInv, TypeOK
  <2>2. Apart
    BY <1>4 DEF Select, memory
  <2> QED
    BY <2>1, <2>2
<1>5. CASE SelectNothing(t) \/ DeleteCommit(t) \/ UpdateCommit(t) \/ SchemaSet(t) \/ DropCounter(t)
  BY <1>5, ReturnStays
  DEF SelectNothing, DeleteCommit, UpdateCommit, SchemaSet, DropCounter, memory
<1>6. CASE DeleteBegin(t) \/ DeleteGet(t) \/ DeleteLog(t)
  <2>1. Calm
    BY <1>6 DEF DeleteBegin, DeleteGet, DeleteLog, Goto, Stays, TypeInv, TypeOK
  <2>2. Apart
    BY <1>6 DEF DeleteBegin, DeleteGet, DeleteLog, memory
  <2> QED
    BY <2>1, <2>2
<1>7. CASE \E k \in Keys : DeleteKey(t, k)
  <2>1. Calm
    BY <1>7 DEF DeleteKey, Goto, Stays, TypeInv, TypeOK
  <2>2. Apart
    BY <1>0, <1>7 DEF DeleteKey, Changing, Documents
  <2> QED
    BY <2>1, <2>2
<1>8. CASE UpdateBegin(t) \/ UpdateLog(t) \/ \E k \in Keys : UpdateRead(t, k) \/ UpdateAbsent(t, k)
  <2>1. Calm
    BY <1>8 DEF UpdateBegin, UpdateLog, UpdateRead, UpdateAbsent, Goto, Stays, TypeInv, TypeOK
  <2>2. Apart
    BY <1>8 DEF UpdateBegin, UpdateLog, UpdateRead, UpdateAbsent, memory
  <2> QED
    BY <2>1, <2>2
<1>9. CASE \E k \in Keys : UpdateRejected(t, k)
  BY <1>9, ReturnStays DEF UpdateRejected, memory
<1>10. CASE UpdateWrite(t)
  <2>1. Calm
    BY <1>10 DEF UpdateWrite, Goto, Stays, TypeInv, TypeOK
  <2>2. Apart
    BY <1>0, <1>10 DEF UpdateWrite, Changing, Documents
  <2> QED
    BY <2>1, <2>2
<1>11. CASE DropState(t)
  <2>1. Calm
    BY <1>11 DEF DropState, Goto, Stays, TypeInv, TypeOK
  <2>2. Apart
    BY <1>0, <1>11 DEF DropState, Changing, Documents
  <2> QED
    BY <2>1, <2>2
<1>12. CASE DropBegin(t) \/ DropIndex(t) \/ DropLog(t) \/ DropCommit(t)
  <2>1. Calm
    BY <1>12 DEF DropBegin, DropIndex, DropLog, DropCommit, Goto, Stays, TypeInv, TypeOK
  <2>2. Apart
    BY <1>12 DEF DropBegin, DropIndex, DropLog, DropCommit, memory
  <2> QED
    BY <2>1, <2>2
<1>13. CASE SchemaBegin(t) \/ SchemaLog(t) \/ SchemaCommit(t)
  <2>1. Calm
    BY <1>13 DEF SchemaBegin, SchemaLog, SchemaCommit, Goto, Stays, TypeInv, TypeOK
  <2>2. Apart
    BY <1>13 DEF SchemaBegin, SchemaLog, SchemaCommit, memory
  <2> QED
    BY <2>1, <2>2
<1> QED
  BY <1>1, <1>2, <1>3, <1>4, <1>5, <1>6, <1>7, <1>8, <1>9, <1>10, <1>11, <1>12, <1>13 DEF Step

LEMMA PresentCount ==
    ASSUME NEW c \in Collections
    PROVE  IsFiniteSet(Present(c)) /\ Cardinality(Present(c)) \in Nat
BY KeysAssumption, FS_Subset, FS_CardinalityType DEF Present

LEMMA EvictChosen ==
    ASSUME TypeInv, NEW t \in Workers, EvictOK(t), req[t].op = "evict",
           NEW chosen, Select(t, chosen)
    PROVE  EvictOK(t)'
<1> DEFINE c == req[t].c
           pairs == SeqPairs(docs[c])
           ks == {p[2] : p \in chosen}
           n == req[t].n
<1>0. c \in Collections /\ n \in Nat /\ MaxSize[c] \in Nat
  BY RequestFields, MaxSizeAssumption DEF TypeInv, TypeOK
<1>1. /\ pc[t] = "evict" /\ n > 0 /\ Cardinality(Present(c)) = MaxSize[c] + n
  BY DEF EvictOK, Select
<1>2. /\ c \in cols /\ chosen # {} /\ IsFirstN(pairs, n, req[t].order, chosen)
      /\ req' = [req EXCEPT ![t] = KeysOnly(req[t], ks)] /\ pc' = [pc EXCEPT ![t] = "delete"]
      /\ UNCHANGED <<cols, docs>>
  BY <1>1 DEF Select, Candidates, Goto, memory
<1>3. chosen \in SUBSET pairs
  BY <1>2 DEF IsFirstN
<1>4. Cardinality(pairs) = MaxSize[c] + n
  BY <1>1, PairsCount DEF Present
<1>5. Cardinality(chosen) = n
  <2> HIDE DEF pairs, n, c
  <2> QED
    BY <1>0, <1>2, <1>4 DEF IsFirstN
<1>6. ks \subseteq Present(c) /\ Cardinality(ks) = n /\ ks # {}
  BY <1>2, <1>3, <1>5, KeysCount DEF Present
<1>7. pc'[t] = "delete" /\ req'[t].c = c /\ req'[t].keys = ks
  BY <1>2 DEF KeysOnly, TypeInv, TypeOK
<1>8. Present(req[t].c)' = Present(c)
  BY <1>2, <1>7 DEF Present
<1> HIDE DEF ks, n, c
<1> QED
  BY <1>1, <1>2, <1>6, <1>7, <1>8 DEF EvictOK

LEMMA EvictKey ==
    ASSUME TypeInv, NEW t \in Workers, EvictOK(t), req[t].op = "evict",
           NEW k \in Keys, DeleteKey(t, k)
    PROVE  EvictOK(t)'
<1> DEFINE c == req[t].c
           old == Present(c)
           left == todo[t]
<1>0. c \in Collections /\ MaxSize[c] \in Nat /\ docs \in Documents
  BY TypeFacts, MaxSizeAssumption
<1>1. /\ pc[t] = "delete_keys" /\ k \in left /\ UNCHANGED req
      /\ docs' = [docs EXCEPT ![c][k] = NoDoc] /\ todo' = [todo EXCEPT ![t] = @ \ {k}]
      /\ pc' = [pc EXCEPT ![t] = "delete_log"]
  BY DEF DeleteKey, Goto
<1>2. left \subseteq old /\ Cardinality(old) = MaxSize[c] + Cardinality(left)
  BY <1>1 DEF EvictOK
<1>3. pc'[t] = "delete_log" /\ todo'[t] = left \ {k}
  BY <1>1 DEF TypeInv, TypeOK
<1>4. Present(c)' = old \ {k}
  BY <1>0, <1>1 DEF Present, Documents
<1>5. /\ IsFiniteSet(old) /\ Cardinality(old) \in Nat
      /\ IsFiniteSet(left) /\ Cardinality(left) \in Nat
  BY <1>0, <1>2, PresentCount, FS_Subset, FS_CardinalityType
<1>6. /\ Cardinality(old \ {k}) = Cardinality(old) - 1
      /\ Cardinality(left \ {k}) = Cardinality(left) - 1
  BY <1>1, <1>2, <1>5, FS_RemoveElement
<1>7. Present(req[t].c)' = old \ {k}
  BY <1>1, <1>4 DEF Present
<1>8. req'[t].c = c
  BY <1>1
<1> HIDE DEF old, left, c
<1>9. Cardinality(old \ {k}) = MaxSize[c] + Cardinality(left \ {k})
  BY <1>0, <1>2, <1>5, <1>6
<1> QED
  BY <1>2, <1>3, <1>7, <1>8, <1>9 DEF EvictOK

(* The other steps of an eviction. *)
LEMMA EvictMoves ==
    ASSUME TypeInv, NEW t \in Workers, EvictOK(t), req[t].op = "evict"
    PROVE  /\ SelectNothing(t) \/ DeleteCommit(t) => EvictOK(t)'
           /\ DeleteBegin(t) => EvictOK(t)'
           /\ DeleteGet(t) => EvictOK(t)'
           /\ DeleteLog(t) => EvictOK(t)'
<1> DEFINE c == req[t].c
<1>0. c \in Collections /\ MaxSize[c] \in Nat
  BY TypeFacts, MaxSizeAssumption
<1>1. ASSUME SelectNothing(t) \/ DeleteCommit(t) PROVE EvictOK(t)'
  <2>1. req'[t] = NoRequest
    BY <1>1 DEF SelectNothing, DeleteCommit, Return, TypeInv, TypeOK
  <2>2. req'[t].op # "evict"
    BY <2>1 DEF NoRequest, Call
  <2> QED
    BY <2>2 DEF EvictOK
<1>2. ASSUME DeleteBegin(t) PROVE EvictOK(t)'
  <2>1. pc[t] = "delete" /\ pc'[t] = "delete_get" /\ UNCHANGED <<cols, docs, req, todo>>
    BY <1>2, OthersStayAt DEF DeleteBegin, memory
  <2>2. Present(req[t].c)' = Present(c)
    BY <2>1 DEF Present
  <2> QED
    BY <2>1, <2>2 DEF EvictOK
<1>3. ASSUME DeleteGet(t) PROVE EvictOK(t)'
  <2>1. pc[t] = "delete_get" /\ UNCHANGED <<cols, docs, req>>
    BY <1>3 DEF DeleteGet, memory
  <2>2. c \in cols
    BY <2>1 DEF EvictOK
  <2>3. todo' = [todo EXCEPT ![t] = req[t].keys] /\ Goto(t, "delete_keys")
    BY <1>3, <2>2 DEF DeleteGet
  <2>4. todo'[t] = req[t].keys /\ pc'[t] = "delete_keys"
    BY <2>3, OthersStayAt DEF TypeInv, TypeOK
  <2>5. Present(req[t].c)' = Present(c)
    BY <2>1 DEF Present
  <2> QED
    BY <2>1, <2>4, <2>5 DEF EvictOK
<1>4. ASSUME DeleteLog(t) PROVE EvictOK(t)'
  <2>1. /\ pc[t] = "delete_log" /\ UNCHANGED <<cols, docs, req, todo>>
        /\ pc'[t] = IF todo[t] = {} THEN "delete_commit" ELSE "delete_keys"
    BY <1>4, OthersStayAt DEF DeleteLog, memory
  <2>2. Present(req[t].c)' = Present(c)
    BY <2>1 DEF Present
  <2>3. Cardinality(Present(c)) = MaxSize[c] + Cardinality(todo[t]) /\ todo[t] \subseteq Present(c)
    BY <2>1 DEF EvictOK
  <2>4. CASE todo[t] = {}
    BY <2>1, <2>2, <2>3, <2>4, FS_EmptySet DEF EvictOK
  <2>5. CASE todo[t] # {}
    BY <2>1, <2>2, <2>3, <2>5 DEF EvictOK
  <2> QED
    BY <2>4, <2>5
<1> QED
  BY <1>1, <1>2, <1>3, <1>4

LEMMA EvictStarts ==
    ASSUME TypeInv, NEW t \in Workers, CheckMaxSize(t)
    PROVE  EvictOK(t)'
<1> DEFINE c == req[t].c
           overflow == Cardinality(Present(c)) - MaxSize[c]
<1>0. c \in Collections /\ MaxSize[c] \in Nat /\ Cardinality(Present(c)) \in Nat
  BY TypeFacts, MaxSizeAssumption, PresentCount
<1>1. UNCHANGED docs
  BY DEF CheckMaxSize, memory
<1>2. CASE overflow > 0
  <2>1. /\ req' = [req EXCEPT ![t] = Call("evict", c, NoBodies, {}, overflow, "asc")]
        /\ Goto(t, "evict")
    BY <1>2 DEF CheckMaxSize
  <2>2. req'[t] = Call("evict", c, NoBodies, {}, overflow, "asc") /\ pc'[t] = "evict"
    BY <2>1, OthersStayAt DEF TypeInv, TypeOK
  <2>3. req'[t].c = c /\ req'[t].n = overflow
    BY <2>2 DEF Call
  <2>4. Present(req[t].c)' = Present(c)
    BY <1>1, <2>3 DEF Present
  <2>5. Cardinality(Present(c)) = MaxSize[c] + overflow
    BY <1>0
  <2> HIDE DEF overflow, c
  <2> QED
    BY <1>2, <2>2, <2>3, <2>4, <2>5 DEF EvictOK
<1>3. CASE ~(overflow > 0)
  <2>1. Return(t)
    BY <1>3 DEF CheckMaxSize
  <2>2. req'[t] = NoRequest
    BY <2>1 DEF Return, TypeInv, TypeOK
  <2> QED
    BY <2>2 DEF EvictOK, NoRequest, Call
<1> QED
  BY <1>2, <1>3

(* No other step starts an eviction or takes one further. *)
LEMMA EvictOwn ==
    ASSUME TypeInv, NEW t \in Workers, EvictOK(t), Step(t)
    PROVE  EvictOK(t)'
<1>1. ASSUME req' = req, req[t].op # "evict" PROVE EvictOK(t)'
  BY <1>1 DEF EvictOK
<1>2. ASSUME Return(t) PROVE EvictOK(t)'
  <2>1. req'[t] = NoRequest
    BY <1>2 DEF Return, TypeInv, TypeOK
  <2> QED
    BY <2>1 DEF EvictOK, NoRequest, Call
<1>3. ASSUME pc[t] \notin {"evict", "delete", "delete_get", "delete_keys", "delete_log",
                           "delete_commit"}
      PROVE  req[t].op # "evict"
  BY <1>3 DEF EvictOK
<1>4. CASE CheckMaxSize(t)
  BY <1>4, EvictStarts
<1>5. CASE InsertBegin(t) \/ \E k \in Keys : InsertItem(t, k)
  BY <1>1, <1>3, <1>5 DEF InsertBegin, InsertItem
<1>6. CASE InsertCommit(t) \/ \E k \in Keys : InsertInvalid(t, k)
  BY <1>1, <1>2, <1>3, <1>6 DEF InsertCommit, InsertInvalid
<1>7. CASE \E chosen : Select(t, chosen)
  <2>1. PICK chosen : Select(t, chosen)
    BY <1>7
  <2>2. CASE req[t].op = "evict"
    BY <2>1, <2>2, EvictChosen
  <2>3. CASE req[t].op # "evict"
    <3>1. req'[t] = KeysOnly(req[t], {p[2] : p \in chosen})
      BY <2>1 DEF Select, TypeInv, TypeOK
    <3>2. req'[t].op = req[t].op
      BY <3>1 DEF KeysOnly
    <3> QED
      BY <2>3, <3>2 DEF EvictOK
  <2> QED
    BY <2>2, <2>3
<1>8. CASE SelectNothing(t) \/ DeleteCommit(t)
  BY <1>2, <1>8 DEF SelectNothing, DeleteCommit
<1>9. CASE DeleteBegin(t) \/ DeleteGet(t) \/ DeleteLog(t)
  <2>1. CASE req[t].op = "evict"
    BY <1>9, <2>1, EvictMoves
  <2>2. CASE req[t].op # "evict"
    BY <1>1, <1>9, <2>2 DEF DeleteBegin, DeleteGet, DeleteLog
  <2> QED
    BY <2>1, <2>2
<1>10. CASE \E k \in Keys : DeleteKey(t, k)
  <2>1. PICK k \in Keys : DeleteKey(t, k)
    BY <1>10
  <2>2. CASE req[t].op = "evict"
    BY <2>1, <2>2, EvictKey
  <2>3. CASE req[t].op # "evict"
    BY <1>1, <2>1, <2>3 DEF DeleteKey
  <2> QED
    BY <2>2, <2>3
<1>11. CASE \/ UpdateBegin(t) \/ UpdateWrite(t) \/ UpdateLog(t)
            \/ \E k \in Keys : UpdateRead(t, k) \/ UpdateAbsent(t, k)
  BY <1>1, <1>3, <1>11 DEF UpdateBegin, UpdateWrite, UpdateLog, UpdateRead, UpdateAbsent
<1>12. CASE UpdateCommit(t) \/ \E k \in Keys : UpdateRejected(t, k)
  BY <1>2, <1>12 DEF UpdateCommit, UpdateRejected
<1>13. CASE DropBegin(t) \/ DropState(t) \/ DropIndex(t) \/ DropLog(t) \/ DropCommit(t)
  BY <1>1, <1>3, <1>13 DEF DropBegin, DropState, DropIndex, DropLog, DropCommit
<1>14. CASE DropCounter(t) \/ SchemaSet(t)
  BY <1>2, <1>14 DEF DropCounter, SchemaSet
<1>15. CASE SchemaBegin(t) \/ SchemaLog(t) \/ SchemaCommit(t)
  BY <1>1, <1>3, <1>15 DEF SchemaBegin, SchemaLog, SchemaCommit
<1> QED
  BY <1>4, <1>5, <1>6, <1>7, <1>8, <1>9, <1>10, <1>11, <1>12, <1>13, <1>14, <1>15 DEF Step

LEMMA EvictStep == TypeInv /\ EvictAlone /\ EvictInv /\ [Next]_vars => EvictInv'
<1> SUFFICES ASSUME TypeInv, EvictAlone, EvictInv, [Next]_vars PROVE EvictInv'
  OBVIOUS
<1>1. ASSUME NEW t \in Workers, NEW c \in Collections, NEW r \in Requests(c), Submit(t, r)
      PROVE  EvictInv'
  <2>1. UNCHANGED <<cols, docs, todo>> /\ r.op \in AllOps /\ req' = [req EXCEPT ![t] = r]
    BY <1>1, OpsAssumption DEF Submit, memory
  <2>2. OthersStay(t)
    BY <1>1, SubmitPlaces
  <2>3. req'[t].op # "evict"
    BY <2>1 DEF AllOps, TypeInv, TypeOK
  <2>4. ASSUME NEW u \in Workers, u # t PROVE EvictOK(u)'
    <3>1. pc'[u] = pc[u] /\ req'[u] = req[u] /\ todo'[u] = todo[u]
      BY <2>1, <2>2, <2>4 DEF OthersStay, TypeInv, TypeOK
    <3>2. Present(req[u].c)' = Present(req[u].c)
      BY <2>1, <3>1 DEF Present
    <3> QED
      BY <2>1, <3>1, <3>2 DEF EvictInv, EvictOK
  <2>5. EvictOK(t)'
    BY <2>3 DEF EvictOK
  <2> QED
    BY <2>4, <2>5 DEF EvictInv
<1>2. ASSUME NEW t \in Workers, Step(t) PROVE EvictInv'
  <2>1. ASSUME NEW u \in Workers, u # t PROVE EvictOK(u)'
    <3>1. pc'[u] = pc[u] /\ req'[u] = req[u] /\ todo'[u] = todo[u] /\ req[u].c \in Collections
      BY <1>2, <2>1, Touches, TypeFacts DEF Stays
    <3>2. CASE req[u].op # "evict"
      BY <3>1, <3>2 DEF EvictOK
    <3>3. CASE req[u].op = "evict"
      <4>1. req[u].c # req[t].c \/ pc[t] \notin Changing
        BY <2>1, <3>3 DEF EvictAlone
      <4>2. docs'[req[u].c] = docs[req[u].c] /\ (req[u].c \in cols => req[u].c \in cols')
        BY <1>2, <3>1, <4>1, Touches
      <4>3. Present(req[u].c)' = Present(req[u].c)
        BY <3>1, <4>2 DEF Present
      <4> QED
        BY <3>1, <4>2, <4>3 DEF EvictInv, EvictOK
    <3> QED
      BY <3>2, <3>3
  <2>2. EvictOK(t)'
    BY <1>2, EvictOwn DEF EvictInv
  <2> QED
    BY <2>1, <2>2 DEF EvictInv
<1>3. CASE CrashAndReopen
  <2>1. \A t \in Workers : req'[t] = NoRequest
    BY <1>3 DEF CrashAndReopen
  <2>2. NoRequest.op # "evict"
    BY DEF NoRequest, Call
  <2>3. \A t \in Workers : req'[t].op # "evict"
    BY <2>1, <2>2
  <2> QED
    BY <2>3 DEF EvictInv, EvictOK
<1>4. CASE UNCHANGED vars
  BY <1>4 DEF vars, EvictInv, EvictOK, Present
<1> QED
  BY <1>1, <1>2, <1>3, <1>4 DEF Next, Wait

(* The request that answers leaves no more than maxSize. *)
LEMMA EvictAnswers ==
    ASSUME TypeInv, EvictInv, [Next]_vars, crashes' = crashes, NEW t \in Workers,
           pc[t] = "max_size" \/ (pc[t] = "delete_commit" /\ req[t].op = "evict"),
           pc'[t] = "idle"
    PROVE  UNCHANGED docs /\ Cardinality(Present(req[t].c)) <= MaxSize[req[t].c]
<1> DEFINE c == req[t].c
<1>0. c \in Collections /\ MaxSize[c] \in Nat /\ Cardinality(Present(c)) \in Nat
  BY TypeFacts, MaxSizeAssumption, PresentCount
<1>1. ~CrashAndReopen
  BY DEF CrashAndReopen, TypeInv, TypeOK
<1>2. ~UNCHANGED vars
  BY DEF vars
<1>3. ASSUME NEW u \in Workers, NEW cc \in Collections, NEW r \in Requests(cc), Submit(u, r)
      PROVE  FALSE
  <2>1. pc[u] = "idle" /\ pc'[u] # "idle" /\ OthersStay(u)
    BY <1>3, SubmitPlaces
  <2>2. u # t
    BY <2>1
  <2> QED
    BY <2>1, <2>2 DEF OthersStay
<1>4. PICK u \in Workers : Step(u)
  BY <1>1, <1>2, <1>3 DEF Next, Wait
<1>5. u = t
  BY <1>4, Touches DEF Stays
<1>6. CASE pc[t] = "max_size"
  <2>1. CheckMaxSize(t)
    BY <1>4, <1>5, <1>6
    DEF Step, InsertBegin, InsertCommit, InsertItem, InsertInvalid, Select, SelectNothing,
        DeleteBegin, DeleteGet, DeleteLog, DeleteCommit, DeleteKey, UpdateRead, UpdateRejected,
        UpdateAbsent, UpdateBegin, UpdateWrite, UpdateLog, UpdateCommit, DropBegin, DropState,
        DropIndex, DropLog, DropCommit, DropCounter, SchemaBegin, SchemaLog, SchemaCommit,
        SchemaSet
  <2>2. ~(Cardinality(Present(c)) - MaxSize[c] > 0)
    <3>1. ~Goto(t, "evict")
      BY OthersStayAt
    <3> QED
      BY <2>1, <3>1 DEF CheckMaxSize
  <2>3. UNCHANGED docs
    BY <2>1 DEF CheckMaxSize, memory
  <2> HIDE DEF c
  <2>4. Cardinality(Present(c)) <= MaxSize[c]
    BY <1>0, <2>2
  <2> QED
    BY <2>3, <2>4 DEF c
<1>7. CASE pc[t] = "delete_commit" /\ req[t].op = "evict"
  <2>1. DeleteCommit(t)
    BY <1>4, <1>5, <1>7
    DEF Step, InsertBegin, InsertCommit, CheckMaxSize, InsertItem, InsertInvalid, Select,
        SelectNothing, DeleteBegin, DeleteGet, DeleteLog, DeleteKey, UpdateRead, UpdateRejected,
        UpdateAbsent, UpdateBegin, UpdateWrite, UpdateLog, UpdateCommit, DropBegin, DropState,
        DropIndex, DropLog, DropCommit, DropCounter, SchemaBegin, SchemaLog, SchemaCommit,
        SchemaSet
  <2>2. UNCHANGED docs
    BY <2>1 DEF DeleteCommit, memory
  <2>3. Cardinality(Present(c)) = MaxSize[c] + 0
    BY <1>7 DEF EvictInv, EvictOK
  <2> QED
    BY <1>0, <2>2, <2>3
<1> QED
  BY <1>6, <1>7

(***************************************************************************)
(* As long as no other request changes the collection an eviction is       *)
(* working on (evict_oldest, delete.rs), the eviction removes a document   *)
(* only while there are more than maxSize, and the insert it belongs to    *)
(* returns with no more than maxSize stored, for any number of workers,    *)
(* keys and collections.                                                   *)
(***************************************************************************)
THEOREM EngineEvictionExact == Spec /\ []EvictAlone => EvictionExact
<1> DEFINE Exact == \A t \in Workers :
        LET c == req[t].c
            stored(ds) == Cardinality({k \in Keys : ds[c][k] # NoDoc})
        IN  /\ pc[t] = "delete_keys" /\ req[t].op = "evict"
                 /\ stored(docs') < stored(docs)
                 => stored(docs) > MaxSize[c]
            /\ /\ \/ pc[t] = "max_size"
                  \/ pc[t] = "delete_commit" /\ req[t].op = "evict"
               /\ pc'[t] = "idle" /\ crashes' = crashes
               => stored(docs') <= MaxSize[c]
<1>1. TypeInv /\ EvictInv /\ [Next]_vars => Exact
  <2> SUFFICES ASSUME TypeInv, EvictInv, [Next]_vars, NEW t \in Workers
               PROVE  /\ pc[t] = "delete_keys" /\ req[t].op = "evict"
                           => Cardinality(Present(req[t].c)) > MaxSize[req[t].c]
                      /\ /\ \/ pc[t] = "max_size"
                            \/ pc[t] = "delete_commit" /\ req[t].op = "evict"
                         /\ pc'[t] = "idle" /\ crashes' = crashes
                         => /\ UNCHANGED docs
                            /\ Cardinality(Present(req[t].c)) <= MaxSize[req[t].c]
    BY DEF Present
  <2>1. ASSUME pc[t] = "delete_keys", req[t].op = "evict"
        PROVE  Cardinality(Present(req[t].c)) > MaxSize[req[t].c]
    <3> DEFINE stored == Present(req[t].c)
               max == MaxSize[req[t].c]
    <3>1. /\ todo[t] \subseteq stored /\ Cardinality(stored) = max + Cardinality(todo[t])
          /\ todo[t] # {}
      BY <2>1 DEF EvictInv, EvictOK
    <3>2. max \in Nat /\ IsFiniteSet(stored)
      BY TypeFacts, MaxSizeAssumption, PresentCount
    <3> HIDE DEF stored, max
    <3>3. Cardinality(todo[t]) \in Nat /\ Cardinality(todo[t]) # 0
      BY <3>1, <3>2, FS_Subset, FS_CardinalityType, FS_EmptySet
    <3>4. Cardinality(stored) > max
      BY <3>1, <3>2, <3>3
    <3> QED
      BY <3>4 DEF stored, max
  <2> QED
    BY <2>1, EvictAnswers
<1>2. EvictionExact <=> [][Exact]_vars
  BY PTL DEF EvictionExact
<1>3. Init => TypeInv /\ EvictInv
  <2>1. Init => \A t \in Workers : req[t].op # "evict"
    BY DEF Init, NoRequest, Call
  <2> QED
    BY <2>1, TypeInit DEF EvictInv, EvictOK
<1>4. TypeInv /\ EvictInv /\ EvictAlone /\ [Next]_vars => TypeInv' /\ EvictInv'
  BY TypeStep, EvictStep
<1> HIDE DEF Exact
<1> QED
  BY <1>1, <1>2, <1>3, <1>4, PTL DEF Spec
-----------------------------------------------------------------------------
(***************************************************************************)
(* A server that has one request under way at a time meets every condition *)
(* above: versions, guards, _seq values, the index and evictions are exact *)
(* then for all operations, drops and crashes included.                    *)
(***************************************************************************)
COROLLARY EngineExactAlone ==
    ASSUME \A t, u \in Workers : t = u
    PROVE  Spec => /\ VersionNamesContent /\ GuardHolds /\ EvictionExact
                   /\ []SeqUnique /\ []IndexMatchesWhenQuiescent
<1>1. TypeInv => UpdateAlone /\ DropAlone /\ EvictAlone
  BY DEF UpdateAlone, DropAlone, EvictAlone
<1>2. Spec => []UpdateAlone /\ []DropAlone /\ []EvictAlone
  BY <1>1, TypeInit, TypeStep, PTL DEF Spec
<1> QED
  BY <1>2, EngineVersionNames, EngineGuardHolds, EngineEvictionExact, EngineSeqUniqueDrops,
     EngineIndexQuiescent, PTL

(***************************************************************************)
(* Without updates the guards alone suffice: however many workers insert,  *)
(* evict, delete and drop, a stored document that changes gets the next    *)
(* version and keeps its _seq.                                             *)
(***************************************************************************)
COROLLARY EngineVersionNamesNoUpdate ==
    ASSUME "update" \notin Ops
    PROVE  Spec => VersionNamesContent
<1>1. Init => NoUpdate
  BY DEF Init, NoUpdate
<1>2. NoUpdate => UpdateAlone
  BY DEF NoUpdate, UpdateAlone
<1>3. Spec => []UpdateAlone
  BY <1>1, <1>2, NoUpdateStep, TypeInit, TypeStep, PTL DEF Spec
<1> QED
  BY <1>3, EngineVersionNames, PTL
=============================================================================
