------------------------------- MODULE Engine -------------------------------
(***************************************************************************)
(* The document engine of MoltenDB (moltendb-core/src/engine): the         *)
(* in-memory collections, the _seq counters, the _seq index and the        *)
(* write-ahead log, used by concurrent requests.                           *)
(*                                                                         *)
(* Each worker executes one request at a time.  Its steps are separated    *)
(* wherever the code lets another worker in between: DashMap guards are    *)
(* held exactly where the code holds them, every log write is a step of    *)
(* its own or part of a step that only touches what its guard protects.    *)
(* The log is flushed by every write (SyncDiskStorage), so a crash keeps   *)
(* it; it is represented by what its replay yields (module Replay).        *)
(* Collections with a default TTL are the subject of another module.       *)
(***************************************************************************)
EXTENDS WriteAheadLog, FiniteSets

CONSTANTS
    MaxSize,      \* collection -> the maxSize its set requests carry, NoCap if none
    Ops,          \* the operations clients call
    MaxGuard,     \* bound: the largest _v an update names as its guard
    MaxRequests,  \* bound: requests in a behaviour
    MaxCrashes    \* bound: crashes in a behaviour

(***************************************************************************)
(* A transaction id is a fresh UUID per request.  A worker has at most one *)
(* transaction under way and starts it with a BEGIN, so the worker's name  *)
(* identifies it.                                                          *)
(***************************************************************************)
Workers == TxIds

AllOps == {"insert", "update", "delete", "delete_n", "delete_filtered",
           "delete_collection", "set_schema"}

ASSUME OpsAssumption == Ops \subseteq AllOps
ASSUME MaxSizeAssumption == MaxSize \in [Collections -> Nat]
ASSUME CollectionsAssumption == Collections # {}
ASSUME KeysAssumption == Keys # {} /\ IsFiniteSet(Keys)
ASSUME EngineBoundsAssumption ==
    MaxGuard \in Nat /\ MaxRequests \in Nat /\ MaxCrashes \in Nat

NoCap == 0      \* process_set refuses a maxSize of 0
NoGuard == 0    \* an update without a _v field

VARIABLES
    cols,          \* the collections in memory
    docs,          \* collection -> key -> document in memory
    schemas,       \* collection -> the bodies its schema accepts
    seq_counters,  \* collection -> next _seq
    seq_index,     \* collection -> BTreeMap _seq -> key, as a set of pairs
    wal,           \* the log, as the accumulator of ReplayEntry
    pc,            \* worker -> where its request stands
    req,           \* worker -> the request it executes
    todo,          \* worker -> keys of the batch still to be processed
    key,           \* worker -> the key of the document in hand
    doc,           \* worker -> the document in hand
    failed,        \* documents left in memory by a batch that ended in an error
    budget,        \* requests that may still arrive
    crashes        \* crashes so far

memory == <<cols, docs, schemas, seq_counters, seq_index>>
local == <<pc, req, todo, key, doc>>
vars == <<cols, docs, schemas, seq_counters, seq_index, wal, pc, req, todo, key,
          doc, failed, budget, crashes>>
-----------------------------------------------------------------------------
(***************************************************************************)
(* Requests.  `body' maps the keys of a batch to the bodies to write, n is *)
(* a count or the _v guard of an update, `bodies' is what a predicate      *)
(* matches or a schema accepts.                                            *)
(***************************************************************************)
Request == [op     : AllOps \cup {"none", "evict"},
            c      : Collections,
            keys   : SUBSET Keys,
            body   : UNION {[K -> Bodies] : K \in SUBSET Keys},
            bodies : SUBSET Bodies,
            n      : Nat,
            order  : {"asc", "desc"}]

Call(op, c, body, bodies, n, order) ==
    [op |-> op, c |-> c, keys |-> DOMAIN body, body |-> body,
     bodies |-> bodies, n |-> n, order |-> order]

NoBodies == [k \in {} |-> CHOOSE b \in Bodies : TRUE]
NoRequest == Call("none", CHOOSE c \in Collections : TRUE, NoBodies, {}, 0, "asc")

KeysOnly(r, ks) ==
    [op |-> r.op, c |-> r.c, keys |-> ks, body |-> r.body,
     bodies |-> r.bodies, n |-> r.n, order |-> r.order]

Batches == UNION {[K -> Bodies] : K \in (SUBSET Keys) \ {{}}}

InsertRequests(c) == {Call("insert", c, b, {}, 0, "asc") : b \in Batches}

Patches == UNION {[{k} -> Bodies] : k \in Keys}

UpdateRequests(c) == {Call("update", c, b, {}, g, "asc") :
                        b \in Patches, g \in 0 .. MaxGuard}

DeleteRequests(c) == {KeysOnly(Call("delete", c, NoBodies, {}, 0, "asc"), ks) :
                        ks \in (SUBSET Keys) \ {{}}}

DeleteNRequests(c) == {Call("delete_n", c, NoBodies, {}, n, order) :
                         n \in 1 .. Cardinality(Keys), order \in {"asc", "desc"}}

DeleteMatching(c, b) ==
    {Call("delete_filtered", c, NoBodies, {b}, n, order) :
       n \in 1 .. Cardinality(Keys), order \in {"asc", "desc"}}

DeleteFilteredRequests(c) == UNION {DeleteMatching(c, b) : b \in Bodies}

DropRequests(c) == {Call("delete_collection", c, NoBodies, {}, 0, "asc")}

SchemaRequests(c) == {Call("set_schema", c, NoBodies, bs, 0, "asc") :
                        bs \in SUBSET Bodies}

Requests(c) ==
    InsertRequests(c) \cup UpdateRequests(c) \cup DeleteRequests(c)
      \cup DeleteNRequests(c) \cup DeleteFilteredRequests(c)
      \cup DropRequests(c) \cup SchemaRequests(c)
-----------------------------------------------------------------------------
(***************************************************************************)
(* DashMap guards, by where a worker stands.  insert holds the exclusive   *)
(* guard of its collection from before TX_BEGIN to after TX_COMMIT; update *)
(* and delete hold a shared one, taken after TX_BEGIN; delete releases it  *)
(* before TX_COMMIT.  Each collection is taken to be in a shard of its own.*)
(***************************************************************************)
Exclusive(c) == \E t \in Workers : req[t].c = c /\ pc[t] = "insert_items"

Shared(c) == \E t \in Workers :
    /\ req[t].c = c
    /\ pc[t] \in {"update_write", "update_log", "update_commit",
                  "delete_keys", "delete_log"}

Goto(t, where) == pc' = [pc EXCEPT ![t] = where]

NoKey == CHOOSE k \in Keys : TRUE

(* A collection without an entry in seq_index: no index holds a negative _seq. *)
NoIndex == {<<-1, NoKey>>}

(* The request returns to its caller. *)
Return(t) ==
    /\ Goto(t, "idle")
    /\ req' = [req EXCEPT ![t] = NoRequest]
    /\ todo' = [todo EXCEPT ![t] = {}]
    /\ key' = [key EXCEPT ![t] = NoKey]
    /\ doc' = [doc EXCEPT ![t] = NoDoc]

WriteEntry(e) == wal' = ReplayEntry(wal, e, 0)

Present(c) == {k \in Keys : docs[c][k] # NoDoc}

(* BTreeMap::insert and ::remove *)
IndexInsert(idx, seq, k) ==
    {p \in idx : p[1] # seq} \cup {<<seq, k>>}

(* Fault: the entry stays. *)
IndexRemoveNothing(idx, seq) == idx

IndexRemove(idx, seq) == {p \in idx : p[1] # seq}

(* A collection without an index has no entries in it. *)
IndexOf(c) == IF seq_index[c] = NoIndex THEN {} ELSE seq_index[c]

(* validate_document: a collection without a schema accepts every body. *)
Valid(c, d) == d.body \in schemas[c]

(* A request that arrives is taken up by an idle worker. *)
Submit(t, r) ==
    /\ pc[t] = "idle"
    /\ r.op \in Ops
    /\ budget > 0
    /\ budget' = budget - 1
    /\ req' = [req EXCEPT ![t] = r]
    /\ Goto(t, r.op)
    /\ UNCHANGED <<memory, wal, todo, key, doc, failed, crashes>>
-----------------------------------------------------------------------------
(* Fault: the transaction starts before the collection is locked. *)
InsertBeginUnlocked(t) ==
    LET c == req[t].c IN
    /\ pc[t] = "insert"
    /\ cols' = cols \cup {c}
    /\ WriteEntry(TxBegin(c, t))
    /\ todo' = [todo EXCEPT ![t] = req[t].keys]
    /\ Goto(t, "insert_items")
    /\ UNCHANGED <<docs, schemas, seq_counters, seq_index, req, key, doc, failed,
                   budget, crashes>>

(***************************************************************************)
(* insert (operations/set.rs): the collection is created if need be and    *)
(* locked, then the transaction starts.                                    *)
(***************************************************************************)
InsertBegin(t) ==
    LET c == req[t].c IN
    /\ pc[t] = "insert"
    /\ ~Exclusive(c) /\ ~Shared(c)
    /\ cols' = cols \cup {c}
    /\ WriteEntry(TxBegin(c, t))
    /\ todo' = [todo EXCEPT ![t] = req[t].keys]
    /\ Goto(t, "insert_items")
    /\ UNCHANGED <<docs, schemas, seq_counters, seq_index, req, key, doc, failed,
                   budget, crashes>>

(* Fault: an overwrite starts again at version 1. *)
StoredAnew(old, seq, body) == [v |-> 1, seq |-> seq, body |-> body]

(* The document an insert stores: an overwrite keeps _seq and bumps _v. *)
Stored(old, seq, body) ==
    IF old = NoDoc THEN [v |-> 1, seq |-> seq, body |-> body]
                   ELSE [v |-> old.v + 1, seq |-> old.seq, body |-> body]

(* Fault: the counter is read and not advanced. *)
InsertItemPeeks(t, k) ==
    LET c == req[t].c
        d == Stored(docs[c][k], seq_counters[c], req[t].body[k])
    IN
    /\ pc[t] = "insert_items"
    /\ k \in todo[t]
    /\ Valid(c, d)
    /\ docs' = [docs EXCEPT ![c][k] = d]
    /\ seq_index' = [seq_index EXCEPT ![c] = IndexInsert(IndexOf(c), d.seq, k)]
    /\ WriteEntry(InsertEntry(c, k, d))
    /\ todo' = [todo EXCEPT ![t] = @ \ {k}]
    /\ UNCHANGED <<cols, schemas, seq_counters, pc, req, key, doc, failed, budget,
                   crashes>>

(***************************************************************************)
(* One item of the batch.  A _seq is drawn whether it is needed or not.    *)
(***************************************************************************)
InsertItem(t, k) ==
    LET c == req[t].c
        d == Stored(docs[c][k], seq_counters[c], req[t].body[k])
    IN
    /\ pc[t] = "insert_items"
    /\ k \in todo[t]
    /\ Valid(c, d)
    /\ seq_counters' = [seq_counters EXCEPT ![c] = @ + 1]
    /\ docs' = [docs EXCEPT ![c][k] = d]
    /\ seq_index' = [seq_index EXCEPT ![c] = IndexInsert(IndexOf(c), d.seq, k)]
    /\ WriteEntry(InsertEntry(c, k, d))
    /\ todo' = [todo EXCEPT ![t] = @ \ {k}]
    /\ failed' = failed \ {<<c, k>>}
    /\ UNCHANGED <<cols, schemas, pc, req, key, doc, budget, crashes>>

(* Fault: the part of the batch before the rejected item is committed. *)
InsertInvalidCommits(t, k) ==
    /\ pc[t] = "insert_items"
    /\ k \in todo[t]
    /\ req[t].body[k] \notin schemas[req[t].c]
    /\ seq_counters' = [seq_counters EXCEPT ![req[t].c] = @ + 1]
    /\ WriteEntry(TxCommit(req[t].c, t))
    /\ Return(t)
    /\ UNCHANGED <<cols, docs, schemas, seq_index, failed, budget, crashes>>

(***************************************************************************)
(* An item the schema rejects ends the request with an error: the items    *)
(* before it stay in memory, their transaction stays without a COMMIT.     *)
(***************************************************************************)
InsertInvalid(t, k) ==
    LET c == req[t].c
        d == Stored(docs[c][k], seq_counters[c], req[t].body[k])
    IN
    /\ pc[t] = "insert_items"
    /\ k \in todo[t]
    /\ ~Valid(c, d)
    /\ seq_counters' = [seq_counters EXCEPT ![c] = @ + 1]
    /\ failed' = failed \cup ({c} \X (req[t].keys \ todo[t]))
    /\ Return(t)
    /\ UNCHANGED <<cols, docs, schemas, seq_index, wal, budget, crashes>>

InsertCommit(t) ==
    /\ pc[t] = "insert_items"
    /\ todo[t] = {}
    /\ WriteEntry(TxCommit(req[t].c, t))
    /\ IF MaxSize[req[t].c] = NoCap
       THEN Return(t)
       ELSE Goto(t, "max_size") /\ UNCHANGED <<req, todo, key, doc>>
    /\ UNCHANGED <<memory, failed, budget, crashes>>

(* Fault: one document more than the overflow is evicted. *)
CheckMaxSizeOneMore(t) ==
    LET c == req[t].c
        overflow == Cardinality(Present(c)) - MaxSize[c]
    IN
    /\ pc[t] = "max_size"
    /\ ~Exclusive(c)
    /\ IF overflow > 0
       THEN /\ req' = [req EXCEPT ![t] =
                         Call("evict", c, NoBodies, {}, overflow + 1, "asc")]
            /\ Goto(t, "evict")
            /\ UNCHANGED <<todo, key, doc>>
       ELSE Return(t)
    /\ UNCHANGED <<memory, wal, failed, budget, crashes>>

(* Db::insert, after the batch: is the collection over its maxSize now? *)
CheckMaxSize(t) ==
    LET c == req[t].c
        overflow == Cardinality(Present(c)) - MaxSize[c]
    IN
    /\ pc[t] = "max_size"
    /\ ~Exclusive(c)
    /\ IF overflow > 0
       THEN /\ req' = [req EXCEPT ![t] =
                         Call("evict", c, NoBodies, {}, overflow, "asc")]
            /\ Goto(t, "evict")
            /\ UNCHANGED <<todo, key, doc>>
       ELSE Return(t)
    /\ UNCHANGED <<memory, wal, failed, budget, crashes>>
-----------------------------------------------------------------------------
(***************************************************************************)
(* The first n of a set of <<_seq, key>> pairs in _seq order, ascending or *)
(* descending; pairs with the same _seq come in any order.                 *)
(***************************************************************************)
IsFirstN(pairs, n, order, chosen) ==
    /\ chosen \subseteq pairs
    /\ Cardinality(chosen)
         = IF n < Cardinality(pairs) THEN n ELSE Cardinality(pairs)
    /\ \A p \in chosen, q \in pairs \ chosen :
          IF order = "asc" THEN p[1] <= q[1] ELSE p[1] >= q[1]

SeqPairs(ds) == {<<ds[k].seq, k>> : k \in {kk \in Keys : ds[kk] # NoDoc}}

(* What evict_oldest, delete_filtered and delete_n choose from. *)
Candidates(t) ==
    LET c == req[t].c IN
    CASE pc[t] = "evict" -> SeqPairs(docs[c])
      [] pc[t] = "delete_filtered" ->
            {p \in SeqPairs(docs[c]) :
                docs[c][p[2]].body \in req[t].bodies}
      [] pc[t] = "delete_n" ->
            IF seq_index[c] # NoIndex THEN seq_index[c]
                                      ELSE SeqPairs(docs[c])

(***************************************************************************)
(* The keys to delete are chosen under a shared guard that is released     *)
(* before delete is called with them.                                      *)
(***************************************************************************)
Select(t, chosen) ==
    /\ pc[t] \in {"evict", "delete_filtered", "delete_n"}
    /\ ~Exclusive(req[t].c)
    /\ req[t].c \in cols
    /\ chosen # {}
    /\ IsFirstN(Candidates(t), req[t].n, req[t].order, chosen)
    /\ req' = [req EXCEPT ![t] = KeysOnly(req[t], {p[2] : p \in chosen})]
    /\ Goto(t, "delete")
    /\ UNCHANGED <<memory, wal, todo, key, doc, failed, budget, crashes>>

SelectNothing(t) ==
    /\ pc[t] \in {"evict", "delete_filtered", "delete_n"}
    /\ ~Exclusive(req[t].c)
    /\ req[t].c \notin cols \/ Candidates(t) = {}
    /\ Return(t)
    /\ UNCHANGED <<memory, wal, failed, budget, crashes>>
-----------------------------------------------------------------------------
(* delete (operations/delete.rs): TX_BEGIN comes before any guard. *)
DeleteBegin(t) ==
    /\ pc[t] = "delete"
    /\ WriteEntry(TxBegin(req[t].c, t))
    /\ Goto(t, "delete_get")
    /\ UNCHANGED <<memory, req, todo, key, doc, failed, budget, crashes>>

DeleteGet(t) ==
    /\ pc[t] = "delete_get"
    /\ ~Exclusive(req[t].c)
    /\ IF req[t].c \in cols
       THEN /\ todo' = [todo EXCEPT ![t] = req[t].keys]
            /\ Goto(t, "delete_keys")
       ELSE Goto(t, "delete_commit") /\ UNCHANGED todo
    /\ UNCHANGED <<memory, wal, req, key, doc, failed, budget, crashes>>

(* Fault: the key is not taken off the batch, so the loop never ends. *)
DeleteKeyAgain(t, k) ==
    /\ pc[t] = "delete_keys"
    /\ k \in todo[t]
    /\ docs' = [docs EXCEPT ![req[t].c][k] = NoDoc]
    /\ seq_index' = [seq_index EXCEPT ![req[t].c] = {p \in IndexOf(req[t].c) : p[2] # k}]
    /\ key' = [key EXCEPT ![t] = k]
    /\ Goto(t, "delete_log")
    /\ UNCHANGED <<cols, schemas, seq_counters, wal, req, todo, doc, failed, budget,
                   crashes>>

(***************************************************************************)
(* A key leaves seq_index (under the _seq of the stored document) and then *)
(* the collection (delete.rs:38-47; the log entry is the step after it).   *)
(* They are one step: inserts and drops wait for the guard, an update      *)
(* writes the collection alone, a selection reads one of the two, and a    *)
(* second delete of the key only repeats them.                             *)
(***************************************************************************)
DeleteKey(t, k) ==
    LET c == req[t].c
        old == docs[c][k]
    IN
    /\ pc[t] = "delete_keys"
    /\ k \in todo[t]
    /\ seq_index' = IF old = NoDoc \/ seq_index[c] = NoIndex THEN seq_index
                    ELSE [seq_index EXCEPT ![c] = IndexRemove(@, old.seq)]
    /\ docs' = [docs EXCEPT ![c][k] = NoDoc]
    /\ todo' = [todo EXCEPT ![t] = @ \ {k}]
    /\ key' = [key EXCEPT ![t] = k]
    /\ failed' = failed \ {<<c, k>>}
    /\ Goto(t, "delete_log")
    /\ UNCHANGED <<cols, schemas, seq_counters, wal, req, doc, budget, crashes>>

(* Fault: the deletion is not logged. *)
DeleteLogForgotten(t) ==
    /\ pc[t] = "delete_log"
    /\ Goto(t, IF todo[t] = {} THEN "delete_commit" ELSE "delete_keys")
    /\ UNCHANGED <<memory, wal, req, todo, key, doc, failed, budget, crashes>>

DeleteLog(t) ==
    /\ pc[t] = "delete_log"
    /\ WriteEntry(DeleteEntry(req[t].c, key[t]))
    /\ Goto(t, IF todo[t] = {} THEN "delete_commit" ELSE "delete_keys")
    /\ UNCHANGED <<memory, req, todo, key, doc, failed, budget, crashes>>

DeleteCommit(t) ==
    /\ pc[t] = "delete_commit"
    /\ WriteEntry(TxCommit(req[t].c, t))
    /\ Return(t)
    /\ UNCHANGED <<memory, failed, budget, crashes>>
-----------------------------------------------------------------------------
(* update (operations/update.rs): TX_BEGIN, then the document is read. *)
UpdateBegin(t) ==
    /\ pc[t] = "update"
    /\ WriteEntry(TxBegin(req[t].c, t))
    /\ Goto(t, "update_read")
    /\ UNCHANGED <<memory, req, todo, key, doc, failed, budget, crashes>>

Conflict(r, d) == r.n # NoGuard /\ r.n # d.v

(* The patch is taken to replace the whole body. *)
Patched(d, body) == [v |-> d.v + 1, seq |-> d.seq, body |-> body]

(* The shared guard is taken and the document copied; the guard is kept. *)
UpdateRead(t, k) ==
    LET c == req[t].c
        d == docs[c][k]
        new == Patched(d, req[t].body[k])
    IN
    /\ pc[t] = "update_read"
    /\ k \in req[t].keys
    /\ ~Exclusive(c)
    /\ d # NoDoc /\ ~Conflict(req[t], d) /\ Valid(c, new)
    /\ key' = [key EXCEPT ![t] = k]
    /\ doc' = [doc EXCEPT ![t] = new]
    /\ Goto(t, "update_write")
    /\ UNCHANGED <<memory, wal, req, todo, failed, budget, crashes>>

(* The guard or the schema says no: an error, and no COMMIT. *)
UpdateRejected(t, k) ==
    LET c == req[t].c
        d == docs[c][k]
    IN
    /\ pc[t] = "update_read"
    /\ k \in req[t].keys
    /\ ~Exclusive(c)
    /\ d # NoDoc
    /\ Conflict(req[t], d) \/ ~Valid(c, Patched(d, req[t].body[k]))
    /\ Return(t)
    /\ UNCHANGED <<memory, wal, failed, budget, crashes>>

(* Fault: a document that is not there is written all the same. *)
UpdateAbsentWrites(t, k) ==
    /\ pc[t] = "update_read"
    /\ k \in req[t].keys
    /\ docs[req[t].c][k] = NoDoc
    /\ Goto(t, "update_write")
    /\ UNCHANGED <<memory, wal, req, todo, key, doc, failed, budget, crashes>>

(* Not found: the guard is released and the empty transaction committed. *)
UpdateAbsent(t, k) ==
    /\ pc[t] = "update_read"
    /\ k \in req[t].keys
    /\ ~Exclusive(req[t].c)
    /\ docs[req[t].c][k] = NoDoc
    /\ Goto(t, "update_absent")
    /\ UNCHANGED <<memory, wal, req, todo, key, doc, failed, budget, crashes>>

UpdateWrite(t) ==
    /\ pc[t] = "update_write"
    /\ docs' = [docs EXCEPT ![req[t].c][key[t]] = doc[t]]
    /\ failed' = failed \ {<<req[t].c, key[t]>>}
    /\ Goto(t, "update_log")
    /\ UNCHANGED <<cols, schemas, seq_counters, seq_index, wal, req, todo, key, doc,
                   budget, crashes>>

UpdateLog(t) ==
    /\ pc[t] = "update_log"
    /\ WriteEntry(InsertEntry(req[t].c, key[t], doc[t]))
    /\ Goto(t, "update_commit")
    /\ UNCHANGED <<memory, req, todo, key, doc, failed, budget, crashes>>

UpdateCommit(t) ==
    /\ pc[t] \in {"update_commit", "update_absent"}
    /\ WriteEntry(TxCommit(req[t].c, t))
    /\ Return(t)
    /\ UNCHANGED <<memory, failed, budget, crashes>>
-----------------------------------------------------------------------------
(* delete_collection: memory, index, log and counters, one after another. *)
DropBegin(t) ==
    /\ pc[t] = "delete_collection"
    /\ WriteEntry(TxBegin(req[t].c, t))
    /\ Goto(t, "drop_state")
    /\ UNCHANGED <<memory, req, todo, key, doc, failed, budget, crashes>>

DropState(t) ==
    LET c == req[t].c IN
    /\ pc[t] = "drop_state"
    /\ ~Exclusive(c) /\ ~Shared(c)
    /\ cols' = cols \ {c}
    /\ docs' = [docs EXCEPT ![c] = NoDocs]
    /\ failed' = failed \ ({c} \X Keys)
    /\ Goto(t, "drop_index")
    /\ UNCHANGED <<schemas, seq_counters, seq_index, wal, req, todo, key, doc,
                   budget, crashes>>

DropIndex(t) ==
    /\ pc[t] = "drop_index"
    /\ seq_index' = [seq_index EXCEPT ![req[t].c] = NoIndex]
    /\ Goto(t, "drop_log")
    /\ UNCHANGED <<cols, docs, schemas, seq_counters, wal, req, todo, key, doc,
                   failed, budget, crashes>>

DropLog(t) ==
    /\ pc[t] = "drop_log"
    /\ WriteEntry(DropEntry(req[t].c))
    /\ Goto(t, "drop_commit")
    /\ UNCHANGED <<memory, req, todo, key, doc, failed, budget, crashes>>

DropCommit(t) ==
    /\ pc[t] = "drop_commit"
    /\ WriteEntry(TxCommit(req[t].c, t))
    /\ Goto(t, "drop_counter")
    /\ UNCHANGED <<memory, req, todo, key, doc, failed, budget, crashes>>

(* Db::delete_collection forgets the counter: the next insert starts at 0. *)
DropCounter(t) ==
    /\ pc[t] = "drop_counter"
    /\ seq_counters' = [seq_counters EXCEPT ![req[t].c] = 0]
    /\ Return(t)
    /\ UNCHANGED <<cols, docs, schemas, seq_index, wal, failed, budget, crashes>>
-----------------------------------------------------------------------------
(* set_schema (schema.rs): the log first, then memory, under no guard. *)
SchemaBegin(t) ==
    /\ pc[t] = "set_schema"
    /\ WriteEntry(TxBegin(req[t].c, t))
    /\ Goto(t, "schema_log")
    /\ UNCHANGED <<memory, req, todo, key, doc, failed, budget, crashes>>

SchemaLog(t) ==
    /\ pc[t] = "schema_log"
    /\ WriteEntry(SchemaEntry(req[t].c, req[t].bodies))
    /\ Goto(t, "schema_commit")
    /\ UNCHANGED <<memory, req, todo, key, doc, failed, budget, crashes>>

SchemaCommit(t) ==
    /\ pc[t] = "schema_commit"
    /\ WriteEntry(TxCommit(req[t].c, t))
    /\ Goto(t, "schema_set")
    /\ UNCHANGED <<memory, req, todo, key, doc, failed, budget, crashes>>

SchemaSet(t) ==
    /\ pc[t] = "schema_set"
    /\ schemas' = [schemas EXCEPT ![req[t].c] = req[t].bodies]
    /\ Return(t)
    /\ UNCHANGED <<cols, docs, seq_counters, seq_index, wal, failed, budget, crashes>>
-----------------------------------------------------------------------------
(***************************************************************************)
(* The process stops at any point and Db::open replays the log, rebuilds   *)
(* seq_index and seeds each counter just above the highest _seq found.     *)
(* Where two recovered documents share a _seq the BTreeMap keeps one.      *)
(***************************************************************************)
(* Fault: the counter of a recovered collection starts over. *)
MaxSeqForgotten(ds) == 0

MaxSeq(ds) ==
    LET seqs == {0} \cup {ds[k].seq : k \in {kk \in Keys : ds[kk] # NoDoc}}
    IN  CHOOSE m \in seqs : \A s \in seqs : s <= m

RebuildIndex(ds) ==
    LET pairs == SeqPairs(ds)
    IN  {p \in pairs : p = CHOOSE q \in pairs : q[1] = p[1]}

CrashAndReopen ==
    LET db == wal.durable IN
    /\ crashes < MaxCrashes
    /\ crashes' = crashes + 1
    /\ cols' = db.cols
    /\ docs' = db.docs
    /\ schemas' = db.schemas
    /\ seq_index' = [c \in Collections |->
            IF c \in db.cols THEN RebuildIndex(db.docs[c]) ELSE NoIndex]
    /\ seq_counters' = [c \in Collections |->
            IF c \in db.cols THEN MaxSeq(db.docs[c]) + 1 ELSE 0]
    /\ pc' = [t \in Workers |-> "idle"]
    /\ req' = [t \in Workers |-> NoRequest]
    /\ todo' = [t \in Workers |-> {}]
    /\ key' = [t \in Workers |-> NoKey]
    /\ doc' = [t \in Workers |-> NoDoc]
    /\ failed' = {}
    /\ UNCHANGED <<wal, budget>>
-----------------------------------------------------------------------------
Init ==
    /\ cols = {}
    /\ docs = [c \in Collections |-> NoDocs]
    /\ schemas = [c \in Collections |-> NoSchema]
    /\ seq_counters = [c \in Collections |-> 0]
    /\ seq_index = [c \in Collections |-> NoIndex]
    /\ wal = EmptyLog
    /\ pc = [t \in Workers |-> "idle"]
    /\ req = [t \in Workers |-> NoRequest]
    /\ todo = [t \in Workers |-> {}]
    /\ key = [t \in Workers |-> NoKey]
    /\ doc = [t \in Workers |-> NoDoc]
    /\ failed = {}
    /\ budget = MaxRequests
    /\ crashes = 0

(* One step of the request worker t executes. *)
Step(t) ==
    \/ InsertBegin(t) \/ InsertCommit(t) \/ CheckMaxSize(t)
    \/ \E k \in Keys : InsertItem(t, k) \/ InsertInvalid(t, k)
    \/ \E chosen \in SUBSET (IF pc[t] \in {"evict", "delete_filtered", "delete_n"}
                             THEN Candidates(t) ELSE {}) : Select(t, chosen)
    \/ SelectNothing(t)
    \/ DeleteBegin(t) \/ DeleteGet(t) \/ DeleteLog(t) \/ DeleteCommit(t)
    \/ \E k \in Keys : DeleteKey(t, k)
    \/ \E k \in Keys : UpdateRead(t, k) \/ UpdateRejected(t, k) \/ UpdateAbsent(t, k)
    \/ UpdateBegin(t) \/ UpdateWrite(t) \/ UpdateLog(t) \/ UpdateCommit(t)
    \/ DropBegin(t) \/ DropState(t) \/ DropIndex(t) \/ DropLog(t)
    \/ DropCommit(t) \/ DropCounter(t)
    \/ SchemaBegin(t) \/ SchemaLog(t) \/ SchemaCommit(t) \/ SchemaSet(t)

Quiescent == \A t \in Workers : pc[t] = "idle"

(* No more requests arrive: the server waits. *)
Wait == Quiescent /\ budget = 0 /\ UNCHANGED vars

Next ==
    \/ \E t \in Workers, c \in Collections :
          \E r \in Requests(c) : Submit(t, r)
    \/ \E t \in Workers : Step(t)
    \/ CrashAndReopen
    \/ Wait

Spec == Init /\ [][Next]_vars

(* Every worker is scheduled: a request that can take a step takes one. *)
FairSpec == Spec /\ \A t \in Workers : WF_vars(Step(t))
-----------------------------------------------------------------------------
Db == [cols    : SUBSET Collections,
       docs    : [Collections -> [Keys -> Doc \cup {NoDoc}]],
       ttl     : [Collections -> Int],
       schemas : [Collections -> SUBSET Bodies]]

PCs == AllOps \cup
    {"idle", "insert_items", "max_size", "evict", "delete_get", "delete_keys",
     "delete_log", "delete_commit", "update_read", "update_write", "update_log",
     "update_commit", "update_absent", "drop_state", "drop_index", "drop_log",
     "drop_commit", "drop_counter", "schema_log", "schema_commit", "schema_set"}

WorkerOK(t) ==
    /\ pc[t] \in {"insert", "insert_items", "update", "update_read"}
          => req[t].body \in [req[t].keys -> Bodies]
    /\ todo[t] \subseteq req[t].keys
    /\ todo[t] # {} => pc[t] \in {"insert_items", "delete_keys", "delete_log"}
    /\ pc[t] \in {"update_write", "update_log"} => doc[t] \in Doc

(***************************************************************************)
(* The engine's maps, the replayed log and the workers' locals have the    *)
(* shapes the Rust types give them, and a worker that writes an updated    *)
(* document holds one.                                                     *)
(***************************************************************************)
TypeOK ==
    /\ cols \in SUBSET Collections
    /\ docs \in [Collections -> [Keys -> Doc \cup {NoDoc}]]
    /\ schemas \in [Collections -> SUBSET Bodies]
    /\ seq_counters \in [Collections -> Nat]
    /\ seq_index \in [Collections -> (SUBSET (Nat \X Keys)) \cup {NoIndex}]
    /\ wal \in [durable : Db, pending : Db, active : TxIds \cup {NoTx}]
    /\ pc \in [Workers -> PCs]
    /\ req \in [Workers -> Request]
    /\ todo \in [Workers -> SUBSET Keys]
    /\ key \in [Workers -> Keys]
    /\ doc \in [Workers -> Doc \cup {NoDoc}]
    /\ failed \in SUBSET (Collections \X Keys)
    /\ budget \in Nat
    /\ crashes \in Nat
    /\ \A t \in Workers : WorkerOK(t)

(***************************************************************************)
(* When every request has been answered, a restart would bring back        *)
(* exactly what readers see: no answered write is lost, none comes back    *)
(* that was deleted, dropped or refused.  Only documents a failed batch    *)
(* left behind may differ, as set.rs states.                               *)
(***************************************************************************)
AckedWritesDurable ==
    Quiescent =>
        /\ \A c \in Collections, k \in Keys :
              <<c, k>> \notin failed =>
                 docs[c][k] = wal.durable.docs[c][k]
        /\ schemas = wal.durable.schemas

(***************************************************************************)
(* _seq orders the documents of a collection: no two share one, and the    *)
(* counter is ahead of them all, across overwrites, deletes, failed        *)
(* batches and restarts (open.rs seeds the counter for this).              *)
(***************************************************************************)
SeqUnique ==
    \A c \in Collections : \A k \in Present(c) :
        /\ docs[c][k].seq < seq_counters[c]
        /\ \A l \in Present(c) :
              docs[c][k].seq = docs[c][l].seq => k = l

(***************************************************************************)
(* Why SeqUnique survives restarts and interleaved logs: every copy of a   *)
(* document that may still become the stored one (in memory, in the log,   *)
(* in the open transaction if that can still commit, in the hands of an    *)
(* update) has a _seq below the counter, and _seqs never pass from one key *)
(* to another.  It holds as long as no collection is dropped.              *)
(***************************************************************************)
InTx(t) == pc[t] \in {"insert_items", "delete_get", "delete_keys", "delete_log",
                      "delete_commit", "update_read", "update_write", "update_log",
                      "update_commit", "update_absent", "drop_state",
                      "drop_index", "drop_log", "drop_commit", "schema_log",
                      "schema_commit"}

PendingIsLive == wal.active # NoTx /\ InTx(wal.active)

InHand(t) == pc[t] \in {"update_write", "update_log"}

Copies(c, k) ==
    ({docs[c][k], wal.durable.docs[c][k]}
       \cup (IF PendingIsLive THEN {wal.pending.docs[c][k]} ELSE {})
       \cup {doc[t] : t \in {u \in Workers : InHand(u) /\ req[u].c = c /\ key[u] = k}})
    \ {NoDoc}

SeqInv ==
    \A c \in Collections : \A k, l \in Keys :
        \A d \in Copies(c, k), e \in Copies(c, l) :
            d.seq < seq_counters[c] /\ (d.seq = e.seq => k = l)

(***************************************************************************)
(* seq_index lists exactly the stored documents, so the unfiltered get and *)
(* delete_n miss none and follow no stale key.                             *)
(***************************************************************************)
IndexMatches ==
    \A c \in Collections : IndexOf(c) = SeqPairs(docs[c])

IndexMatchesWhenQuiescent == Quiescent => IndexMatches

(***************************************************************************)
(* While the process lives, a stored document that changes gets the next   *)
(* version and keeps its _seq: _v names one content of the document, which *)
(* is what the guard of an update relies on.                               *)
(***************************************************************************)
VersionNamesContent ==
    [][crashes' = crashes =>
        \A c \in Collections, k \in Keys :
           LET d == docs[c][k]
               e == docs'[c][k]
           IN  d # NoDoc /\ e # NoDoc /\ d # e
                  => e.v = d.v + 1 /\ e.seq = d.seq]_vars

(***************************************************************************)
(* An update that names a version replaces that version and no other, the  *)
(* promise of optimistic concurrency control (README.md:75, update.rs:52). *)
(* It does not hold of two updates of one document: the guard they compare *)
(* under is shared, so both may compare before either writes.              *)
(***************************************************************************)
GuardHolds ==
    [][\A t \in Workers :
        pc[t] = "update_write" /\ pc'[t] = "update_log" /\ req[t].n # NoGuard
          => LET d == docs[req[t].c][key[t]]
             IN  d # NoDoc /\ d.v = req[t].n]_vars

(***************************************************************************)
(* Eviction brings a collection back to its maxSize: it removes a document *)
(* only while there are more than maxSize, and an insert that was not      *)
(* refused leaves no more than maxSize (evict_oldest, delete.rs).          *)
(***************************************************************************)
EvictionExact ==
    [][\A t \in Workers :
        LET c == req[t].c
            stored(ds) == Cardinality({k \in Keys : ds[c][k] # NoDoc})
        IN  /\ pc[t] = "delete_keys" /\ req[t].op = "evict"
                 /\ stored(docs') < stored(docs)
                 => stored(docs) > MaxSize[c]
            /\ /\ \/ pc[t] = "max_size"
                  \/ pc[t] = "delete_commit" /\ req[t].op = "evict"
               /\ pc'[t] = "idle" /\ crashes' = crashes
               => stored(docs') <= MaxSize[c]]_vars

(***************************************************************************)
(* Every request is answered: no guard is waited for in vain.              *)
(***************************************************************************)
RequestsReturn == \A t \in Workers : pc[t] # "idle" ~> pc[t] = "idle"

(***************************************************************************)
(* The durable content as an AtomicStore: kv is what a replay would bring  *)
(* back now, and a worker's write is pending from its acceptance (for a    *)
(* delete by count or predicate: from the choice of its keys) to COMMIT.   *)
(***************************************************************************)
NoWrite == [kind |-> "none"]

WriteKind(where) ==
    CASE where \in {"insert", "insert_items"} -> "put"
      [] where \in {"update", "update_read", "update_write", "update_log",
                    "update_commit", "update_absent"} -> "patch"
      [] where \in {"delete", "delete_get", "delete_keys", "delete_log",
                    "delete_commit"} -> "remove"
      [] where \in {"delete_collection", "drop_state", "drop_index",
                    "drop_log", "drop_commit"} -> "drop"
      [] OTHER -> "none"

PendingWrite(t) ==
    IF WriteKind(pc[t]) = "none" THEN NoWrite
    ELSE [kind |-> WriteKind(pc[t]), c |-> req[t].c, keys |-> req[t].keys,
          body |-> req[t].body]

Abstract == INSTANCE AtomicStore
    WITH Clients <- Workers,
         kv <- wal.durable.docs,
         write <- [t \in Workers |-> PendingWrite(t)]

(***************************************************************************)
(* The log makes every write atomic: what a restart brings back changes    *)
(* only by one accepted write taking its whole effect, never by part of a  *)
(* batch and never by a refused or crashed request.                        *)
(***************************************************************************)
WritesAreAtomic == Abstract!Spec

=============================================================================
