--------------------------- MODULE WriteAheadLog ---------------------------
(***************************************************************************)
(* The entries of MoltenDB's append-only log and what replaying one of     *)
(* them does (moltendb-core/src/engine/storage/mod.rs, types.rs).          *)
(*                                                                         *)
(* A replayed database is a record                                         *)
(*   cols    : the collections that exist (possibly without a document),   *)
(*   docs    : collection -> key -> document, NoDoc where there is none,   *)
(*   ttl     : collection -> expiry instant, NoExpiry where there is none, *)
(*   schemas : collection -> the bodies its JSON schema accepts (every     *)
(*             body where no schema is registered).                        *)
(***************************************************************************)
EXTENDS Integers

CONSTANTS
    Collections,  \* collection names
    Keys,         \* document keys
    Bodies,       \* the user fields of a document, opaque to the engine
    TxIds,        \* transaction ids (UUIDs in the code)
    NoDoc,        \* "this key holds no document"
    NoTx          \* "no transaction is being replayed" (None)

(***************************************************************************)
(* A stored document: its version _v, its insertion number _seq and its    *)
(* user fields.  _createdAt and _modifiedAt are not modelled.              *)
(***************************************************************************)
Doc == [v : Nat, seq : Nat, body : Bodies]

ASSUME NoDocAssumption == NoDoc \notin Doc
ASSUME NoTxAssumption == NoTx \notin TxIds

NoExpiry == -1
NoSchema == Bodies

(***************************************************************************)
(* LogEntry { cmd, collection, key, value }.  As in the code, `key' holds  *)
(* the transaction id of a bracket and the instant of a TTL_EXPIRY.        *)
(***************************************************************************)
LogEntry(cmd, c, k, val) ==
    [cmd |-> cmd, collection |-> c, key |-> k, value |-> val]

Null == NoDoc

TxBegin(c, id)     == LogEntry("TX_BEGIN", c, id, Null)
TxCommit(c, id)    == LogEntry("TX_COMMIT", c, id, Null)
InsertEntry(c, k, d) == LogEntry("INSERT", c, k, d)
DeleteEntry(c, k)  == LogEntry("DELETE", c, k, Null)
DropEntry(c)       == LogEntry("DROP", c, "*", Null)
SchemaEntry(c, s)  == LogEntry("SCHEMA", c, "", s)
TtlEntry(c, at)    == LogEntry("TTL_EXPIRY", c, at, Null)

NoDocs == [k \in Keys |-> NoDoc]

DbOf(cols, docs, ttl, schemas) ==
    [cols |-> cols, docs |-> docs, ttl |-> ttl, schemas |-> schemas]

EmptyDb == DbOf({}, [c \in Collections |-> NoDocs],
                [c \in Collections |-> NoExpiry],
                [c \in Collections |-> NoSchema])

PutDoc(db, c, k, d) ==
    DbOf(db.cols \cup {c}, [db.docs EXCEPT ![c][k] = d], db.ttl, db.schemas)

RemoveDoc(db, c, k) ==
    DbOf(db.cols, [db.docs EXCEPT ![c][k] = NoDoc], db.ttl, db.schemas)

RemoveCollection(db, c) ==
    DbOf(db.cols \ {c}, [db.docs EXCEPT ![c] = NoDocs],
         [db.ttl EXCEPT ![c] = NoExpiry], db.schemas)

SetExpiry(db, c, at) ==
    DbOf(db.cols, db.docs, [db.ttl EXCEPT ![c] = at], db.schemas)

SetSchema(db, c, s) ==
    DbOf(db.cols, db.docs, db.ttl, [db.schemas EXCEPT ![c] = s])

(* Fault: an expiry that has passed is skipped and evicts nothing. *)
ApplyEntryKeepsExpired(db, e, now) ==
    CASE e.cmd = "INSERT"     -> PutDoc(db, e.collection, e.key, e.value)
      [] e.cmd = "DELETE"     -> RemoveDoc(db, e.collection, e.key)
      [] e.cmd = "DROP"       -> RemoveCollection(db, e.collection)
      [] e.cmd = "SCHEMA"     -> SetSchema(db, e.collection, e.value)
      [] e.cmd = "TTL_EXPIRY" ->
            IF e.key > now THEN SetExpiry(db, e.collection, e.key) ELSE db
      [] OTHER                -> db

(***************************************************************************)
(* apply_entry: one data entry applied to the database being rebuilt, at   *)
(* the instant `now' of the replay.                                        *)
(***************************************************************************)
ApplyEntry(db, e, now) ==
    CASE e.cmd = "INSERT"     -> PutDoc(db, e.collection, e.key, e.value)
      [] e.cmd = "DELETE"     -> RemoveDoc(db, e.collection, e.key)
      [] e.cmd = "DROP"       -> RemoveCollection(db, e.collection)
      [] e.cmd = "SCHEMA"     -> SetSchema(db, e.collection, e.value)
      [] e.cmd = "TTL_EXPIRY" ->
            IF e.key > now THEN SetExpiry(db, e.collection, e.key)
                           ELSE RemoveCollection(db, e.collection)
      [] OTHER                -> db

(***************************************************************************)
(* The replay loop of stream_into_state as an accumulator: what the log    *)
(* written so far would rebuild (durable), the same with the entries       *)
(* buffered for the open transaction applied to it (pending), and which    *)
(* transaction is open (active).  Module Replay shows that this is what    *)
(* the loop with its buffer computes.                                      *)
(***************************************************************************)
LogOf(durable, pending, active) ==
    [durable |-> durable, pending |-> pending, active |-> active]

EmptyLog == LogOf(EmptyDb, EmptyDb, NoTx)

(* Fault: any COMMIT closes the open transaction, whatever its id. *)
ReplayEntryAnyCommit(log, e, now) ==
    CASE e.cmd = "TX_BEGIN" -> LogOf(log.durable, log.durable, e.key)
      [] e.cmd = "TX_COMMIT" -> LogOf(log.pending, log.pending, NoTx)
      [] OTHER ->
            IF log.active # NoTx
            THEN LogOf(log.durable, ApplyEntry(log.pending, e, now), log.active)
            ELSE LET db == ApplyEntry(log.durable, e, now)
                 IN  LogOf(db, db, NoTx)

ReplayEntry(log, e, now) ==
    CASE e.cmd = "TX_BEGIN" -> LogOf(log.durable, log.durable, e.key)
      [] e.cmd = "TX_COMMIT" ->
            IF log.active = e.key THEN LogOf(log.pending, log.pending, NoTx)
                                  ELSE log
      [] OTHER ->
            IF log.active # NoTx
            THEN LogOf(log.durable, ApplyEntry(log.pending, e, now), log.active)
            ELSE LET db == ApplyEntry(log.durable, e, now)
                 IN  LogOf(db, db, NoTx)

=============================================================================
