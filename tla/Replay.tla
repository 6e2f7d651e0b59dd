------------------------------- MODULE Replay -------------------------------
(***************************************************************************)
(* Replay of the log: the loop of stream_into_state with its transaction   *)
(* buffer, the loop of recover_to (point-in-time recovery), and a machine  *)
(* that grows a log by any entry at all, so that a run visits every log up *)
(* to a length: well bracketed or not, with brackets of two writers        *)
(* interleaved, with a transaction the crash cut short.                    *)
(***************************************************************************)
EXTENDS WriteAheadLog, SequencesExt

CONSTANTS
    MaxLog,     \* bound: length of the log
    MaxStamped, \* bound: length of a log written at more than one instant
    MaxTime     \* bound: the clock

ASSUME BoundsAssumption == {MaxLog, MaxStamped, MaxTime} \subseteq Nat

VARIABLES
    wal,        \* the entries on disk, each with its _t (t) and the instant
                \* its write was complete (written, a ghost)
    acc         \* now -> the accumulator of ReplayEntry for a replay at now

vars == <<wal, acc>>

Times == 0 .. MaxTime

(***************************************************************************)
(* The loop body shared by stream_into_state and recover_to: BEGIN starts  *)
(* a buffer, a matching COMMIT drains it, anything else is buffered while  *)
(* a transaction is active and applied at once otherwise.                  *)
(***************************************************************************)
StartLoop == [db |-> EmptyDb, tx_buffer |-> <<>>, active_tx |-> NoTx,
              count |-> 0, broken |-> FALSE]

(* Fault: BEGIN leaves the buffer of an unfinished transaction in place. *)
MatchEntryKeepsBuffer(loop, e, now) ==
    CASE e.cmd = "TX_BEGIN" ->
            [loop EXCEPT !.active_tx = e.key, !.count = @ + 1]
      [] e.cmd = "TX_COMMIT" ->
            IF loop.active_tx = e.key
            THEN [loop EXCEPT
                    !.db = FoldLeft(LAMBDA db, b : ApplyEntry(db, b, now),
                                    loop.db, loop.tx_buffer),
                    !.tx_buffer = <<>>, !.active_tx = NoTx, !.count = @ + 1]
            ELSE [loop EXCEPT !.count = @ + 1]
      [] OTHER ->
            IF loop.active_tx # NoTx
            THEN [loop EXCEPT !.tx_buffer = Append(@, e), !.count = @ + 1]
            ELSE [loop EXCEPT !.db = ApplyEntry(@, e, now), !.count = @ + 1]

MatchEntry(loop, e, now) ==
    CASE e.cmd = "TX_BEGIN" ->
            [loop EXCEPT !.active_tx = e.key, !.tx_buffer = <<>>,
                         !.count = @ + 1]
      [] e.cmd = "TX_COMMIT" ->
            IF loop.active_tx = e.key
            THEN [loop EXCEPT
                    !.db = FoldLeft(LAMBDA db, b : ApplyEntry(db, b, now),
                                    loop.db, loop.tx_buffer),
                    !.tx_buffer = <<>>, !.active_tx = NoTx, !.count = @ + 1]
            ELSE [loop EXCEPT !.count = @ + 1]
      [] OTHER ->
            IF loop.active_tx # NoTx
            THEN [loop EXCEPT !.tx_buffer = Append(@, e), !.count = @ + 1]
            ELSE [loop EXCEPT !.db = ApplyEntry(@, e, now), !.count = @ + 1]

(* stream_into_state: what Db::open rebuilds at instant now. *)
StreamIntoState(entries, now) ==
    FoldLeft(LAMBDA loop, x : MatchEntry(loop, x.entry, now),
             StartLoop, entries).db

(***************************************************************************)
(* recover_to: the same loop, which stops for good at the first entry      *)
(* stamped later than to_time, or once to_seq entries were counted.        *)
(* NoLimit stands for None.                                                *)
(***************************************************************************)
NoLimit == -1

(* Fault: one entry too many. *)
RecoverStepLate(loop, x, to_time, to_seq, now) ==
    IF \/ loop.broken
       \/ to_time # NoLimit /\ x.t > to_time
       \/ to_seq # NoLimit /\ loop.count > to_seq
    THEN [loop EXCEPT !.broken = TRUE]
    ELSE MatchEntry(loop, x.entry, now)

RecoverStep(loop, x, to_time, to_seq, now) ==
    IF \/ loop.broken
       \/ to_time # NoLimit /\ x.t > to_time
       \/ to_seq # NoLimit /\ loop.count >= to_seq
    THEN [loop EXCEPT !.broken = TRUE]
    ELSE MatchEntry(loop, x.entry, now)

(* What of a rebuilt database is converted back into entries: an INSERT per *)
(* document and a SCHEMA per schema, in any order.                          *)
Exported(db) ==
    LET Documents == {x \in Collections \X Keys : db.docs[x[1]][x[2]] # NoDoc}
        Schemas   == {c \in Collections : db.schemas[c] # NoSchema}
    IN  {InsertEntry(x[1], x[2], db.docs[x[1]][x[2]]) : x \in Documents}
        \cup {SchemaEntry(c, db.schemas[c]) : c \in Schemas}

RecoverTo(entries, to_time, to_seq, now) ==
    Exported(FoldLeft(LAMBDA loop, x : RecoverStep(loop, x, to_time, to_seq, now),
                      StartLoop, entries).db)
-----------------------------------------------------------------------------
(* Every kind of entry the engine writes, over the constants. *)
Entries ==
    UNION {
      {TxBegin(c, id) : c \in Collections, id \in TxIds},
      {TxCommit(c, id) : c \in Collections, id \in TxIds},
      {InsertEntry(c, k, [v |-> 1, seq |-> 0, body |-> b]) :
          c \in Collections, k \in Keys, b \in Bodies},
      {DeleteEntry(c, k) : c \in Collections, k \in Keys},
      {DropEntry(c) : c \in Collections},
      {SchemaEntry(c, {}) : c \in Collections},
      {TtlEntry(c, at) : c \in Collections, at \in {MaxTime, MaxTime + 1}}}

Init ==
    /\ wal = <<>>
    /\ acc = [now \in Times |-> EmptyLog]

(***************************************************************************)
(* write_entry by any request.  LogEntry::new stamps the entry with the    *)
(* wall clock under no lock, so an entry stamped earlier may be written    *)
(* later.  The clock is taken not to run backwards.                        *)
(***************************************************************************)
WriteEntry(e, t, written) ==
    /\ Len(wal) < IF written = 0 THEN MaxLog ELSE MaxStamped
    /\ t <= written
    /\ wal # <<>> => written >= Last(wal).written
    /\ wal' = Append(wal, [entry |-> e, t |-> t, written |-> written])
    /\ acc' = [now \in Times |-> ReplayEntry(acc[now], e, now)]

Next == \E e \in Entries, t, written \in Times : WriteEntry(e, t, written)

Spec == Init /\ [][Next]_vars
-----------------------------------------------------------------------------
(***************************************************************************)
(* Reference: which entries survive a replay, by position alone.  A data   *)
(* entry survives unless the last BEGIN before it is of a transaction not  *)
(* yet committed where the entry stands; then it survives exactly if that  *)
(* transaction's COMMIT comes before any other BEGIN.  It takes effect at  *)
(* that COMMIT, an entry outside a transaction where it stands.            *)
(***************************************************************************)
IsBracket(log, i) == log[i].entry.cmd \in {"TX_BEGIN", "TX_COMMIT"}

Begins(log, i) == {b \in 1 .. i : log[b].entry.cmd = "TX_BEGIN"}

Commits(log, b) ==
    {m \in b + 1 .. Len(log) :
        /\ log[m].entry.cmd = "TX_COMMIT"
        /\ log[m].entry.key = log[b].entry.key
        /\ \A o \in b + 1 .. m : log[o].entry.cmd # "TX_BEGIN"}

Survives(log, i) ==
    /\ ~IsBracket(log, i)
    /\ Begins(log, i) # {} => Commits(log, Max(Begins(log, i))) # {}

Survivors(log) == {i \in 1 .. Len(log) : Survives(log, i)}

(* The entries at the kept positions, applied in the order they stand in. *)
ApplyOnly(log, kept, now) ==
    FoldLeft(LAMBDA db, i : IF i \in kept THEN ApplyEntry(db, log[i].entry, now)
                                         ELSE db,
             EmptyDb, [i \in 1 .. Len(log) |-> i])

(***************************************************************************)
(* The replay of a log rebuilds exactly the committed writes, in the order *)
(* they were written: an entry of a transaction whose COMMIT is missing,   *)
(* or comes after another BEGIN, leaves no trace, and no other is dropped. *)
(* (stream_into_state, storage/mod.rs.)                                    *)
(***************************************************************************)
ReplayIsCommittedWrites ==
    \A now \in Times :
        StreamIntoState(wal, now) = ApplyOnly(wal, Survivors(wal), now)

(***************************************************************************)
(* The accumulator the other modules use instead of a log is the replay of *)
(* that log: after every entry, `durable' is what a restart would rebuild. *)
(***************************************************************************)
AccumulatorIsReplay ==
    \A now \in Times : acc[now].durable = StreamIntoState(wal, now)

(* The first n entries of the log are the log of some moment not before    *)
(* the end of instant at, and none of them is stamped later than at.        *)
LogAt(n, at) ==
    /\ \A i \in 1 .. n : wal[i].t <= at
    /\ \A i \in 1 .. Len(wal) : wal[i].written <= at => i <= n

(***************************************************************************)
(* Point-in-time recovery gives the documents and schemas of one past      *)
(* moment: to a number of entries, of the log of that length; to an        *)
(* instant, of a prefix that holds every entry whose write was complete by *)
(* then and none stamped later, although stamps are not in the order of    *)
(* the log and the loop stops at the first late one (recover.rs).          *)
(***************************************************************************)
RecoverIsPastReplay ==
    \A now \in Times :
      /\ \A n \in 0 .. Len(wal) :
            RecoverTo(wal, NoLimit, n, now)
              = Exported(StreamIntoState(SubSeq(wal, 1, n), now))
      /\ \A at \in Times : \E n \in 0 .. Len(wal) :
            /\ LogAt(n, at)
            /\ RecoverTo(wal, at, NoLimit, now)
                 = Exported(StreamIntoState(SubSeq(wal, 1, n), now))

(* The database a server starts with that is given the recovered entries.   *)
Rebuilt(entries, now) ==
    FoldSet(LAMBDA e, db : ApplyEntry(db, e, now), EmptyDb, entries)

(***************************************************************************)
(* The claim of moltendb-core/README.md:46, that recovery rebuilds the     *)
(* state of the chosen point: documents, schemas and expiries are what a   *)
(* restart at that point would have found.  It does not hold: recover_to   *)
(* returns no TTL_EXPIRY entry, so a collection that was about to expire   *)
(* comes back for good.                                                    *)
(***************************************************************************)
RecoverRebuildsState ==
    \A now \in Times, n \in 0 .. Len(wal) :
        LET past  == StreamIntoState(SubSeq(wal, 1, n), now)
            again == Rebuilt(RecoverTo(wal, NoLimit, n, now), now)
        IN  /\ again.docs = past.docs
            /\ again.schemas = past.schemas
            /\ again.ttl = past.ttl

=============================================================================
