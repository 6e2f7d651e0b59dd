---------------------------- MODULE DiskStorage ----------------------------
(***************************************************************************)
(* The files under the engine (moltendb-core/src/engine/storage/disk): the *)
(* live log, the snapshot and its backup, the synchronous writer, the      *)
(* asynchronous writer with its channel and its background task, and log   *)
(* compaction, under crashes, shutdowns and I/O errors.                    *)
(*                                                                         *)
(* One request writes at a time (requests among themselves are the subject *)
(* of module Engine); compaction and the background task run beside it.    *)
(***************************************************************************)
EXTENDS WriteAheadLog, SequencesExt

CONSTANTS
    Modes,                   \* WRITE_MODE: a subset of {"sync", "async"}
    WritesDuringCompaction,  \* may requests write while compaction runs?
    MaxWrites,               \* bound: write requests
    MaxCompactions,          \* bound: compactions
    MaxRestarts,             \* bound: crashes and shutdowns
    MaxFaults,               \* bound: I/O errors
    NoFile                   \* a file that does not exist

ASSUME DiskAssumption ==
    /\ Modes \subseteq {"sync", "async"} /\ Modes # {}
    /\ WritesDuringCompaction \in BOOLEAN
    /\ {MaxWrites, MaxCompactions, MaxRestarts, MaxFaults} \subseteq Nat
    /\ Collections # {} /\ TxIds # {}

(* The entries of the log, and the message that asks the task to swap it. *)
Entry == [cmd : {"TX_BEGIN", "TX_COMMIT", "INSERT", "DELETE", "COMPACT"},
          collection : Collections, key : Keys \cup TxIds, value : Bodies \cup {NoDoc}]

(* The content of a snapshot file. *)
Snapshots == [count : Nat, body : Seq(Entry)]

ASSUME FileAssumption == NoFile \notin Snapshots /\ IsFiniteSet(Keys)

VARIABLES
    mode,      \* the storage backend in use
    mem,       \* key -> body in the engine's map, NoDoc if absent
    request,   \* the write under way: how far it is, its key and body
    acked,     \* what clients were told is stored
    past,      \* the values `acked' had since the last start
    queue,     \* the channel to the background task
    buf,       \* its BufWriter
    task,      \* the background task: "running", "ending" or "ended"
    io_fault,  \* the circuit breaker
    log,       \* the live log file
    detached,  \* the synchronous writer holds a file that was replaced
    snapshot,  \* the snapshot file
    backup,    \* the snapshot moved aside last
    stage,     \* where compaction stands
    scan,      \* compaction's iteration over the map
    errors,    \* the errors logged or returned since the last start
    spent      \* writes, compactions, restarts and faults so far

files == <<log, snapshot, backup>>
writer == <<queue, buf, task, io_fault, detached>>
compaction == <<stage, scan>>
vars == <<mode, mem, request, acked, past, queue, buf, task, io_fault, log, detached,
          snapshot, backup, stage, scan, errors, spent>>

Collection == CHOOSE c \in Collections : TRUE
Tx == CHOOSE x \in TxIds : TRUE
Compact == LogEntry("COMPACT", Collection, Tx, Null)

NoRequest == [at |-> "idle", key |-> NoDoc, body |-> NoDoc]
NoScan == [count |-> 0, body |-> <<>>, left |-> {}]

(***************************************************************************)
(* An insert holds the write guard of the collection's shard from before   *)
(* its BEGIN until after its COMMIT; a deletion and compaction's iteration *)
(* take the read guard, the latter for as long as it is in the collection. *)
(***************************************************************************)
Inserting == request.at # "idle" /\ request.body # NoDoc
Iterating == stage = "scan" /\ scan.left \notin {Keys, {}}

Spend(what) == spent' = [spent EXCEPT ![what] = @ + 1]
Fault(what) ==
    /\ spent.faults < MaxFaults
    /\ Spend("faults")
    /\ errors' = errors \cup {what}
-----------------------------------------------------------------------------
(* Fault: the last entry the header announces is not read. *)
LoadSnapshotShort(file) ==
    IF file = NoFile THEN EmptyDb
    ELSE FoldLeft(LAMBDA db, e : ApplyEntry(db, e, 0), EmptyDb,
                  SubSeq(file.body, 1, file.count - 1))

(***************************************************************************)
(* What a start rebuilds: load_snapshot reads as many entries as the       *)
(* header announces, then the whole log is replayed (the snapshot's seq,   *)
(* the number of entries to skip, is always written as 0).                 *)
(***************************************************************************)
LoadSnapshot(file) ==
    IF file = NoFile THEN EmptyDb
    ELSE FoldLeft(LAMBDA db, e : ApplyEntry(db, e, 0), EmptyDb,
                  SubSeq(file.body, 1, Min({file.count, Len(file.body)})))

Rebuild(file, entries) ==
    LET db == LoadSnapshot(file)
    IN  FoldLeft(LAMBDA acc, e : ReplayEntry(acc, e, 0),
                 LogOf(db, db, NoTx), entries).durable.docs[Collection]

(***************************************************************************)
(* write_entry.  Synchronous: the entry is in the file when the call       *)
(* returns, after what an earlier failed flush left in the BufWriter (in a *)
(* file nobody will read, if the writer is detached).  Asynchronous: it is *)
(* in the channel, unless the task has ended and dropped the receiving     *)
(* end, which makes the call fail.                                         *)
(***************************************************************************)
Accepts == mode = "sync" \/ task # "ended"

WriteEntry(e) ==
    IF mode = "sync"
    THEN /\ log' = IF detached THEN log ELSE Append(log \o buf, e)
         /\ buf' = <<>>
         /\ UNCHANGED queue
    ELSE /\ queue' = Append(queue, e)
         /\ UNCHANGED <<log, buf>>
-----------------------------------------------------------------------------
(* Fault: the transaction is not opened in the log. *)
BeginUnlogged(k, b) ==
    /\ request.at = "idle"
    /\ spent.writes < MaxWrites
    /\ WritesDuringCompaction \/ stage = "idle"
    /\ b # NoDoc => ~Iterating
    /\ ~io_fault /\ Accepts
    /\ Spend("writes")
    /\ request' = [at |-> "begun", key |-> k, body |-> b]
    /\ UNCHANGED <<mode, mem, acked, past, queue, log, buf, task, io_fault, detached,
                   snapshot, backup, compaction, errors>>

(* A write request: refused in read-only mode, else it waits for its guard *)
(* and logs TX_BEGIN.                                                      *)
Begin(k, b) ==
    /\ request.at = "idle"
    /\ spent.writes < MaxWrites
    /\ WritesDuringCompaction \/ stage = "idle"
    /\ b # NoDoc => ~Iterating
    /\ ~io_fault /\ Accepts
    /\ Spend("writes")
    /\ WriteEntry(TxBegin(Collection, Tx))
    /\ request' = [at |-> "begun", key |-> k, body |-> b]
    /\ UNCHANGED <<mode, mem, acked, past, task, io_fault, detached, snapshot, backup,
                   compaction, errors>>

(* What a request logs next (a body of NoDoc is a deletion). *)
EntryOf(r) ==
    CASE r.at = "idle" -> TxBegin(Collection, Tx)
      [] r.at = "begun" -> IF r.body = NoDoc THEN DeleteEntry(Collection, r.key)
                           ELSE InsertEntry(Collection, r.key, r.body)
      [] r.at = "applied" -> TxCommit(Collection, Tx)

(* The map changes, then the entry is logged. *)
Apply ==
    /\ request.at = "begun" /\ Accepts
    /\ mem' = [mem EXCEPT ![request.key] = request.body]
    /\ WriteEntry(EntryOf(request))
    /\ request' = [request EXCEPT !.at = "applied"]
    /\ UNCHANGED <<mode, acked, past, task, io_fault, detached, snapshot, backup,
                   compaction, errors, spent>>

Commit ==
    /\ request.at = "applied" /\ Accepts
    /\ WriteEntry(EntryOf(request))
    /\ acked' = [acked EXCEPT ![request.key] = request.body]
    /\ past' = past \cup {acked'}
    /\ request' = NoRequest
    /\ UNCHANGED <<mode, mem, task, io_fault, detached, snapshot, backup, compaction,
                   errors, spent>>

(* A log write fails: the client gets an error, the map keeps the change. *)
Abandon ==
    /\ mem' = IF request.at = "begun" THEN [mem EXCEPT ![request.key] = request.body]
                                      ELSE mem
    /\ request' = NoRequest

RequestFails ==
    /\ request.at # "idle" /\ ~Accepts
    /\ Abandon
    /\ UNCHANGED <<mode, acked, past, writer, files, compaction, errors, spent>>

(* Synchronous: the flush fails and the entry waits for the next one. *)
SyncWriteFails ==
    /\ mode = "sync"
    /\ Fault("write")
    /\ buf' = Append(buf, EntryOf(request))
    /\ Abandon
    /\ UNCHANGED <<mode, acked, past, queue, task, io_fault, detached, files,
                   compaction>>
-----------------------------------------------------------------------------
(***************************************************************************)
(* The background task.  Its buffer goes to the file after 50 ms without a *)
(* message, or earlier when it is full.                                    *)
(***************************************************************************)
TaskReceive ==
    /\ task = "running" /\ queue # <<>> /\ Head(queue) # Compact
    /\ buf' = Append(buf, Head(queue))
    /\ queue' = Tail(queue)
    /\ UNCHANGED <<mode, mem, request, acked, past, task, io_fault, detached, files,
                   compaction, errors, spent>>

(* Fault: only a full buffer is written out. *)
TaskFlushWhenFull ==
    /\ mode = "async" /\ task = "running" /\ Len(buf) >= 3
    /\ log' = log \o buf
    /\ buf' = <<>>
    /\ UNCHANGED <<mode, mem, request, acked, past, queue, task, io_fault, detached,
                   snapshot, backup, compaction, errors, spent>>

TaskFlush ==
    /\ mode = "async" /\ task = "running" /\ buf # <<>>
    /\ log' = log \o buf
    /\ buf' = <<>>
    /\ UNCHANGED <<mode, mem, request, acked, past, queue, task, io_fault, detached,
                   snapshot, backup, compaction, errors, spent>>

(* Fault: the breaker opens and the task goes on. *)
TaskWriteFailsOn ==
    /\ mode = "async" /\ task = "running" /\ buf # <<>>
    /\ Fault("write")
    /\ io_fault' = TRUE
    /\ UNCHANGED <<mode, mem, request, acked, past, queue, buf, task, detached, files,
                   compaction>>

(* A write or a flush fails: the breaker opens and the task ends. *)
TaskWriteFails ==
    /\ mode = "async" /\ task = "running" /\ buf # <<>>
    /\ Fault("write")
    /\ io_fault' = TRUE
    /\ task' = "ending"
    /\ UNCHANGED <<mode, mem, request, acked, past, queue, buf, detached, files,
                   compaction>>

(* One last flush, which may fail too; what is still queued is dropped. *)
TaskEnds ==
    /\ task = "ending"
    /\ task' = "ended"
    /\ log' \in {log, log \o buf}
    /\ buf' = <<>>
    /\ queue' = <<>>
    /\ UNCHANGED <<mode, mem, request, acked, past, io_fault, detached, snapshot,
                   backup, compaction, errors, spent>>

(* Fault: the compaction that waits is not woken. *)
TaskSwapsSilently ==
    /\ task = "running" /\ queue # <<>> /\ Head(queue) = Compact
    /\ queue' = Tail(queue)
    /\ buf' = <<>>
    /\ log' = <<>>
    /\ UNCHANGED <<mode, mem, request, acked, past, task, io_fault, detached, snapshot,
                   backup, compaction, errors, spent>>

(***************************************************************************)
(* The Compact message: flush, replace the log by the empty one, reopen it *)
(* and wake the compaction that waits.                                     *)
(***************************************************************************)
TaskSwaps ==
    /\ task = "running" /\ queue # <<>> /\ Head(queue) = Compact
    /\ queue' = Tail(queue)
    /\ buf' = <<>>
    /\ stage' = "idle"
    /\ \/ log' = <<>> /\ UNCHANGED <<errors, spent>>
       \/ log' = log \o buf /\ Fault("swap")
    /\ UNCHANGED <<mode, mem, request, acked, past, task, io_fault, detached, snapshot,
                   backup, scan>>

(* The log cannot be reopened: the task returns and wakes nobody. *)
TaskReopenFails ==
    /\ task = "running" /\ queue # <<>> /\ Head(queue) = Compact
    /\ Fault("reopen")
    /\ task' = "ended"
    /\ queue' = <<>>
    /\ buf' = <<>>
    /\ log' = <<>>
    /\ UNCHANGED <<mode, mem, request, acked, past, io_fault, detached, snapshot, backup,
                   compaction>>
-----------------------------------------------------------------------------
(***************************************************************************)
(* Compaction: count the documents, iterate over the map, move the old     *)
(* snapshot aside, install the new one, swap the log.                      *)
(***************************************************************************)
Present == {k \in Keys : mem[k] # NoDoc}

CompactBegin ==
    /\ stage = "idle"
    /\ spent.compactions < MaxCompactions
    /\ WritesDuringCompaction \/ request.at = "idle"
    /\ ~Inserting
    /\ Spend("compactions")
    /\ stage' = "scan"
    /\ scan' = [count |-> Cardinality(Present), body |-> <<>>, left |-> Keys]
    /\ UNCHANGED <<mode, mem, request, acked, past, writer, files, errors>>

CompactVisit(k) ==
    /\ stage = "scan" /\ k \in scan.left
    /\ ~Inserting
    /\ scan' = [scan EXCEPT
                  !.left = @ \ {k},
                  !.body = IF mem[k] = NoDoc THEN @
                           ELSE Append(@, InsertEntry(Collection, k, mem[k]))]
    /\ UNCHANGED <<mode, mem, request, acked, past, writer, files, stage, errors, spent>>

(* finish_snapshot_gz: the new file is complete, the old one is moved. *)
SnapshotBackup ==
    /\ stage = "scan" /\ scan.left = {}
    /\ stage' = "install"
    /\ IF snapshot = NoFile THEN UNCHANGED <<snapshot, backup>>
       ELSE snapshot' = NoFile /\ backup' = snapshot
    /\ UNCHANGED <<mode, mem, request, acked, past, writer, log, scan, errors, spent>>

SnapshotInstall ==
    /\ stage = "install"
    /\ snapshot' = [count |-> scan.count, body |-> scan.body]
    /\ stage' = "swap"
    /\ scan' = NoScan
    /\ UNCHANGED <<mode, mem, request, acked, past, writer, log, backup, errors, spent>>

(* A snapshot that fails is a warning: compaction goes on to swap the log. *)
SnapshotFails ==
    /\ stage \in {"scan", "install"}
    /\ Fault("snapshot")
    /\ stage' = "swap"
    /\ scan' = NoScan
    /\ UNCHANGED <<mode, mem, request, acked, past, writer, files>>

(* Synchronous: the log is replaced under the writer's mutex. *)
SwapLog ==
    /\ stage = "swap" /\ mode = "sync"
    /\ stage' = "idle"
    /\ \/ log' = <<>> /\ detached' = FALSE /\ buf' = <<>> /\ UNCHANGED <<errors, spent>>
       \/ UNCHANGED <<log, detached, buf>> /\ Fault("swap")
       \/ log' = <<>> /\ detached' = TRUE /\ UNCHANGED buf /\ Fault("reopen")
    /\ UNCHANGED <<mode, mem, request, acked, past, queue, task, io_fault, snapshot,
                   backup, scan>>

(* Asynchronous: the task is told to; compaction waits on a condvar. *)
SwapSend ==
    /\ stage = "swap" /\ mode = "async" /\ task # "ended"
    /\ queue' = Append(queue, Compact)
    /\ stage' = "wait"
    /\ UNCHANGED <<mode, mem, request, acked, past, buf, task, io_fault, detached, files,
                   scan, errors, spent>>

SwapRefused ==
    /\ stage = "swap" /\ mode = "async" /\ task = "ended"
    /\ stage' = "idle"
    /\ errors' = errors \cup {"swap"}
    /\ UNCHANGED <<mode, mem, request, acked, past, writer, files, scan, spent>>
-----------------------------------------------------------------------------
(* The process starts again on these files; clients read what it rebuilds. *)
Restart(entries) ==
    /\ spent.restarts < MaxRestarts
    /\ Spend("restarts")
    /\ log' = entries
    /\ mem' = Rebuild(snapshot, entries)
    /\ acked' = mem'
    /\ past' = {mem'}
    /\ request' = NoRequest
    /\ queue' = <<>> /\ buf' = <<>> /\ task' = "running"
    /\ io_fault' = FALSE /\ detached' = FALSE
    /\ stage' = "idle" /\ scan' = NoScan
    /\ backup' = NoFile
    /\ errors' = {}
    /\ UNCHANGED <<mode, snapshot>>

(* The process is killed: the channel and the buffer are gone. *)
Crash == Restart(log)

(***************************************************************************)
(* Graceful shutdown, after the last request was answered.  The TTL sweep  *)
(* still holds the Db, so dropping it does not end the task; the runtime   *)
(* cancels it, which writes out the buffer but not the channel.  (The      *)
(* synchronous BufWriter is written out when the runtime drops the sweep.) *)
(***************************************************************************)
Shutdown ==
    /\ request.at = "idle" /\ stage = "idle"
    /\ Restart(IF task = "running" /\ ~detached THEN log \o buf ELSE log)
-----------------------------------------------------------------------------
Init ==
    /\ mode \in Modes
    /\ mem = NoDocs /\ acked = NoDocs /\ past = {NoDocs}
    /\ request = NoRequest
    /\ queue = <<>> /\ buf = <<>> /\ task = "running"
    /\ io_fault = FALSE /\ detached = FALSE
    /\ log = <<>> /\ snapshot = NoFile /\ backup = NoFile
    /\ stage = "idle" /\ scan = NoScan
    /\ errors = {}
    /\ spent = [writes |-> 0, compactions |-> 0, restarts |-> 0, faults |-> 0]

Request == Apply \/ Commit \/ RequestFails

Task == TaskReceive \/ TaskFlush \/ TaskEnds \/ TaskSwaps

Compactor ==
    \/ \E k \in Keys : CompactVisit(k)
    \/ SnapshotBackup \/ SnapshotInstall \/ SwapLog \/ SwapSend \/ SwapRefused

Next ==
    \/ \E k \in Keys, b \in Bodies \cup {NoDoc} : Begin(k, b)
    \/ Request \/ Task \/ Compactor
    \/ SyncWriteFails \/ TaskWriteFails \/ TaskReopenFails
    \/ CompactBegin \/ SnapshotFails
    \/ Crash \/ Shutdown

(* The OS and tokio schedule the request, the task and the compaction. *)
Spec == Init /\ [][Next]_vars /\ WF_vars(Request) /\ WF_vars(Task) /\ WF_vars(Compactor)
-----------------------------------------------------------------------------
(***************************************************************************)
(* The shapes of the maps, files and channels; the circuit breaker is open *)
(* only if the task has ended or is about to.                              *)
(***************************************************************************)
TypeOK ==
    /\ mode \in Modes
    /\ {mem, acked} \cup past \subseteq [Keys -> Bodies \cup {NoDoc}]
    /\ acked \in past
    /\ request.at \in {"idle", "begun", "applied"}
    /\ queue \in Seq(Entry) /\ buf \in Seq(Entry) /\ log \in Seq(Entry)
    /\ ~ \E i \in DOMAIN log : log[i].cmd = "COMPACT"
    /\ task \in {"running", "ending", "ended"}
    /\ io_fault => task # "running"
    /\ stage \in {"idle", "scan", "install", "swap", "wait"}
    /\ errors \subseteq {"write", "swap", "reopen", "snapshot"}
    /\ mode = "sync" => queue = <<>> /\ task = "running" /\ (buf # <<>> => "write" \in errors)

Restarts == spent'.restarts # spent.restarts

Unwritten == queue # <<>> \/ buf # <<>> \/ task # "running"

(* The old snapshot has been moved away and the new one is not in place.    *)
NoSnapshot == snapshot = NoFile /\ backup # NoFile

(***************************************************************************)
(* A restart brings back every acknowledged write, and nothing else, if no *)
(* I/O error was reported and the background task had nothing left to      *)
(* write, whatever compaction was doing, except between the two renames of *)
(* finish_snapshot_gz: there nothing holds what was compacted before.      *)
(* (stream_log_into, finish_snapshot_gz, swap_log.)                        *)
(***************************************************************************)
RestartKeepsAcked ==
    [][Restarts /\ errors = {} /\ ~Unwritten /\ ~NoSnapshot => mem' = acked]_vars

(***************************************************************************)
(* The same without the exception: "there is no window where neither file  *)
(* exists" (docs/api-reference.md:1308).  It does not hold: the snapshot   *)
(* is moved to the backup directory, which no start reads, before the new  *)
(* one is renamed.                                                         *)
(***************************************************************************)
RestartAlwaysKeepsAcked ==
    [][Restarts /\ errors = {} /\ ~Unwritten => mem' = acked]_vars

(***************************************************************************)
(* The synchronous backend loses nothing in a crash: with no request under *)
(* way, no compaction running and no I/O error reported, a restart brings  *)
(* back what was acknowledged.  ("Every write is flushed to disk before    *)
(* returning. Zero data loss on crash", sync_storage.rs.)                  *)
(***************************************************************************)
ZeroDataLoss ==
    [][Restarts /\ mode = "sync" /\ errors = {} /\ request.at = "idle" /\ stage = "idle"
         => mem' = acked]_vars

(***************************************************************************)
(* Killed with writes in the channel, the asynchronous backend comes back  *)
(* with an earlier state the clients were told of, never a mixture of two: *)
(* it loses a suffix of the writes, whole transactions at a time.  (While  *)
(* compaction runs this need not be so: the snapshot may be newer than the *)
(* log that is replayed on top of it.)                                     *)
(***************************************************************************)
CrashLosesSuffix ==
    [][Restarts /\ errors = {} /\ stage = "idle" => mem' \in past]_vars

(***************************************************************************)
(* A compaction request is answered, unless the background task died on an *)
(* I/O error while it waited (swap_log, async_storage.rs).                 *)
(***************************************************************************)
CompactionReturns == stage = "wait" ~> (stage = "idle" \/ task = "ended")

(***************************************************************************)
(* Acknowledged writes reach the files without another request, unless an  *)
(* I/O error is reported.                                                  *)
(***************************************************************************)
AckedReachesDisk ==
    []<>(Rebuild(snapshot, log) = acked \/ errors # {} \/ request.at # "idle")

=============================================================================
