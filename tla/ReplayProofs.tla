---------------------------- MODULE ReplayProofs ----------------------------
(***************************************************************************)
(* Theorems about module Replay: what the replay loops compute on logs of  *)
(* any length, over any collections, keys, transactions and instants.      *)
(***************************************************************************)
EXTENDS Replay, SequenceTheorems, TLAPS

ApplyOp(now, db, e) == ApplyEntry(db, e, now)
MatchOp(now, loop, x) == MatchEntry(loop, x.entry, now)
RecoverOp(p, loop, x) == RecoverStep(loop, x, p[1], p[2], p[3])

Applied == INSTANCE FoldFacts WITH Op <- ApplyOp
Loops == INSTANCE FoldFacts WITH Op <- MatchOp
Recovering == INSTANCE FoldFacts WITH Op <- RecoverOp

(* The entries of s applied to db, and the loop after the log s. *)
ApplyAll(db, s, now) == Applied!Fold(now, db, s)
LoopAfter(s, now) == Loops!Fold(now, StartLoop, s)
RecoverAfter(s, to_time, to_seq, now) == Recovering!Fold(<<to_time, to_seq, now>>, StartLoop, s)

Stamped == [entry : Entries, t : Times, written : Times]
-----------------------------------------------------------------------------
(* The folds of module Replay are these. *)
LEMMA ApplyAllIsFold ==
    ASSUME NEW db, NEW s, NEW now
    PROVE  FoldLeft(LAMBDA acc1, b : ApplyEntry(acc1, b, now), db, s) = ApplyAll(db, s, now)
BY DEF ApplyAll, Applied!Fold, ApplyOp, FoldLeft, MapThenFoldSet, Max,
       Applied!FoldLeft, Applied!MapThenFoldSet, Applied!Max

LEMMA StreamIsLoop ==
    ASSUME NEW s, NEW now
    PROVE  StreamIntoState(s, now) = LoopAfter(s, now).db
BY DEF StreamIntoState, LoopAfter, Loops!Fold, MatchOp, FoldLeft, MapThenFoldSet, Max,
       Loops!FoldLeft, Loops!MapThenFoldSet, Loops!Max

LEMMA RecoverToIsLoop ==
    ASSUME NEW s, NEW to_time, NEW to_seq, NEW now
    PROVE  RecoverTo(s, to_time, to_seq, now)
             = Exported(RecoverAfter(s, to_time, to_seq, now).db)
BY DEF RecoverTo, RecoverAfter, Recovering!Fold, RecoverOp, FoldLeft, MapThenFoldSet, Max,
       Recovering!FoldLeft, Recovering!MapThenFoldSet, Recovering!Max

LEMMA ApplyAllSteps ==
    ASSUME NEW db, NEW now
    PROVE  /\ ApplyAll(db, <<>>, now) = db
           /\ \A s \in Seq(Entries), e \in Entries :
                 ApplyAll(db, Append(s, e), now) = ApplyEntry(ApplyAll(db, s, now), e, now)
BY Applied!FoldEmpty, Applied!FoldAppend DEF ApplyAll, ApplyOp

LEMMA LoopSteps ==
    ASSUME NEW now
    PROVE  /\ LoopAfter(<<>>, now) = StartLoop
           /\ \A s \in Seq(Stamped), x \in Stamped :
                 LoopAfter(Append(s, x), now) = MatchEntry(LoopAfter(s, now), x.entry, now)
BY Loops!FoldEmpty, Loops!FoldAppend DEF LoopAfter, MatchOp

LEMMA RecoverSteps ==
    ASSUME NEW to_time, NEW to_seq, NEW now
    PROVE  /\ RecoverAfter(<<>>, to_time, to_seq, now) = StartLoop
           /\ \A s \in Seq(Stamped), x \in Stamped :
                 RecoverAfter(Append(s, x), to_time, to_seq, now)
                   = RecoverStep(RecoverAfter(s, to_time, to_seq, now), x, to_time, to_seq, now)
BY Recovering!FoldEmpty, Recovering!FoldAppend DEF RecoverAfter, RecoverOp
-----------------------------------------------------------------------------
(* The loop's record, and what one entry does to it. *)
LoopOf(db, buffer, active, count, broken) ==
    [db |-> db, tx_buffer |-> buffer, active_tx |-> active, count |-> count, broken |-> broken]

LoopOK(loop) ==
    /\ loop = LoopOf(loop.db, loop.tx_buffer, loop.active_tx, loop.count, loop.broken)
    /\ loop.tx_buffer \in Seq(Entries)
    /\ loop.active_tx \in TxIds \cup {NoTx}
    /\ loop.count \in Nat

LEMMA LoopOfOK ==
    ASSUME NEW db, NEW buffer \in Seq(Entries), NEW active \in TxIds \cup {NoTx},
           NEW count \in Nat, NEW broken
    PROVE  /\ LoopOK(LoopOf(db, buffer, active, count, broken))
           /\ LoopOf(db, buffer, active, count, broken).count = count
           /\ LoopOf(db, buffer, active, count, broken).broken = broken
BY DEF LoopOK, LoopOf

LEMMA StartLoopOK == LoopOK(StartLoop)
BY DEF LoopOK, StartLoop, LoopOf

LEMMA EntriesShape ==
    ASSUME NEW e \in Entries
    PROVE  e.cmd \in {"TX_BEGIN", "TX_COMMIT"} => e.key \in TxIds
<1>1. CASE e \in {TxBegin(c, id) : c \in Collections, id \in TxIds}
  BY <1>1 DEF TxBegin, LogEntry
<1>2. CASE e \in {TxCommit(c, id) : c \in Collections, id \in TxIds}
  BY <1>2 DEF TxCommit, LogEntry
<1>3. CASE e \in {InsertEntry(c, k, [v |-> 1, seq |-> 0, body |-> b]) :
                    c \in Collections, k \in Keys, b \in Bodies}
  BY <1>3 DEF InsertEntry, LogEntry
<1>4. CASE e \in {DeleteEntry(c, k) : c \in Collections, k \in Keys}
  BY <1>4 DEF DeleteEntry, LogEntry
<1>5. CASE e \in {DropEntry(c) : c \in Collections}
  BY <1>5 DEF DropEntry, LogEntry
<1>6. CASE e \in {SchemaEntry(c, {}) : c \in Collections}
  <2>1. PICK c \in Collections : e = SchemaEntry(c, {})
    BY <1>6
  <2>2. e.cmd = "SCHEMA"
    BY <2>1 DEF SchemaEntry, LogEntry
  <2> QED
    BY <2>2
<1>7. CASE e \in {TtlEntry(c, at) : c \in Collections, at \in {MaxTime, MaxTime + 1}}
  BY <1>7 DEF TtlEntry, LogEntry
<1> QED
  BY <1>1, <1>2, <1>3, <1>4, <1>5, <1>6, <1>7 DEF Entries

LEMMA MatchBegin ==
    ASSUME NEW loop, LoopOK(loop), NEW e \in Entries, NEW now, e.cmd = "TX_BEGIN"
    PROVE  MatchEntry(loop, e, now) = LoopOf(loop.db, <<>>, e.key, loop.count + 1, loop.broken)
BY DEF MatchEntry, LoopOf, LoopOK

LEMMA MatchCommit ==
    ASSUME NEW loop, LoopOK(loop), NEW e \in Entries, NEW now, e.cmd = "TX_COMMIT"
    PROVE  MatchEntry(loop, e, now) =
             IF loop.active_tx = e.key
             THEN LoopOf(ApplyAll(loop.db, loop.tx_buffer, now), <<>>, NoTx, loop.count + 1, loop.broken)
             ELSE LoopOf(loop.db, loop.tx_buffer, loop.active_tx, loop.count + 1, loop.broken)
<1> DEFINE db == FoldLeft(LAMBDA acc1, b : ApplyEntry(acc1, b, now), loop.db, loop.tx_buffer)
<1>1. db = ApplyAll(loop.db, loop.tx_buffer, now)
  BY ApplyAllIsFold
<1>2. MatchEntry(loop, e, now) =
        IF loop.active_tx = e.key
        THEN [loop EXCEPT !.db = db, !.tx_buffer = <<>>, !.active_tx = NoTx, !.count = @ + 1]
        ELSE [loop EXCEPT !.count = @ + 1]
  BY DEF MatchEntry, FoldLeft, MapThenFoldSet
<1> HIDE DEF db
<1> QED
  BY <1>1, <1>2 DEF LoopOf, LoopOK

LEMMA MatchData ==
    ASSUME NEW loop, LoopOK(loop), NEW e \in Entries, NEW now,
           e.cmd \notin {"TX_BEGIN", "TX_COMMIT"}
    PROVE  MatchEntry(loop, e, now) =
             IF loop.active_tx # NoTx
             THEN LoopOf(loop.db, Append(loop.tx_buffer, e), loop.active_tx, loop.count + 1, loop.broken)
             ELSE LoopOf(ApplyEntry(loop.db, e, now), loop.tx_buffer, NoTx, loop.count + 1, loop.broken)
<1>1. MatchEntry(loop, e, now) =
        IF loop.active_tx # NoTx
        THEN [loop EXCEPT !.tx_buffer = Append(@, e), !.count = @ + 1]
        ELSE [loop EXCEPT !.db = ApplyEntry(@, e, now), !.count = @ + 1]
  BY DEF MatchEntry, FoldLeft, MapThenFoldSet
<1> QED
  BY <1>1 DEF LoopOf, LoopOK

LEMMA MatchKeepsOK ==
    ASSUME NEW loop, LoopOK(loop), NEW e \in Entries, NEW now
    PROVE  /\ LoopOK(MatchEntry(loop, e, now))
           /\ MatchEntry(loop, e, now).count = loop.count + 1
           /\ MatchEntry(loop, e, now).broken = loop.broken
<1> DEFINE n == loop.count + 1
           buffer == loop.tx_buffer
           active == loop.active_tx
           broken == loop.broken
           all == ApplyAll(loop.db, loop.tx_buffer, now)
           new == MatchEntry(loop, e, now)
           none == <<>>
<1>0. /\ buffer \in Seq(Entries) /\ none \in Seq(Entries)
      /\ active \in TxIds \cup {NoTx} /\ NoTx \in TxIds \cup {NoTx}
      /\ n \in Nat
  BY DEF LoopOK
<1>1. CASE e.cmd = "TX_BEGIN"
  <2>1. new = LoopOf(loop.db, none, e.key, n, broken)
    BY <1>1, MatchBegin
  <2>2. e.key \in TxIds \cup {NoTx}
    BY <1>1, EntriesShape
  <2> HIDE DEF n, new, broken, none
  <2>3. LoopOK(new) /\ new.count = n /\ new.broken = broken
    BY <1>0, <2>1, <2>2, LoopOfOK
  <2> QED
    BY <2>3 DEF n, new, broken
<1>2. CASE e.cmd = "TX_COMMIT" /\ active = e.key
  <2>1. new = LoopOf(all, none, NoTx, n, broken)
    BY <1>2, MatchCommit
  <2> HIDE DEF n, new, all, broken, none
  <2>3. LoopOK(new) /\ new.count = n /\ new.broken = broken
    BY <1>0, <2>1, LoopOfOK
  <2> QED
    BY <2>3 DEF n, new, broken
<1>3. CASE e.cmd = "TX_COMMIT" /\ active # e.key
  <2>1. new = LoopOf(loop.db, buffer, active, n, broken)
    BY <1>3, MatchCommit
  <2> HIDE DEF n, new, buffer, active, broken
  <2>3. LoopOK(new) /\ new.count = n /\ new.broken = broken
    BY <1>0, <2>1, LoopOfOK
  <2> QED
    BY <2>3 DEF n, new, broken
<1>4. CASE e.cmd \notin {"TX_BEGIN", "TX_COMMIT"} /\ active # NoTx
  <2> DEFINE more == Append(buffer, e)
  <2>1. more \in Seq(Entries)
    BY DEF LoopOK
  <2>2. new = LoopOf(loop.db, more, active, n, broken)
    BY <1>4, MatchData
  <2> HIDE DEF n, new, more, active, broken
  <2>3. LoopOK(new) /\ new.count = n /\ new.broken = broken
    BY <1>0, <2>1, <2>2, LoopOfOK
  <2> QED
    BY <2>3 DEF n, new, broken
<1>5. CASE e.cmd \notin {"TX_BEGIN", "TX_COMMIT"} /\ active = NoTx
  <2> DEFINE db == ApplyEntry(loop.db, e, now)
  <2>2. new = LoopOf(db, buffer, NoTx, n, broken)
    BY <1>5, MatchData
  <2> HIDE DEF n, new, db, buffer, broken
  <2>3. LoopOK(new) /\ new.count = n /\ new.broken = broken
    BY <1>0, <2>2, LoopOfOK
  <2> QED
    BY <2>3 DEF n, new, broken
<1> QED
  BY <1>1, <1>2, <1>3, <1>4, <1>5
-----------------------------------------------------------------------------
(***************************************************************************)
(* The accumulator of WriteAheadLog against the loop with its buffer.      *)
(***************************************************************************)
Mirrors(log, loop, now) ==
    log = LogOf(loop.db,
                IF loop.active_tx = NoTx THEN loop.db
                ELSE ApplyAll(loop.db, loop.tx_buffer, now),
                loop.active_tx)

LEMMA MirrorsStep ==
    ASSUME NEW log, NEW loop, NEW now, LoopOK(loop), Mirrors(log, loop, now), NEW e \in Entries
    PROVE  Mirrors(ReplayEntry(log, e, now), MatchEntry(loop, e, now), now)
<1> DEFINE new == MatchEntry(loop, e, now)
<1>1. CASE e.cmd = "TX_BEGIN"
  <2>1. new = LoopOf(loop.db, <<>>, e.key, loop.count + 1, loop.broken)
    BY <1>1, MatchBegin
  <2>2. ReplayEntry(log, e, now) = LogOf(loop.db, loop.db, e.key)
    BY <1>1 DEF ReplayEntry, Mirrors, LogOf
  <2>3. ApplyAll(loop.db, <<>>, now) = loop.db
    BY ApplyAllSteps
  <2> QED
    BY <2>1, <2>2, <2>3 DEF Mirrors, LoopOf
<1>2. CASE e.cmd = "TX_COMMIT" /\ loop.active_tx = e.key
  <2>1. new = LoopOf(ApplyAll(loop.db, loop.tx_buffer, now), <<>>, NoTx, loop.count + 1, loop.broken)
    BY <1>2, MatchCommit
  <2>2. loop.active_tx # NoTx
    BY <1>2, EntriesShape, NoTxAssumption
  <2>3. ReplayEntry(log, e, now) = LogOf(log.pending, log.pending, NoTx)
    BY <1>2 DEF ReplayEntry, Mirrors, LogOf
  <2>4. log.pending = ApplyAll(loop.db, loop.tx_buffer, now)
    BY <2>2 DEF Mirrors, LogOf
  <2> QED
    BY <2>1, <2>3, <2>4 DEF Mirrors, LoopOf
<1>3. CASE e.cmd = "TX_COMMIT" /\ loop.active_tx # e.key
  <2>1. new = LoopOf(loop.db, loop.tx_buffer, loop.active_tx, loop.count + 1, loop.broken)
    BY <1>3, MatchCommit
  <2>2. ReplayEntry(log, e, now) = log
    BY <1>3 DEF ReplayEntry, Mirrors, LogOf
  <2> QED
    BY <2>1, <2>2 DEF Mirrors, LoopOf
<1>4. CASE e.cmd \notin {"TX_BEGIN", "TX_COMMIT"} /\ loop.active_tx # NoTx
  <2>1. new = LoopOf(loop.db, Append(loop.tx_buffer, e), loop.active_tx, loop.count + 1, loop.broken)
    BY <1>4, MatchData
  <2>2. ReplayEntry(log, e, now) =
          LogOf(loop.db, ApplyEntry(ApplyAll(loop.db, loop.tx_buffer, now), e, now), loop.active_tx)
    BY <1>4 DEF ReplayEntry, Mirrors, LogOf
  <2>3. ApplyAll(loop.db, Append(loop.tx_buffer, e), now)
          = ApplyEntry(ApplyAll(loop.db, loop.tx_buffer, now), e, now)
    BY ApplyAllSteps DEF LoopOK
  <2> QED
    BY <1>4, <2>1, <2>2, <2>3 DEF Mirrors, LoopOf
<1>5. CASE e.cmd \notin {"TX_BEGIN", "TX_COMMIT"} /\ loop.active_tx = NoTx
  <2>1. new = LoopOf(ApplyEntry(loop.db, e, now), loop.tx_buffer, NoTx, loop.count + 1, loop.broken)
    BY <1>5, MatchData
  <2>2. ReplayEntry(log, e, now) =
          LogOf(ApplyEntry(loop.db, e, now), ApplyEntry(loop.db, e, now), NoTx)
    BY <1>5 DEF ReplayEntry, Mirrors, LogOf
  <2> QED
    BY <2>1, <2>2 DEF Mirrors, LoopOf
<1> QED
  BY <1>1, <1>2, <1>3, <1>4, <1>5

(***************************************************************************)
(* Inductive: at every instant the accumulator mirrors the whole loop, its *)
(* buffer included.  Writes are complete in the order of the log, and no    *)
(* entry is stamped later than it is written.                              *)
(***************************************************************************)
ReplayInv ==
    /\ wal \in Seq(Stamped)
    /\ \A i, j \in 1 .. Len(wal) : i <= j => wal[i].written <= wal[j].written
    /\ \A i \in 1 .. Len(wal) : wal[i].t <= wal[i].written
    /\ \A now \in Times : LoopOK(LoopAfter(wal, now)) /\ Mirrors(acc[now], LoopAfter(wal, now), now)

LEMMA ReplayInit == Init => ReplayInv
<1> SUFFICES ASSUME Init PROVE ReplayInv
  OBVIOUS
<1>1. wal = <<>> /\ Len(wal) = 0 /\ wal \in Seq(Stamped)
  BY DEF Init
<1>2. ASSUME NEW now \in Times
      PROVE  LoopOK(LoopAfter(wal, now)) /\ Mirrors(acc[now], LoopAfter(wal, now), now)
  <2>1. LoopAfter(wal, now) = StartLoop
    BY <1>1, LoopSteps
  <2>2. acc[now] = EmptyLog
    BY DEF Init
  <2>3. Mirrors(EmptyLog, StartLoop, now)
    BY DEF Mirrors, EmptyLog, StartLoop
  <2> QED
    BY <2>1, <2>2, <2>3, StartLoopOK
<1> QED
  BY <1>1, <1>2 DEF ReplayInv

LEMMA ReplayStep == ReplayInv /\ [Next]_vars => ReplayInv'
<1> SUFFICES ASSUME ReplayInv, [Next]_vars PROVE ReplayInv'
  OBVIOUS
<1>1. CASE UNCHANGED vars
  BY <1>1 DEF vars, ReplayInv
<1>2. ASSUME NEW e \in Entries, NEW t \in Times, NEW u \in Times, WriteEntry(e, t, u)
      PROVE  ReplayInv'
  <2> DEFINE x == [entry |-> e, t |-> t, written |-> u]
  <2>1. x \in Stamped /\ x.entry = e /\ x.t = t /\ x.written = u /\ t <= u
    BY <1>2 DEF Stamped, WriteEntry
  <2>2. wal' = Append(wal, x) /\ wal \in Seq(Stamped)
    BY <1>2 DEF WriteEntry, ReplayInv
  <2> HIDE DEF x
  <2>3. wal' \in Seq(Stamped) /\ Len(wal') = Len(wal) + 1 /\ Len(wal) \in Nat
    BY <2>1, <2>2
  <2>4. \A i \in 1 .. Len(wal) : wal'[i] = wal[i]
    BY <2>1, <2>2
  <2>5. wal'[Len(wal) + 1] = x
    BY <2>1, <2>2
  <2>6. ASSUME NEW i \in 1 .. Len(wal) PROVE wal[i].written <= u
    <3>1. wal # <<>> /\ Len(wal) \in 1 .. Len(wal)
      BY <2>2
    <3>2. u >= wal[Len(wal)].written
      BY <3>1, <1>2 DEF WriteEntry, Last
    <3>3. wal[i].written <= wal[Len(wal)].written
      BY <3>1 DEF ReplayInv
    <3>4. wal[i].written \in Int /\ wal[Len(wal)].written \in Int /\ u \in Int
      <4>1. wal[i] \in Stamped /\ wal[Len(wal)] \in Stamped
        BY <2>2, <3>1, ElementOfSeq
      <4> QED
        BY <4>1, BoundsAssumption DEF Stamped, Times
    <3> QED
      BY <3>2, <3>3, <3>4
  <2>7. ASSUME NEW i \in 1 .. Len(wal'), NEW j \in 1 .. Len(wal'), i <= j
        PROVE  wal'[i].written <= wal'[j].written
    <3>1. CASE j <= Len(wal)
      <4>1. i \in 1 .. Len(wal) /\ j \in 1 .. Len(wal)
        BY <3>1, <2>3, <2>7
      <4> QED
        BY <4>1, <2>4, <2>7 DEF ReplayInv
    <3>2. CASE j = Len(wal) + 1 /\ i <= Len(wal)
      <4>1. i \in 1 .. Len(wal)
        BY <3>2
      <4> QED
        BY <4>1, <3>2, <2>1, <2>4, <2>5, <2>6
    <3>3. CASE i = Len(wal) + 1 /\ j = Len(wal) + 1
      <4>1. u <= u
        BY BoundsAssumption DEF Times
      <4> QED
        BY <4>1, <3>3, <2>1, <2>5
    <3> QED
      BY <3>1, <3>2, <3>3, <2>3, <2>7
  <2>9. \A i \in 1 .. Len(wal') : wal'[i].t <= wal'[i].written
    <3> SUFFICES ASSUME NEW i \in 1 .. Len(wal') PROVE wal'[i].t <= wal'[i].written
      OBVIOUS
    <3>1. CASE i \in 1 .. Len(wal)
      BY <3>1, <2>4 DEF ReplayInv
    <3>2. CASE i = Len(wal) + 1
      BY <3>2, <2>1, <2>5
    <3> QED
      BY <3>1, <3>2, <2>3
  <2>8. ASSUME NEW now \in Times
        PROVE  LoopOK(LoopAfter(wal', now)) /\ Mirrors(acc'[now], LoopAfter(wal', now), now)
    <3>1. LoopAfter(wal', now) = MatchEntry(LoopAfter(wal, now), e, now)
      BY <2>1, <2>2, LoopSteps
    <3>2. acc'[now] = ReplayEntry(acc[now], e, now)
      BY <1>2 DEF WriteEntry
    <3>3. LoopOK(LoopAfter(wal, now)) /\ Mirrors(acc[now], LoopAfter(wal, now), now)
      BY DEF ReplayInv
    <3> QED
      BY <3>1, <3>2, <3>3, MirrorsStep, MatchKeepsOK
  <2> QED
    BY <2>3, <2>7, <2>8, <2>9 DEF ReplayInv
<1> QED
  BY <1>1, <1>2 DEF Next

(* The accumulator that the other modules carry in place of a log is the   *)
(* replay of that log (stream_into_state), for logs of any length.         *)
THEOREM ReplayAccumulator == Spec => []AccumulatorIsReplay
<1>1. ReplayInv => AccumulatorIsReplay
  <2> SUFFICES ASSUME ReplayInv, NEW now \in Times
               PROVE  acc[now].durable = StreamIntoState(wal, now)
    BY DEF AccumulatorIsReplay
  <2>1. acc[now].durable = LoopAfter(wal, now).db
    <3>1. Mirrors(acc[now], LoopAfter(wal, now), now)
      BY DEF ReplayInv
    <3> QED
      BY <3>1 DEF Mirrors, LogOf
  <2> QED
    BY <2>1, StreamIsLoop
<1> QED
  BY <1>1, ReplayInit, ReplayStep, PTL DEF Spec
-----------------------------------------------------------------------------
(***************************************************************************)
(* recover_to: the loop that stops agrees with the loop that does not, on  *)
(* the entries before the first one that stops it.                         *)
(***************************************************************************)
Stops(x, i, to_time, to_seq) ==
    \/ to_time # NoLimit /\ x.t > to_time
    \/ to_seq # NoLimit /\ i - 1 >= to_seq

LEMMA PrefixGrows ==
    ASSUME NEW S, NEW s \in Seq(S), NEW m \in Nat, m + 1 <= Len(s)
    PROVE  /\ SubSeq(s, 1, m) \in Seq(S)
           /\ s[m + 1] \in S
           /\ SubSeq(s, 1, m + 1) = Append(SubSeq(s, 1, m), s[m + 1])
<1>1. m + 1 \in 1 .. Len(s)
  OBVIOUS
<1>2. s[m + 1] \in S
  BY <1>1, ElementOfSeq
<1>3. SubSeq(s, 1, m) \in Seq(S)
  BY <1>1
<1>4. SubSeq(s, 1, m + 1) = Append(SubSeq(s, 1, m), s[m + 1])
  BY <1>1, <1>2, <1>3
<1> QED
  BY <1>2, <1>3, <1>4

LEMMA RecoverPrefix ==
    ASSUME NEW s \in Seq(Stamped), NEW n \in 0 .. Len(s),
           NEW to_time, NEW to_seq, NEW now,
           \A i \in 1 .. n : ~ Stops(s[i], i, to_time, to_seq),
           n < Len(s) => Stops(s[n + 1], n + 1, to_time, to_seq)
    PROVE  RecoverAfter(s, to_time, to_seq, now).db = LoopAfter(SubSeq(s, 1, n), now).db
<1> DEFINE pre(m) == SubSeq(s, 1, m)
           got(m) == RecoverAfter(pre(m), to_time, to_seq, now)
           want(m) == LoopAfter(pre(m), now)
           Before(m) == /\ m <= n => /\ got(m) = want(m) /\ got(m).count = m
                                     /\ got(m).broken = FALSE
                        /\ m > n => got(m).broken = TRUE /\ got(m).db = want(n).db
           T == {m \in Nat : m <= Len(s) => LoopOK(got(m)) /\ Before(m)}
<1>0. n \in Nat /\ Len(s) \in Nat /\ n <= Len(s)
  OBVIOUS
<1>1. 0 \in T
  <2>1. pre(0) = <<>>
    OBVIOUS
  <2>2. got(0) = StartLoop /\ want(0) = StartLoop
    BY <2>1, RecoverSteps, LoopSteps
  <2>3. StartLoop.count = 0 /\ StartLoop.broken = FALSE
    BY DEF StartLoop
  <2>4. LoopOK(got(0)) /\ Before(0)
    BY <2>2, <2>3, StartLoopOK
  <2> QED
    BY <2>4
<1>2. ASSUME NEW m \in Nat, m \in T PROVE m + 1 \in T
  <2> SUFFICES ASSUME m + 1 <= Len(s) PROVE LoopOK(got(m + 1)) /\ Before(m + 1)
    <3> HIDE DEF got, Before
    <3> QED
      BY DEF T
  <2> DEFINE x == s[m + 1]
             k == m + 1
             g == got(m)
             w == want(m)
             h == got(k)
             v == want(k)
  <2>1. LoopOK(g) /\ Before(m)
    BY <1>2
  <2>2. x \in Stamped /\ x.entry \in Entries /\ pre(m) \in Seq(Stamped)
    <3>1. x \in Stamped /\ pre(m) \in Seq(Stamped)
      BY PrefixGrows
    <3> QED
      BY <3>1 DEF Stamped
  <2>3. pre(k) = Append(pre(m), x)
    BY PrefixGrows
  <2>4. h = RecoverStep(g, x, to_time, to_seq, now)
    <3> DEFINE p == pre(m)
    <3>1. p \in Seq(Stamped) /\ x \in Stamped
      BY <2>2
    <3> HIDE DEF p, x
    <3>2. RecoverAfter(Append(p, x), to_time, to_seq, now)
            = RecoverStep(RecoverAfter(p, to_time, to_seq, now), x, to_time, to_seq, now)
      BY <3>1, RecoverSteps
    <3> QED
      BY <2>3, <3>2 DEF p, x
  <2>5. v = MatchEntry(w, x.entry, now)
    BY <2>2, <2>3, LoopSteps
  <2>6. k \in Nat /\ k - 1 = m
    OBVIOUS
  <2>7. CASE k <= n
    <3>1. g = w /\ g.count = m /\ g.broken = FALSE
      BY <2>7, <2>1
    <3>2. ~ Stops(x, k, to_time, to_seq)
      BY <2>7
    <3>3. h = MatchEntry(g, x.entry, now)
      BY <2>4, <2>6, <3>1, <3>2 DEF RecoverStep, Stops
    <3>4. LoopOK(h) /\ h.count = g.count + 1 /\ h.broken = g.broken
      BY <2>1, <2>2, <3>3, MatchKeepsOK
    <3>5. Before(k)
      BY <2>5, <2>7, <3>1, <3>3, <3>4
    <3> QED
      BY <3>4, <3>5
  <2>8. CASE k > n
    <3>1. \/ g.broken = TRUE /\ g.db = want(n).db
          \/ m = n /\ g = want(n) /\ g.count = m /\ Stops(x, k, to_time, to_seq)
      <4>1. CASE m > n
        BY <4>1, <2>1
      <4>2. CASE m = n
        BY <4>2, <2>1
      <4>3. m > n \/ m = n
        BY <1>0, <2>8
      <4> QED
        BY <4>1, <4>2, <4>3, Zenon
    <3>2. h = [g EXCEPT !.broken = TRUE] /\ g.db = want(n).db
      <4>1. CASE g.broken = TRUE /\ g.db = want(n).db
        BY <4>1, <2>4 DEF RecoverStep
      <4>2. CASE m = n /\ g = want(n) /\ g.count = m /\ Stops(x, k, to_time, to_seq)
        <5>1. h = [g EXCEPT !.broken = TRUE]
          BY <4>2, <2>4, <2>6 DEF RecoverStep, Stops
        <5> QED
          BY <4>2, <5>1
      <4> QED
        BY <3>1, <4>1, <4>2
    <3>3. LoopOK(h) /\ h.broken = TRUE /\ h.db = g.db
      BY <2>1, <3>2 DEF LoopOK, LoopOf
    <3> QED
      BY <2>8, <3>2, <3>3
  <2>9. k <= n \/ k > n
    BY <1>0, <2>6
  <2> QED
    BY <2>7, <2>8, <2>9, Zenon
<1>3. \A m \in Nat : m \in T
  <2> HIDE DEF T
  <2> QED
    BY <1>1, <1>2, Loops!NatSetInduction
<1>4. Before(Len(s)) /\ pre(Len(s)) = s
  BY <1>3
<1>5. CASE Len(s) = n
  <2>1. RecoverAfter(pre(Len(s)), to_time, to_seq, now) = LoopAfter(pre(Len(s)), now)
    BY <1>0, <1>4, <1>5
  <2> QED
    BY <1>4, <1>5, <2>1, Zenon
<1>6. CASE n < Len(s)
  BY <1>4, <1>6
<1> QED
  BY <1>0, <1>5, <1>6

(* Recovery gives the documents and schemas of one past moment of the log: *)
(* to a number of entries, or to an instant, with all that was written by  *)
(* then (recover_to, recover.rs), for logs of any length.                  *)
THEOREM ReplayRecovery == Spec => []RecoverIsPastReplay
<1>1. ReplayInv => RecoverIsPastReplay
  <2> SUFFICES ASSUME ReplayInv, NEW now \in Times
               PROVE  /\ \A n \in 0 .. Len(wal) :
                            RecoverTo(wal, NoLimit, n, now)
                              = Exported(StreamIntoState(SubSeq(wal, 1, n), now))
                      /\ \A at \in Times : \E n \in 0 .. Len(wal) :
                            /\ LogAt(n, at)
                            /\ RecoverTo(wal, at, NoLimit, now)
                                 = Exported(StreamIntoState(SubSeq(wal, 1, n), now))
    BY DEF RecoverIsPastReplay
  <2>0. wal \in Seq(Stamped) /\ Len(wal) \in Nat
    BY DEF ReplayInv
  <2>1. ASSUME NEW n \in 0 .. Len(wal)
        PROVE  RecoverTo(wal, NoLimit, n, now) = Exported(StreamIntoState(SubSeq(wal, 1, n), now))
    <3>1. \A i \in 1 .. n : ~ Stops(wal[i], i, NoLimit, n)
      BY DEF Stops
    <3>2. Stops(wal[n + 1], n + 1, NoLimit, n)
      BY <2>0 DEF Stops, NoLimit
    <3>3. RecoverAfter(wal, NoLimit, n, now).db = LoopAfter(SubSeq(wal, 1, n), now).db
      BY <2>0, <3>1, <3>2, RecoverPrefix
    <3> QED
      BY <3>3, RecoverToIsLoop, StreamIsLoop
  <2>2. ASSUME NEW at \in Times
        PROVE  \E n \in 0 .. Len(wal) :
                  /\ LogAt(n, at)
                  /\ RecoverTo(wal, at, NoLimit, now)
                       = Exported(StreamIntoState(SubSeq(wal, 1, n), now))
    <3> DEFINE U == {i \in 1 .. Len(wal) : \A j \in 1 .. i : wal[j].t <= at}
    <3>1. PICK n \in 0 .. Len(wal) : (n # 0 => n \in U) /\ \A i \in U : i <= n
      <4>1. CASE U = {}
        BY <4>1, <2>0
      <4>2. CASE U # {}
        <5>1. Max(U) \in U /\ \A y \in U : y <= Max(U)
          BY <4>2, <2>0, Loops!MaxIndex DEF Max, Loops!Max
        <5> HIDE DEF U
        <5>2. Max(U) \in 0 .. Len(wal)
          BY <5>1, <2>0 DEF U
        <5> QED
          BY <5>1, <5>2
      <4> QED
        BY <4>1, <4>2
    <3>2. /\ \A i \in 1 .. Len(wal) : wal[i].t \in Int /\ wal[i].written \in Int
          /\ at \in Int
      <4>1. \A i \in 1 .. Len(wal) : wal[i] \in Stamped
        BY <2>0, ElementOfSeq
      <4> QED
        BY <4>1, BoundsAssumption DEF Stamped, Times
    <3>3. \A i \in 1 .. n : wal[i].t <= at
      BY <3>1
    <3>4. ASSUME n < Len(wal) PROVE wal[n + 1].t > at
      <4>1. n + 1 \in 1 .. Len(wal) /\ n + 1 \notin U
        BY <3>1, <3>4, <2>0
      <4>2. PICK j \in 1 .. n + 1 : ~ (wal[j].t <= at)
        BY <4>1
      <4>3. j = n + 1
        BY <3>3, <4>2
      <4> QED
        BY <3>2, <4>1, <4>2, <4>3
    <3> HIDE DEF U
    <3>5. LogAt(n, at)
      <4> SUFFICES ASSUME NEW i \in 1 .. Len(wal), wal[i].written <= at, i > n PROVE FALSE
        BY <3>3 DEF LogAt
      <4>1. n < Len(wal) /\ n + 1 \in 1 .. Len(wal) /\ n + 1 <= i
        BY <2>0
      <4>2. wal[n + 1].t <= wal[n + 1].written /\ wal[n + 1].written <= wal[i].written
        BY <4>1 DEF ReplayInv
      <4> QED
        BY <3>2, <3>4, <4>1, <4>2
    <3>6. \A i \in 1 .. n : ~ Stops(wal[i], i, at, NoLimit)
      <4>1. \A i \in 1 .. n : i \in 1 .. Len(wal)
        BY <2>0
      <4> QED
        BY <3>2, <3>3, <4>1 DEF Stops
    <3>7. n < Len(wal) => Stops(wal[n + 1], n + 1, at, NoLimit)
      <4>1. at # NoLimit
        BY BoundsAssumption DEF Times, NoLimit
      <4> QED
        BY <3>4, <4>1 DEF Stops
    <3>8. RecoverAfter(wal, at, NoLimit, now).db = LoopAfter(SubSeq(wal, 1, n), now).db
      BY <2>0, <3>6, <3>7, RecoverPrefix
    <3>9. RecoverTo(wal, at, NoLimit, now) = Exported(StreamIntoState(SubSeq(wal, 1, n), now))
      BY <3>8, RecoverToIsLoop, StreamIsLoop
    <3> QED
      BY <3>5, <3>9
  <2> QED
    BY <2>1, <2>2
<1> QED
  BY <1>1, ReplayInit, ReplayStep, PTL DEF Spec
-----------------------------------------------------------------------------
(***************************************************************************)
(* Replay against the reference that picks the surviving entries by their  *)
(* position.  `open' asks what would survive if the transaction open at    *)
(* the end of the log were committed next: that is what is pending.        *)
(***************************************************************************)
LastBegin(log) == Max(Begins(log, Len(log)))

IsOpen(log) == Begins(log, Len(log)) # {} /\ Commits(log, LastBegin(log)) = {}

Counts(log, i, open) ==
    /\ ~ IsBracket(log, i)
    /\ \/ Begins(log, i) = {}
       \/ Commits(log, Max(Begins(log, i))) # {}
       \/ open /\ Max(Begins(log, i)) = LastBegin(log)

Kept(log, open) == {i \in 1 .. Len(log) : Counts(log, i, open)}

PickOp(p, db, i) == IF i \in p[2] THEN ApplyEntry(db, p[1][i].entry, p[3]) ELSE db

Picking == INSTANCE FoldFacts WITH Op <- PickOp

Positions(n) == [i \in 1 .. n |-> i]

Chosen(log, kept, now, n) == Picking!Fold(<<log, kept, now>>, EmptyDb, Positions(n))

LEMMA ApplyOnlyIsChosen ==
    ASSUME NEW log, NEW kept, NEW now
    PROVE  ApplyOnly(log, kept, now) = Chosen(log, kept, now, Len(log))
BY DEF ApplyOnly, Chosen, Positions, Picking!Fold, PickOp,
       FoldLeft, MapThenFoldSet, Max, Picking!FoldLeft, Picking!MapThenFoldSet, Picking!Max

LEMMA ChosenStart ==
    ASSUME NEW log, NEW kept, NEW now
    PROVE  Chosen(log, kept, now, 0) = EmptyDb
<1>1. Positions(0) = <<>>
  BY DEF Positions
<1> QED
  BY <1>1, Picking!FoldEmpty DEF Chosen

LEMMA ChosenStep ==
    ASSUME NEW log, NEW kept, NEW now, NEW n \in Nat, NEW k, k = n + 1
    PROVE  Chosen(log, kept, now, k) =
             IF k \in kept THEN ApplyEntry(Chosen(log, kept, now, n), log[k].entry, now)
                           ELSE Chosen(log, kept, now, n)
<1> DEFINE s == Positions(n)
           p == <<log, kept, now>>
<1>1. s \in Seq(Nat) /\ k \in Nat /\ Positions(k) = Append(s, k)
  BY DEF Positions
<1>2. p[1] = log /\ p[2] = kept /\ p[3] = now
  OBVIOUS
<1> HIDE DEF s, p
<1>3. Picking!Fold(p, EmptyDb, Append(s, k)) = PickOp(p, Picking!Fold(p, EmptyDb, s), k)
  BY <1>1, Picking!FoldAppend
<1>4. Chosen(log, kept, now, k) = PickOp(p, Chosen(log, kept, now, n), k)
  BY <1>1, <1>3 DEF Chosen, s, p
<1> QED
  BY <1>2, <1>4 DEF PickOp

(* Two logs that keep the same of their first n entries build the same state. *)
Alike(log, kept, other, others, n) ==
    \A i \in 1 .. n : (i \in kept <=> i \in others) /\ log[i] = other[i]

LEMMA ChosenAlike ==
    ASSUME NEW log, NEW kept, NEW other, NEW others, NEW now, NEW n \in Nat,
           Alike(log, kept, other, others, n)
    PROVE  Chosen(log, kept, now, n) = Chosen(other, others, now, n)
<1> DEFINE Same(m) == Chosen(log, kept, now, m) = Chosen(other, others, now, m)
           T == {m \in Nat : m <= n => Same(m)}
<1>1. 0 \in T
  BY ChosenStart
<1>2. ASSUME NEW m \in Nat, m \in T PROVE m + 1 \in T
  <2> DEFINE k == m + 1
  <2>0. k \in Nat /\ k = m + 1
    OBVIOUS
  <2> SUFFICES ASSUME k <= n PROVE Same(k)
    <3> HIDE DEF Same
    <3> QED
      BY <2>0 DEF T
  <2>1. k \in 1 .. n /\ Same(m)
    BY <1>2
  <2>2. (k \in kept <=> k \in others) /\ log[k] = other[k]
    BY <2>1 DEF Alike
  <2> HIDE DEF k
  <2>3. Chosen(log, kept, now, k) =
          IF k \in kept THEN ApplyEntry(Chosen(log, kept, now, m), log[k].entry, now)
                        ELSE Chosen(log, kept, now, m)
    BY <2>0, ChosenStep
  <2>4. Chosen(other, others, now, k) =
          IF k \in others THEN ApplyEntry(Chosen(other, others, now, m), other[k].entry, now)
                          ELSE Chosen(other, others, now, m)
    BY <2>0, ChosenStep
  <2> QED
    BY <2>1, <2>2, <2>3, <2>4
<1>3. \A m \in Nat : m \in T
  <2> HIDE DEF T
  <2> QED
    BY <1>1, <1>2, Picking!NatSetInduction
<1> QED
  BY <1>3

LEMMA ChosenGrows ==
    ASSUME NEW v, NEW kv, NEW w, NEW kw, NEW now, NEW n \in Nat, NEW k, k = n + 1,
           Alike(v, kv, w, kw, n), NEW e, e = v[k].entry
    PROVE  Chosen(v, kv, now, k) = IF k \in kv THEN ApplyEntry(Chosen(w, kw, now, n), e, now)
                                               ELSE Chosen(w, kw, now, n)
<1>1. Chosen(v, kv, now, n) = Chosen(w, kw, now, n)
  BY ChosenAlike
<1>2. Chosen(v, kv, now, k) = IF k \in kv THEN ApplyEntry(Chosen(v, kv, now, n), v[k].entry, now)
                                          ELSE Chosen(v, kv, now, n)
  BY ChosenStep
<1> QED
  BY <1>1, <1>2

LEMMA BeginMax ==
    ASSUME NEW log, NEW i \in Nat, Begins(log, i) # {}
    PROVE  /\ Max(Begins(log, i)) \in Begins(log, i)
           /\ Max(Begins(log, i)) \in 1 .. i
           /\ \A y \in Begins(log, i) : y <= Max(Begins(log, i))
<1>1. Begins(log, i) \in SUBSET (1 .. i)
  BY DEF Begins
<1>2. /\ Max(Begins(log, i)) \in Begins(log, i)
      /\ \A y \in Begins(log, i) : y <= Max(Begins(log, i))
  BY <1>1, Picking!MaxIndex DEF Max, Picking!Max
<1> QED
  BY <1>1, <1>2

(***************************************************************************)
(* One more entry: the positions before it keep their BEGINs, and the only *)
(* BEGIN that can gain a COMMIT is the last one.                           *)
(***************************************************************************)
Longer(w, x, v) == v = Append(w, x)

Grown(w, x, v) ==
    /\ v \in Seq(Stamped) /\ Len(v) = Len(w) + 1 /\ Len(w) \in Nat
    /\ v[Len(w) + 1] = x
    /\ \A i \in 1 .. Len(w) : /\ v[i] = w[i] /\ Begins(v, i) = Begins(w, i)
                              /\ IsBracket(v, i) <=> IsBracket(w, i)
    /\ Begins(v, Len(v)) =
         IF x.entry.cmd = "TX_BEGIN" THEN Begins(w, Len(w)) \cup {Len(w) + 1}
                                     ELSE Begins(w, Len(w))

LEMMA GrowSame ==
    ASSUME NEW w \in Seq(Stamped), NEW x \in Stamped, NEW v, Longer(w, x, v)
    PROVE  Grown(w, x, v)
<1>1. v \in Seq(Stamped) /\ Len(v) = Len(w) + 1 /\ Len(w) \in Nat
  BY DEF Longer
<1>2. v[Len(w) + 1] = x /\ \A i \in 1 .. Len(w) : v[i] = w[i]
  BY DEF Longer
<1>3. \A i \in 1 .. Len(w) : Begins(v, i) = Begins(w, i) /\ (IsBracket(v, i) <=> IsBracket(w, i))
  BY <1>1, <1>2 DEF Begins, IsBracket
<1>4. Begins(v, Len(w) + 1) =
        IF x.entry.cmd = "TX_BEGIN" THEN Begins(w, Len(w)) \cup {Len(w) + 1}
                                    ELSE Begins(w, Len(w))
  BY <1>1, <1>2 DEF Begins
<1> QED
  BY <1>1, <1>2, <1>3, <1>4 DEF Grown

Closes(log, x, b) ==
    /\ x.entry.cmd = "TX_COMMIT"
    /\ x.entry.key = log[b].entry.key
    /\ \A o \in b + 1 .. Len(log) : log[o].entry.cmd # "TX_BEGIN"

LEMMA GrowCommits ==
    ASSUME NEW w \in Seq(Stamped), NEW x \in Stamped, NEW v, Longer(w, x, v),
           NEW b \in 1 .. Len(w)
    PROVE  Commits(v, b) = IF Closes(w, x, b) THEN Commits(w, b) \cup {Len(w) + 1}
                                              ELSE Commits(w, b)
<1> DEFINE n == Len(w)
<1>1. Len(v) = n + 1 /\ n \in Nat /\ v[n + 1] = x /\ \A i \in 1 .. n : v[i] = w[i]
  BY GrowSame DEF Grown
<1> HIDE DEF n
<1>2. b \in 1 .. n
  BY DEF n
<1>3. ASSUME NEW m \in b + 1 .. n
      PROVE  m \in Commits(v, b) <=> m \in Commits(w, b)
  BY <1>1, <1>2 DEF Commits, n
<1>4. n + 1 \in Commits(v, b) <=> Closes(w, x, b)
  BY <1>1, <1>2 DEF Commits, Closes, n
<1>5. Commits(v, b) \subseteq b + 1 .. n + 1 /\ Commits(w, b) \subseteq b + 1 .. n
  BY <1>1 DEF Commits, n
<1>6. \A m : m \in b + 1 .. n + 1 <=> m \in b + 1 .. n \/ m = n + 1
  BY <1>1, <1>2
<1>7. n + 1 \notin b + 1 .. n
  BY <1>1
<1> QED
  <2>1. CASE Closes(w, x, b)
    BY <2>1, <1>3, <1>4, <1>5, <1>6, <1>7 DEF n
  <2>2. CASE ~ Closes(w, x, b)
    <3>1. ASSUME NEW m PROVE m \in Commits(v, b) <=> m \in Commits(w, b)
      BY <2>2, <1>3, <1>4, <1>5, <1>6, <1>7
    <3>2. Commits(v, b) = Commits(w, b)
      BY <3>1, Zenon
    <3> QED
      BY <2>2, <3>2, Zenon
  <2> QED
    BY <2>1, <2>2

(* A BEGIN that is the last one before position i is closed by x only when *)
(* it is the last one of the log.                                          *)
LEMMA ClosesLast ==
    ASSUME NEW w \in Seq(Stamped), NEW x \in Stamped, NEW i \in 1 .. Len(w),
           Begins(w, i) # {}, Closes(w, x, Max(Begins(w, i)))
    PROVE  Max(Begins(w, i)) = LastBegin(w)
<1> DEFINE b == Max(Begins(w, i))
           m == LastBegin(w)
<1>1. b \in Begins(w, i) /\ b \in 1 .. i /\ i \in Nat /\ Len(w) \in Nat
  BY BeginMax
<1>2. b \in Begins(w, Len(w))
  BY <1>1 DEF Begins
<1>3. m \in Begins(w, Len(w)) /\ m \in 1 .. Len(w) /\ b <= m
  BY <1>1, <1>2, BeginMax DEF LastBegin
<1>4. ~ (b < m)
  <2> SUFFICES ASSUME b < m PROVE FALSE
    OBVIOUS
  <2>1. m \in b + 1 .. Len(w)
    BY <1>1, <1>3
  <2> QED
    BY <2>1, <1>3 DEF Closes, Begins
<1> QED
  BY <1>1, <1>3, <1>4

LEMMA GrowBegin ==
    ASSUME NEW w \in Seq(Stamped), NEW x \in Stamped, NEW v, Longer(w, x, v),
           x.entry.cmd = "TX_BEGIN", NEW open \in BOOLEAN
    PROVE  /\ \A i \in 1 .. Len(w) : i \in Kept(v, open) <=> i \in Kept(w, FALSE)
           /\ Len(v) \notin Kept(v, open)
           /\ IsOpen(v) /\ LastBegin(v) = Len(v)
<1> DEFINE n == Len(w)
<1>0. /\ Len(v) = n + 1 /\ n \in Nat /\ Len(v) \in Nat
      /\ v[n + 1] = x /\ Begins(v, Len(v)) = Begins(w, n) \cup {n + 1}
  <2>1. Grown(w, x, v)
    BY GrowSame
  <2> QED
    BY <2>1 DEF Grown
<1>1. LastBegin(v) = Len(v)
  <2>1. Begins(v, Len(v)) # {}
    BY <1>0
  <2>2. LastBegin(v) \in 1 .. Len(v) /\ \A y \in Begins(v, Len(v)) : y <= LastBegin(v)
    BY <1>0, <2>1, BeginMax DEF LastBegin
  <2>3. n + 1 <= LastBegin(v)
    BY <1>0, <2>2
  <2> QED
    BY <1>0, <2>2, <2>3
<1>2. IsOpen(v)
  <2>1. Commits(v, Len(v)) = {}
    BY <1>0 DEF Commits
  <2> QED
    BY <1>0, <1>1, <2>1 DEF IsOpen
<1>3. Len(v) \notin Kept(v, open)
  BY <1>0 DEF Kept, Counts, IsBracket
<1>4. ASSUME NEW i \in 1 .. n PROVE i \in Kept(v, open) <=> i \in Kept(w, FALSE)
  <2>1. /\ i \in Nat /\ i \in 1 .. Len(v) /\ i <= n
        /\ Begins(v, i) = Begins(w, i) /\ (IsBracket(v, i) <=> IsBracket(w, i))
    <3>1. Grown(w, x, v)
      BY GrowSame
    <3> QED
      BY <1>0, <3>1 DEF Grown
  <2>2. CASE Begins(w, i) = {}
    BY <2>1, <2>2 DEF Kept, Counts
  <2>3. CASE Begins(w, i) # {}
    <3> DEFINE b == Max(Begins(w, i))
    <3>1. b \in 1 .. i
      BY <2>1, <2>3, BeginMax
    <3>2. b \in 1 .. n /\ b # LastBegin(v)
      BY <1>0, <1>1, <2>1, <3>1
    <3>3. Commits(v, b) = Commits(w, b)
      <4> HIDE DEF b
      <4> QED
        BY <3>2, GrowCommits DEF Closes
    <3> HIDE DEF b
    <3> QED
      BY <2>1, <2>3, <3>2, <3>3 DEF Kept, Counts, b
  <2> QED
    BY <2>2, <2>3
<1> QED
  BY <1>1, <1>2, <1>3, <1>4

LEMMA GrowOther ==
    ASSUME NEW w \in Seq(Stamped), NEW x \in Stamped, NEW v, Longer(w, x, v),
           x.entry.cmd # "TX_BEGIN", NEW open \in BOOLEAN,
           NEW closing, closing = (IsOpen(w) /\ Closes(w, x, LastBegin(w)))
    PROVE  /\ \A i \in 1 .. Len(w) : i \in Kept(v, open) <=> i \in Kept(w, open \/ closing)
           /\ Len(v) \in Kept(v, open) <=> x.entry.cmd # "TX_COMMIT" /\ (open \/ ~ IsOpen(v))
           /\ LastBegin(v) = LastBegin(w)
           /\ IsOpen(v) <=> IsOpen(w) /\ ~ closing
<1> DEFINE n == Len(w)
<1>0. /\ Len(v) = n + 1 /\ n \in Nat /\ Len(v) \in Nat /\ n + 1 \in 1 .. Len(v)
      /\ v[n + 1] = x /\ Begins(v, Len(v)) = Begins(w, n)
  <2>1. Grown(w, x, v)
    BY GrowSame
  <2> QED
    BY <2>1 DEF Grown
<1>1. LastBegin(v) = LastBegin(w)
  BY <1>0 DEF LastBegin
<1>2. IsOpen(v) <=> IsOpen(w) /\ ~ closing
  <2>1. CASE Begins(w, n) = {}
    BY <1>0, <2>1 DEF IsOpen
  <2>2. CASE Begins(w, n) # {}
    <3> DEFINE b == LastBegin(w)
    <3>1. b \in 1 .. n
      BY <1>0, <2>2, BeginMax DEF LastBegin
    <3> HIDE DEF b
    <3>2. Commits(v, b) = IF Closes(w, x, b) THEN Commits(w, b) \cup {n + 1} ELSE Commits(w, b)
      BY <3>1, GrowCommits
    <3>3. IsOpen(w) <=> Commits(w, b) = {}
      BY <2>2 DEF IsOpen, b
    <3>4. IsOpen(v) <=> Commits(v, b) = {}
      BY <2>2, <1>0, <1>1 DEF IsOpen, b
    <3>5. closing <=> IsOpen(w) /\ Closes(w, x, b)
      BY DEF b
    <3> QED
      BY <3>2, <3>3, <3>4, <3>5
  <2> QED
    BY <2>1, <2>2
<1>3. Len(v) \in Kept(v, open) <=> x.entry.cmd # "TX_COMMIT" /\ (open \/ ~ IsOpen(v))
  <2>1. IsBracket(v, Len(v)) <=> x.entry.cmd = "TX_COMMIT"
    BY <1>0 DEF IsBracket
  <2>2. Len(v) \in Kept(v, open) <=> Counts(v, Len(v), open)
    BY <1>0 DEF Kept
  <2> QED
    BY <2>1, <2>2 DEF Counts, IsOpen, LastBegin
<1>4. ASSUME NEW i \in 1 .. n PROVE i \in Kept(v, open) <=> i \in Kept(w, open \/ closing)
  <2>1. /\ i \in Nat /\ i \in 1 .. Len(v) /\ i <= n
        /\ Begins(v, i) = Begins(w, i) /\ (IsBracket(v, i) <=> IsBracket(w, i))
    <3>1. Grown(w, x, v)
      BY GrowSame
    <3> QED
      BY <1>0, <3>1 DEF Grown
  <2>2. CASE Begins(w, i) = {}
    BY <2>1, <2>2 DEF Kept, Counts
  <2>3. CASE Begins(w, i) # {}
    <3> DEFINE b == Max(Begins(w, i))
    <3>1. b \in 1 .. i /\ b \in Begins(w, i)
      BY <2>1, <2>3, BeginMax
    <3>2. b \in 1 .. n /\ Begins(w, n) # {}
      BY <1>0, <2>1, <3>1 DEF Begins
    <3>3. Closes(w, x, b) => b = LastBegin(w)
      BY <2>3, ClosesLast
    <3>4. Commits(v, b) = IF Closes(w, x, b) THEN Commits(w, b) \cup {n + 1} ELSE Commits(w, b)
      <4> HIDE DEF b
      <4> QED
        BY <3>2, GrowCommits
    <3>5. b = LastBegin(w) => (IsOpen(w) <=> Commits(w, b) = {})
      BY <3>2 DEF IsOpen
    <3>6. i \in Kept(v, open) <=> ~ IsBracket(w, i) /\ (Commits(v, b) # {} \/ (open /\ b = LastBegin(w)))
      BY <1>1, <2>1, <2>3 DEF Kept, Counts
    <3>7. i \in Kept(w, open \/ closing)
            <=> ~ IsBracket(w, i) /\ (Commits(w, b) # {} \/ ((open \/ closing) /\ b = LastBegin(w)))
      BY <2>1, <2>3 DEF Kept, Counts
    <3> HIDE DEF b
    <3>8. CASE b = LastBegin(w)
      BY <3>4, <3>5, <3>6, <3>7, <3>8
    <3>9. CASE b # LastBegin(w)
      BY <3>3, <3>4, <3>6, <3>7, <3>9
    <3> QED
      BY <3>8, <3>9
  <2> QED
    BY <2>2, <2>3
<1> QED
  BY <1>1, <1>2, <1>3, <1>4

(* The accumulator holds what survives now, and what would if the open     *)
(* transaction were committed next.                                        *)
Tracks(log, w, now) ==
    /\ log = LogOf(log.durable, log.pending, log.active)
    /\ log.durable = Chosen(w, Kept(w, FALSE), now, Len(w))
    /\ log.pending = Chosen(w, Kept(w, TRUE), now, Len(w))
    /\ log.active = IF IsOpen(w) THEN w[LastBegin(w)].entry.key ELSE NoTx

LEMMA TracksFrom ==
    ASSUME NEW w, NEW now, NEW durable, NEW pending, NEW active, NEW log,
           log = LogOf(durable, pending, active),
           durable = Chosen(w, Kept(w, FALSE), now, Len(w)),
           pending = Chosen(w, Kept(w, TRUE), now, Len(w)),
           active = IF IsOpen(w) THEN w[LastBegin(w)].entry.key ELSE NoTx
    PROVE  Tracks(log, w, now)
<1>1. log.durable = durable /\ log.pending = pending /\ log.active = active
  BY DEF LogOf
<1> QED
  BY <1>1, Zenon DEF Tracks

LEMMA TracksBegin ==
    ASSUME NEW w \in Seq(Stamped), NEW x \in Stamped, NEW v, Longer(w, x, v),
           NEW log, NEW now, Tracks(log, w, now), x.entry.cmd = "TX_BEGIN"
    PROVE  Tracks(ReplayEntry(log, x.entry, now), v, now)
<1>1. Grown(w, x, v)
  BY GrowSame
<1>2. Len(w) \in Nat /\ Len(v) = Len(w) + 1 /\ v[Len(v)] = x /\ \A i \in 1 .. Len(w) : v[i] = w[i]
  BY <1>1 DEF Grown
<1>3. ReplayEntry(log, x.entry, now) = LogOf(log.durable, log.durable, x.entry.key)
  BY DEF ReplayEntry
<1>4. ASSUME NEW open \in BOOLEAN
      PROVE  Chosen(v, Kept(v, open), now, Len(v)) = log.durable
  <2> DEFINE kv == Kept(v, open)
             kw == Kept(w, FALSE)
             k == Len(v)
             n == Len(w)
  <2>1. /\ \A i \in 1 .. n : i \in kv <=> i \in kw
        /\ k \notin kv
    BY GrowBegin
  <2>2. n \in Nat /\ k = n + 1
    BY <1>2
  <2> HIDE DEF kv, kw, k, n
  <2>3. Chosen(v, kv, now, k) = Chosen(v, kv, now, n)
    BY <2>1, <2>2, ChosenStep
  <2>4. Chosen(v, kv, now, n) = Chosen(w, kw, now, n)
    <3>1. Alike(v, kv, w, kw, n)
      BY <1>2, <2>1 DEF Alike, n
    <3> QED
      BY <2>2, <3>1, ChosenAlike
  <2> QED
    BY <2>3, <2>4 DEF Tracks, kv, kw, k, n
<1>5. IsOpen(v) /\ LastBegin(v) = Len(v)
  BY GrowBegin
<1> QED
  <2>1. x.entry.key = IF IsOpen(v) THEN v[LastBegin(v)].entry.key ELSE NoTx
    BY <1>2, <1>5
  <2>2. /\ Chosen(v, Kept(v, FALSE), now, Len(v)) = log.durable
        /\ Chosen(v, Kept(v, TRUE), now, Len(v)) = log.durable
    BY <1>4, Zenon
  <2> QED
    BY <1>3, <2>1, <2>2, TracksFrom, Zenon

LEMMA TracksOther ==
    ASSUME NEW w \in Seq(Stamped), NEW x \in Stamped, NEW v, Longer(w, x, v),
           NEW log, NEW now, Tracks(log, w, now), x.entry.cmd # "TX_BEGIN"
    PROVE  Tracks(ReplayEntry(log, x.entry, now), v, now)
<1> DEFINE closing == IsOpen(w) /\ Closes(w, x, LastBegin(w))
           k == Len(v)
           n == Len(w)
           new == ReplayEntry(log, x.entry, now)
           at(open) == Chosen(w, Kept(w, open), now, n)
           got(open) == Chosen(v, Kept(v, open), now, k)
<1>0. x.entry \in Entries
  BY DEF Stamped
<1>1. /\ n \in Nat /\ k = n + 1 /\ k \in Nat /\ v[k] = x
      /\ \A i \in 1 .. n : v[i] = w[i]
  <2>1. Grown(w, x, v)
    BY GrowSame
  <2> QED
    BY <2>1 DEF Grown
<1>2. closing \in BOOLEAN
  OBVIOUS
<1>3. ASSUME NEW open \in BOOLEAN
      PROVE  got(open) =
               IF x.entry.cmd # "TX_COMMIT" /\ (open \/ ~ IsOpen(v))
               THEN ApplyEntry(at(open \/ closing), x.entry, now)
               ELSE at(open \/ closing)
  <2> DEFINE kv == Kept(v, open)
             kw == Kept(w, open \/ closing)
  <2>1. /\ \A i \in 1 .. n : i \in kv <=> i \in kw
        /\ k \in kv <=> x.entry.cmd # "TX_COMMIT" /\ (open \/ ~ IsOpen(v))
    <3> HIDE DEF closing
    <3>1. closing = (IsOpen(w) /\ Closes(w, x, LastBegin(w)))
      BY DEF closing
    <3> QED
      BY <3>1, GrowOther
  <2> HIDE DEF kv, kw, k, n
  <2>2. Alike(v, kv, w, kw, n)
    BY <1>1, <2>1 DEF Alike
  <2> DEFINE e == x.entry
  <2>3. n \in Nat /\ k = n + 1 /\ e = v[k].entry
    BY <1>1
  <2> HIDE DEF e
  <2>4. Chosen(v, kv, now, k) = IF k \in kv THEN ApplyEntry(Chosen(w, kw, now, n), e, now)
                                            ELSE Chosen(w, kw, now, n)
    BY <2>2, <2>3, ChosenGrows
  <2> QED
    BY <2>1, <2>4 DEF kv, kw, e
<1>4. /\ LastBegin(v) = LastBegin(w)
      /\ IsOpen(v) <=> IsOpen(w) /\ ~ closing
  <2> HIDE DEF closing
  <2>1. closing = (IsOpen(w) /\ Closes(w, x, LastBegin(w)))
    BY DEF closing
  <2> QED
    BY <2>1, GrowOther
<1>5. /\ log = LogOf(log.durable, log.pending, log.active)
      /\ log.durable = at(FALSE) /\ log.pending = at(TRUE)
      /\ log.active = IF IsOpen(w) THEN w[LastBegin(w)].entry.key ELSE NoTx
  BY DEF Tracks
<1>6. ASSUME IsOpen(w)
      PROVE  /\ LastBegin(w) \in 1 .. n /\ w[LastBegin(w)].entry.key \in TxIds
             /\ v[LastBegin(v)] = w[LastBegin(w)]
             /\ x.entry.cmd = "TX_COMMIT" =>
                  (closing <=> x.entry.key = w[LastBegin(w)].entry.key)
  <2> DEFINE b == LastBegin(w)
  <2>1. b \in Begins(w, n) /\ b \in 1 .. n /\ \A y \in Begins(w, n) : y <= b
    BY <1>1, <1>6, BeginMax DEF IsOpen, LastBegin
  <2>2. w[b] \in Stamped
    BY <2>1, ElementOfSeq
  <2>3. w[b].entry \in Entries /\ w[b].entry.cmd = "TX_BEGIN"
    BY <2>1, <2>2 DEF Stamped, Begins
  <2>4. w[b].entry.key \in TxIds
    BY <2>3, EntriesShape
  <2>5. \A o \in b + 1 .. n : w[o].entry.cmd # "TX_BEGIN"
    <3> SUFFICES ASSUME NEW o \in b + 1 .. n, w[o].entry.cmd = "TX_BEGIN" PROVE FALSE
      OBVIOUS
    <3>1. o \in Begins(w, n)
      BY <1>1, <2>1 DEF Begins
    <3> QED
      BY <1>1, <2>1, <3>1
  <2>6. x.entry.cmd = "TX_COMMIT" => (closing <=> x.entry.key = w[b].entry.key)
    BY <1>6, <2>5 DEF Closes
  <2>7. v[LastBegin(v)] = w[b]
    BY <1>1, <1>4, <2>1
  <2> QED
    BY <2>1, <2>4, <2>6, <2>7
<1> HIDE DEF n, k, at, got
<1>7. CASE x.entry.cmd = "TX_COMMIT" /\ closing
  <2>1. IsOpen(w) /\ log.active = x.entry.key
    BY <1>5, <1>6, <1>7
  <2>2. new = LogOf(log.pending, log.pending, NoTx)
    BY <1>7, <2>1 DEF ReplayEntry
  <2>3. got(FALSE) = at(TRUE) /\ got(TRUE) = at(TRUE)
    <3> HIDE DEF closing
    <3> QED
      BY <1>3, <1>7
  <2>4. ~ IsOpen(v)
    BY <1>4, <1>7
  <2> QED
    BY <1>5, <2>2, <2>3, <2>4, TracksFrom, Zenon DEF got, k
<1>8. CASE x.entry.cmd = "TX_COMMIT" /\ ~ closing
  <2>0. x.entry.key \in TxIds
    BY <1>0, <1>8, EntriesShape
  <2>1. log.active # x.entry.key
    BY <1>5, <1>6, <1>8, <2>0, NoTxAssumption
  <2>2. new = log
    BY <1>8, <2>1 DEF ReplayEntry
  <2>3. got(FALSE) = at(FALSE) /\ got(TRUE) = at(TRUE)
    <3> HIDE DEF closing
    <3> QED
      BY <1>2, <1>3, <1>8
  <2>4. IsOpen(v) <=> IsOpen(w)
    BY <1>4, <1>8
  <2>5. log.active = IF IsOpen(v) THEN v[LastBegin(v)].entry.key ELSE NoTx
    BY <1>5, <1>6, <2>4
  <2> QED
    BY <1>5, <2>2, <2>3, <2>5 DEF Tracks, got, k
<1>9. CASE x.entry.cmd # "TX_COMMIT"
  <2>0. closing = FALSE
    BY <1>9 DEF Closes
  <2> HIDE DEF closing
  <2>1. IsOpen(v) <=> IsOpen(w)
    BY <1>4, <2>0
  <2>2. got(TRUE) = ApplyEntry(at(TRUE), x.entry, now)
    BY <1>3, <1>9, <2>0
  <2>3. got(FALSE) = IF IsOpen(w) THEN at(FALSE) ELSE ApplyEntry(at(FALSE), x.entry, now)
    BY <1>3, <1>9, <2>0, <2>1
  <2>4. CASE IsOpen(w)
    <3>1. log.active # NoTx
      BY <1>5, <1>6, <2>4, NoTxAssumption
    <3>2. new = LogOf(log.durable, ApplyEntry(log.pending, x.entry, now), log.active)
      BY <1>9, <3>1 DEF ReplayEntry
    <3>3. log.active = v[LastBegin(v)].entry.key
      BY <1>5, <1>6, <2>4
    <3> QED
      BY <1>5, <2>1, <2>2, <2>3, <2>4, <3>2, <3>3, TracksFrom, Zenon DEF got, k
  <2>5. CASE ~ IsOpen(w)
    <3>1. log.active = NoTx
      BY <1>5, <2>5
    <3>2. new = LogOf(ApplyEntry(log.durable, x.entry, now),
                      ApplyEntry(log.durable, x.entry, now), NoTx)
      BY <1>9, <3>1 DEF ReplayEntry
    <3>3. at(TRUE) = at(FALSE)
      <4>1. Kept(w, TRUE) = Kept(w, FALSE)
        <5>1. ASSUME NEW i \in 1 .. Len(w) PROVE Counts(w, i, TRUE) <=> Counts(w, i, FALSE)
          <6>1. CASE Begins(w, Len(w)) = {}
            <7>1. Begins(w, i) = {}
              BY <6>1 DEF Begins
            <7> QED
              BY <7>1 DEF Counts
          <6>2. CASE Commits(w, LastBegin(w)) # {}
            BY <6>2 DEF Counts
          <6> QED
            BY <2>5, <6>1, <6>2 DEF IsOpen
        <5> QED
          BY <5>1 DEF Kept
      <4> QED
        BY <4>1 DEF at
    <3> QED
      BY <1>5, <2>1, <2>2, <2>3, <2>5, <3>2, <3>3, TracksFrom, Zenon DEF got, k
  <2> QED
    BY <2>4, <2>5
<1> QED
  BY <1>7, <1>8, <1>9

CommittedInv == ReplayInv /\ \A now \in Times : Tracks(acc[now], wal, now)

(* A restart rebuilds exactly the committed writes, in the order they were *)
(* written (stream_into_state, storage/mod.rs), for logs of any length and *)
(* however the brackets of their transactions interleave.                  *)
THEOREM ReplayCommitted == Spec => []ReplayIsCommittedWrites
<1>1. Init => CommittedInv
  <2> SUFFICES ASSUME Init, NEW now \in Times PROVE Tracks(acc[now], wal, now)
    BY ReplayInit DEF CommittedInv
  <2>1. acc[now] = EmptyLog /\ wal = <<>> /\ Len(wal) = 0
    BY DEF Init
  <2>2. ~ IsOpen(wal)
    BY <2>1 DEF IsOpen, Begins
  <2>3. \A kept : Chosen(wal, kept, now, Len(wal)) = EmptyDb
    BY <2>1, ChosenStart
  <2> QED
    BY <2>1, <2>2, <2>3, TracksFrom, Zenon DEF EmptyLog
<1>2. CommittedInv /\ [Next]_vars => CommittedInv'
  <2> SUFFICES ASSUME CommittedInv, [Next]_vars, NEW now \in Times
               PROVE  Tracks(acc'[now], wal', now)
    BY ReplayStep DEF CommittedInv
  <2>1. CASE UNCHANGED vars
    BY <2>1 DEF vars, CommittedInv
  <2>2. ASSUME NEW e \in Entries, NEW t \in Times, NEW u \in Times, WriteEntry(e, t, u)
        PROVE  Tracks(acc'[now], wal', now)
    <3> DEFINE x == [entry |-> e, t |-> t, written |-> u]
               v == wal'
    <3>1. x \in Stamped /\ x.entry = e
      BY DEF Stamped
    <3>2. v = Append(wal, x) /\ wal \in Seq(Stamped) /\ Tracks(acc[now], wal, now)
      BY <2>2 DEF WriteEntry, CommittedInv, ReplayInv
    <3>3. acc'[now] = ReplayEntry(acc[now], e, now)
      BY <2>2 DEF WriteEntry
    <3> HIDE DEF x, v
    <3>4. Tracks(ReplayEntry(acc[now], x.entry, now), v, now)
      <4>1. Longer(wal, x, v)
        BY <3>2 DEF Longer
      <4> QED
        BY <3>1, <3>2, <4>1, TracksBegin, TracksOther
    <3> QED
      BY <3>1, <3>3, <3>4 DEF v
  <2> QED
    BY <2>1, <2>2 DEF Next
<1>3. CommittedInv => ReplayIsCommittedWrites
  <2> SUFFICES ASSUME CommittedInv, NEW now \in Times
               PROVE  StreamIntoState(wal, now) = ApplyOnly(wal, Survivors(wal), now)
    BY DEF ReplayIsCommittedWrites
  <2>1. Survivors(wal) = Kept(wal, FALSE)
    BY DEF Survivors, Kept, Survives, Counts
  <2>2. ApplyOnly(wal, Survivors(wal), now) = Chosen(wal, Kept(wal, FALSE), now, Len(wal))
    BY <2>1, ApplyOnlyIsChosen
  <2>3. acc[now].durable = Chosen(wal, Kept(wal, FALSE), now, Len(wal))
    BY DEF CommittedInv, Tracks
  <2>4. acc[now].durable = LoopAfter(wal, now).db
    <3>1. Mirrors(acc[now], LoopAfter(wal, now), now)
      BY DEF CommittedInv, ReplayInv
    <3> QED
      BY <3>1 DEF Mirrors, LogOf
  <2> QED
    BY <2>2, <2>3, <2>4, StreamIsLoop
<1> QED
  BY <1>1, <1>2, <1>3, PTL DEF Spec
=============================================================================
