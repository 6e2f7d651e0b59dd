--------------------------- MODULE CoalescedScan ---------------------------
(***************************************************************************)
(* Scans that share a pass: moltendb-core/src/engine/coalesce.rs.  Callers *)
(* send requests over one channel to the coordinator thread, which         *)
(* collects them for a window, groups them by collection, and streams      *)
(* every document of a collection once past all requests of its group.     *)
(* Rayon workers visit the documents in any order; updates and deletes go  *)
(* on meanwhile (they only read-lock the collection's shard), a batch of    *)
(* inserts or a drop write-locks it and so waits for the whole pass.       *)
(*                                                                         *)
(* A document is [seq, val]: val stands for all that predicates and the    *)
(* sort field see of it (0: the sort field is no number).                  *)
(***************************************************************************)
EXTENDS Integers, BoundedHeap

CONSTANTS
    Callers, Collections, Workers,
    Keys,         \* document keys, ordered
    Vals,         \* values of documents, 0 among them
    Requests,     \* requests: [kind, col, want, need, up]
    Starts,       \* collections as they may stand at the start: collection -> items, or NoCol
    Batches,      \* batches of inserts: key -> value
    NoDoc, NoCol, \* no document under a key, no such collection
    MaxBatch,     \* MAX_BATCH, 64 in the code
    MaxWrites,    \* bound: writes during the run
    MaxFailures   \* bound: coordinator threads that die

ASSUME ScanAssumption ==
    /\ Keys \subseteq Nat /\ IsFiniteSet(Keys) /\ Vals \subseteq Nat
    /\ {MaxWrites, MaxFailures} \subseteq Nat /\ MaxBatch \in Nat \ {0}

Docs == [seq : Nat, val : Vals]
Maps == [Keys -> Docs \cup {NoDoc}]

ASSUME ShapeAssumption ==
    /\ NoDoc \notin Docs /\ NoCol \notin Maps /\ NoCol \notin Collections
    /\ \A r \in Requests : /\ r.kind \in {"filtered", "sorted"} /\ r.col \in Collections
                          /\ r.need \in Nat /\ r.up \in BOOLEAN
    /\ \A start \in Starts, c \in Collections :
          start[c] # NoCol => \A k \in Keys \cap DOMAIN start[c] : start[c][k] \in Vals
    /\ \A items \in Batches : DOMAIN items \subseteq Keys /\ \A k \in DOMAIN items : items[k] \in Vals

VARIABLES
    docs,      \* collection -> key -> document or NoDoc, or NoCol
    queue,     \* the channel: callers whose request is not received yet
    co,        \* the coordinator: at, batch, groups, cur, todo, left (winners to decode), out
    acc,       \* worker -> caller -> accumulator of the pass
    merged,    \* caller -> merged accumulator
    caller,    \* caller -> [at, req, got]
    stable,    \* ghost: caller -> matching documents nobody wrote since it asked
    fresh,     \* ghost: caller -> matching new documents of each insert batch since it asked
    spent      \* writes and failures so far

ghosts == <<stable, fresh>>
vars == <<docs, queue, co, acc, merged, caller, ghosts, spent>>

NoReq == [kind |-> "none", col |-> NoCol, want |-> {}, need |-> 0, up |-> TRUE]
Waiting == {c \in Callers : caller[c].at = "waiting"}
Idle == [at |-> "recv", batch |-> <<>>, groups |-> {}, cur |-> NoCol, todo |-> {},
         left |-> <<>>, out |-> <<>>]
Empty == [c \in Callers |-> {}]

Matches(r, d) == d.val \in r.want
Qualifies(r, v) == v \in r.want /\ (r.kind = "sorted" => v # 0)
(* The order of a request's answer: by _seq, or by the sort field with ties by key. *)
Item(r, k, d) ==
    [key |-> k, by |-> LET n == IF r.kind = "sorted" THEN d.val ELSE d.seq
                       IN  IF r.up THEN n ELSE -n]
Present(c) == IF docs[c] = NoCol THEN {} ELSE {k \in Keys : docs[c][k] # NoDoc}
-----------------------------------------------------------------------------
(* CoalescedScanner::scan, scan_top_n, submit: enqueue, or empty when the receiver is gone. *)
Submit(c, r) ==
    /\ caller[c].at = "idle"
    /\ IF co.at = "dead"
       THEN /\ caller' = [caller EXCEPT ![c] = [at |-> "done", req |-> r, got |-> <<>>, full |-> FALSE]]
            /\ UNCHANGED <<queue, ghosts>>
       ELSE /\ caller' = [caller EXCEPT ![c] = [@ EXCEPT !.at = "waiting", !.req = r]]
            /\ queue' = Append(queue, c)
            /\ stable' = [stable EXCEPT ![c] = {k \in Present(r.col) : Qualifies(r, docs[r.col][k].val)}]
            /\ UNCHANGED fresh
    /\ UNCHANGED <<docs, co, acc, merged, spent>>

(* recv fails once the request and its Sender are dropped: unwrap_or_default. *)
Disconnected(c) ==
    /\ co.at = "dead" /\ c \in Waiting
    /\ caller' = [caller EXCEPT ![c] = [@ EXCEPT !.at = "done", !.got = <<>>]]
    /\ UNCHANGED <<docs, queue, co, acc, merged, ghosts, spent>>
-----------------------------------------------------------------------------
(* Fault: the coordinator waits until a batch is full. *)
RecvFull ==
    /\ co.at = "recv" /\ Len(queue) >= MaxBatch
    /\ co' = [co EXCEPT !.at = "collect", !.batch = <<Head(queue)>>]
    /\ queue' = Tail(queue)
    /\ UNCHANGED <<docs, acc, merged, caller, ghosts, spent>>

(* coordinator_loop *)
Recv ==
    /\ co.at = "recv" /\ queue # <<>>
    /\ co' = [co EXCEPT !.at = "collect", !.batch = <<Head(queue)>>]
    /\ queue' = Tail(queue)
    /\ UNCHANGED <<docs, acc, merged, caller, ghosts, spent>>

Collect ==
    /\ co.at = "collect" /\ queue # <<>> /\ Len(co.batch) < MaxBatch
    /\ co' = [co EXCEPT !.batch = Append(@, Head(queue))]
    /\ queue' = Tail(queue)
    /\ UNCHANGED <<docs, acc, merged, caller, ghosts, spent>>

(* The window elapses, at any time after the first request, or the batch is full. *)
WindowCloses ==
    /\ co.at = "collect"
    /\ co' = [co EXCEPT !.at = "group",
                        !.groups = {caller[c].req.col : c \in Range(co.batch)}]
    /\ UNCHANGED <<docs, queue, acc, merged, caller, ghosts, spent>>

(* The loop over the batch that pushes each request to the vector of its collection. *)
Only(batch, members) ==
    FoldLeft(LAMBDA group, c : IF c \in members THEN Append(group, c) ELSE group, <<>>, batch)
AskersOf(g) == {c \in Callers : caller[c].req.col = g}
Group(g) == Only(co.batch, AskersOf(g))

NextBatch ==
    /\ co.at = "group" /\ co.groups = {}
    /\ co' = Idle
    /\ UNCHANGED <<docs, queue, acc, merged, caller, ghosts, spent>>

(* run_batch_for_collection: an unknown collection answers every request with nothing... *)
UnknownCollection(g) ==
    /\ co.at = "group" /\ g \in co.groups /\ docs[g] = NoCol
    /\ caller' = [c \in Callers |-> IF c \in Range(Group(g))
                                    THEN [caller[c] EXCEPT !.at = "done"] ELSE caller[c]]
    /\ co' = [co EXCEPT !.groups = @ \ {g}]
    /\ UNCHANGED <<docs, queue, acc, merged, ghosts, spent>>

(* ... a known one is held and passed over. *)
StartPass(g) ==
    /\ co.at = "group" /\ g \in co.groups /\ docs[g] # NoCol
    /\ co' = [co EXCEPT !.at = "scan", !.cur = g, !.groups = @ \ {g}, !.todo = Keys,
                        !.batch = Group(g) \o Only(@, Callers \ AskersOf(g))]
    /\ acc' = [w \in Workers |-> Empty]
    /\ merged' = Empty
    /\ UNCHANGED <<docs, queue, caller, ghosts, spent>>

(* What one document adds to the accumulator of a request. *)
Feed(r, heap, k, d) ==
    CASE Matches(r, d) /\ r.kind = "filtered" -> heap \cup {Item(r, k, d)}
      [] Matches(r, d) /\ r.kind = "sorted" /\ d.val # 0 -> PushBounded(heap, Item(r, k, d), r.need)
      [] OTHER -> heap

(* The fold: a worker takes one document past every request of the group. *)
Visit(w, k) ==
    /\ co.at = "scan" /\ k \in co.todo
    /\ co' = [co EXCEPT !.todo = @ \ {k}]
    /\ acc' = IF k \notin Present(co.cur) THEN acc
              ELSE [acc EXCEPT ![w] = [c \in Callers |->
                       IF c \in Range(Group(co.cur))
                       THEN Feed(caller[c].req, @[c], k, docs[co.cur][k]) ELSE @[c]]]
    /\ UNCHANGED <<docs, queue, merged, caller, ghosts, spent>>

(* Fault: the reduce keeps one accumulator and drops the other. *)
MergeFirst(r, a, b) == IF a = {} THEN b ELSE a

(* The reduce of two accumulators of one request. *)
Merge(r, a, b) ==
    IF r.kind = "filtered" THEN a \cup b
    ELSE FoldLeft(LAMBDA heap, item : PushBounded(heap, item, r.need), a, SetToSeq(b))

Reduce(w) ==
    /\ co.at = "scan" /\ co.todo = {}
    /\ acc[w] # Empty
    /\ merged' = [c \in Callers |-> Merge(caller[c].req, merged[c], acc[w][c])]
    /\ acc' = [acc EXCEPT ![w] = Empty]
    /\ UNCHANGED <<docs, queue, co, caller, ghosts, spent>>

(* Order one request's accumulator and cut it to the page. *)
Winners(r, heap) ==
    LET s == IntoSortedVec(heap)
    IN  IF r.kind = "filtered" THEN SubSeq(s, 1, IF r.need < Len(s) THEN r.need ELSE Len(s)) ELSE s
StartAnswer(c) ==
    /\ co.at = "scan" /\ co.todo = {}
    /\ \A w \in Workers : acc[w] = Empty
    /\ Group(co.cur) # <<>> /\ c = Head(co.batch)
    /\ co' = [co EXCEPT !.at = "decode", !.left = Winners(caller[c].req, merged[c]), !.out = <<>>]
    /\ caller' = [caller EXCEPT ![c].full = Cardinality(merged[c]) >= caller[c].req.need]
    /\ UNCHANGED <<docs, queue, acc, merged, ghosts, spent>>

(* Decode the next winner from the collection as it is now; a deleted one is skipped. *)
DecodeOne ==
    /\ co.at = "decode" /\ co.left # <<>>
    /\ LET k == Head(co.left).key
       IN  co' = [co EXCEPT !.left = Tail(@),
                            !.out = IF k \in Present(co.cur)
                                    THEN Append(@, [key |-> k, doc |-> docs[co.cur][k]]) ELSE @]
    /\ UNCHANGED <<docs, queue, acc, merged, caller, ghosts, spent>>

Send ==
    /\ co.at = "decode" /\ co.left = <<>>
    /\ caller' = [caller EXCEPT ![Head(co.batch)] = [@ EXCEPT !.at = "done", !.got = co.out]]
    /\ co' = [co EXCEPT !.at = "scan", !.batch = Tail(@)]
    /\ UNCHANGED <<docs, queue, acc, merged, ghosts, spent>>

(* The pass returns and lets go of the collection. *)
EndPass ==
    /\ co.at = "scan" /\ co.todo = {}
    /\ \A w \in Workers : acc[w] = Empty
    /\ Group(co.cur) = <<>>
    /\ co' = [co EXCEPT !.at = "group", !.cur = NoCol]
    /\ UNCHANGED <<docs, queue, acc, merged, caller, ghosts, spent>>

(* The thread panics during a pass (builds that unwind): channel and batch are dropped. *)
Die ==
    /\ co.at \in {"scan", "decode"} /\ spent.failures < MaxFailures
    /\ co' = [Idle EXCEPT !.at = "dead"]
    /\ queue' = <<>>
    /\ spent' = [spent EXCEPT !.failures = @ + 1]
    /\ UNCHANGED <<docs, acc, merged, caller, ghosts>>
-----------------------------------------------------------------------------
(* Writers. *)
Asks(x, c) == x \in Waiting /\ caller[x].req.col = c
(* The ghosts after a write of the keys in collection c that adds the documents of new. *)
Touch(c, keys, new) ==
    /\ stable' = [x \in Callers |-> IF Asks(x, c) THEN stable[x] \ keys ELSE stable[x]]
    /\ fresh' = [x \in Callers |->
           IF ~Asks(x, c) THEN fresh[x]
           ELSE {b \ keys : b \in fresh[x]}
                \cup {{k \in DOMAIN new : Qualifies(caller[x].req, new[k])}}]
(* A write while no caller waits leads to another start. *)
Write == /\ spent.writes < MaxWrites /\ Waiting # {}
         /\ spent' = [spent EXCEPT !.writes = @ + 1]
         /\ UNCHANGED <<queue, co, acc, merged, caller>>

Update(c, k, v) ==
    /\ k \in Present(c) /\ docs[c][k].val # v
    /\ docs' = [docs EXCEPT ![c][k].val = v]
    /\ Touch(c, {k}, <<>>) /\ Write

Delete(c, k) ==
    /\ k \in Present(c)
    /\ docs' = [docs EXCEPT ![c][k] = NoDoc]
    /\ Touch(c, {k}, <<>>) /\ Write

(* insert stores its items one by one under the entry guard; an overwritten document *)
(* keeps its _seq.                                                                   *)
Stored(c, items) ==
    [k \in Keys |->
        IF k \notin DOMAIN items THEN IF k \in Present(c) THEN docs[c][k] ELSE NoDoc
        ELSE [val |-> items[k],
              seq |-> IF k \in Present(c) THEN docs[c][k].seq
                      ELSE (1 + spent.writes) * Cardinality(Keys) + k]]
Added(c, items) == [k \in DOMAIN items \ Present(c) |-> items[k]]

(* Fault: the batch takes the collection's guard no longer than an update does. *)
InsertUnguarded(c, items) ==
    /\ docs' = [docs EXCEPT ![c] = Stored(c, items)]
    /\ Touch(c, DOMAIN items, Added(c, items)) /\ Write

(* insert: state.entry write-locks the shard for the whole batch, so no pass runs meanwhile. *)
Insert(c, items) ==
    /\ co.cur # c
    /\ docs' = [docs EXCEPT ![c] = Stored(c, items)]
    /\ Touch(c, DOMAIN items, Added(c, items)) /\ Write

(* delete_collection *)
DropCollection(c) ==
    /\ co.cur # c /\ docs[c] # NoCol
    /\ docs' = [docs EXCEPT ![c] = NoCol]
    /\ Touch(c, Keys, <<>>) /\ Write
-----------------------------------------------------------------------------
Init ==
    /\ \E start \in Starts :
           docs = [c \in Collections |->
                      IF start[c] = NoCol THEN NoCol
                      ELSE [k \in Keys |-> IF k \in DOMAIN start[c]
                                           THEN [seq |-> k, val |-> start[c][k]] ELSE NoDoc]]
    /\ queue = <<>> /\ co = Idle
    /\ acc = [w \in Workers |-> Empty] /\ merged = Empty
    /\ caller = [c \in Callers |-> [at |-> "idle", req |-> NoReq, got |-> <<>>, full |-> FALSE]]
    /\ stable = Empty /\ fresh = Empty
    /\ spent = [writes |-> 0, failures |-> 0]

Coordinator ==
    \/ Recv \/ WindowCloses \/ NextBatch \/ DecodeOne \/ Send \/ EndPass
    \/ \E g \in Collections : UnknownCollection(g) \/ StartPass(g)
    \/ \E w \in Workers : Reduce(w) \/ \E k \in Keys : Visit(w, k)
    \/ \E c \in Callers : StartAnswer(c)

Next ==
    \/ Coordinator \/ Collect \/ Die
    \/ \E c \in Callers : Disconnected(c) \/ \E r \in Requests : Submit(c, r)
    \/ \E c \in Collections : \/ DropCollection(c)
                              \/ \E items \in Batches : Insert(c, items)
                              \/ \E k \in Keys : Delete(c, k) \/ \E v \in Vals : Update(c, k, v)

(* The coordinator thread runs on while requests are there; recv returns once it can. *)
Fairness == WF_vars(Coordinator) /\ \A c \in Callers : WF_vars(Disconnected(c))
Spec == Init /\ [][Next]_vars /\ Fairness
-----------------------------------------------------------------------------
(* A scan answers as if it had run alone: of the documents nobody writes   *)
(* while the caller waits, it returns the first in the request's order, in *)
(* that order and as they are stored, and leaves one out only when the     *)
(* pass found need documents, however workers split the pass and whatever  *)
(* requests share it (push_bounded, run_batch_for_collection).  Checked    *)
(* when the answer arrives.                                                *)
StableAnswerExact ==
    \A c \in Callers : co.at = "decode" /\ co.left = <<>> /\ c = Head(co.batch) =>
        LET r == caller[c].req
            place(k) == Item(r, k, docs[r.col][k])
            got == {i \in DOMAIN co.out : co.out[i].key \in stable[c]}
            keys == {co.out[i].key : i \in got}
        IN  /\ \A i \in got : co.out[i].doc = docs[r.col][co.out[i].key]
            /\ \A i, j \in got : i < j => Less(place(co.out[i].key), place(co.out[j].key))
            /\ \A k \in stable[c] \ keys :
                  caller[c].full /\ \A j \in keys : Less(place(j), place(k))

(* A scan sees a batch of inserts whole or not at all: of the documents    *)
(* one insert call added while the caller waited, and nobody wrote since,  *)
(* an answer that is not cut off holds all or none (the entry guard of     *)
(* insert against the guard of run_batch_for_collection).                  *)
BatchSeenWhole ==
    \A c \in Callers : co.at = "decode" /\ co.left = <<>> /\ c = Head(co.batch) /\ ~caller[c].full =>
        LET got == {co.out[i].key : i \in DOMAIN co.out}
        IN  \A b \in fresh[c] : b \subseteq got \/ b \cap got = {}

(* Every caller gets an answer, also when the coordinator dies with its    *)
(* request in the channel or in the batch (submit, coordinator_loop).      *)
EveryScanAnswered ==
    \A c \in Callers : caller[c].at = "waiting" ~> caller[c].at = "done"

=============================================================================
