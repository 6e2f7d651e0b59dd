--------------------------- MODULE CollectionTtl ---------------------------
(***************************************************************************)
(* Collection-level TTL: the default TTLs and expiry instants the engine   *)
(* keeps (moltendb-core/src/engine/mod.rs), the eviction and renewal of an *)
(* insert, the TTL_EXPIRY entries of the log and their replay, and the     *)
(* server's background sweep with its heap (moltendb-server/src/           *)
(* ttl_sweep.rs).                                                          *)
(*                                                                         *)
(* Client requests come one at a time and interleave with the sweep.  The  *)
(* entries of one transaction stand together in the log (module Engine     *)
(* deals with transactions that interleave), so brackets are left out.     *)
(***************************************************************************)
EXTENDS WriteAheadLog, Sequences, SequencesExt, Bags

CONSTANTS
    Ttls,         \* the TTLs clients set; 0 removes the TTL
    MaxTime,      \* bound: the clock
    MaxRequests,  \* bound: client requests
    MaxRestarts,  \* bound: restarts
    Capacity      \* of the broadcast channel (1000 in the code)

ASSUME TtlAssumption ==
    /\ Collections # {} /\ IsFiniteSet(Keys)
    /\ Ttls \subseteq Nat
    /\ {MaxTime, MaxRequests, MaxRestarts, Capacity} \subseteq Nat
    /\ Capacity > 0

VARIABLES
    now,           \* the clock
    docs,          \* collection -> key -> the life of the collection it was stored in
    ttl_defaults,  \* collection -> default TTL, 0 if none
    ttl_expiry,    \* collection -> expiry instant, NoExpiry if none
    log,           \* the entries on disk
    events,        \* broadcast events the sweep has not received
    heap,          \* the sweep's heap, a bag of <<instant, collection>>
    sweep,         \* where the sweep stands
    client,        \* where the client's request stands
    life,          \* collection -> how often readers saw it expire
    overtaken,     \* collections whose expiry last fell between the store and the log entry
                   \* of an insert
    unswept,       \* collections the sweep failed to drop
    spent          \* requests and restarts so far

vars == <<now, docs, ttl_defaults, ttl_expiry, log, events, heap, sweep, client, life,
          overtaken, unswept, spent>>
engine == <<docs, ttl_defaults, ttl_expiry, log>>
history == <<life, overtaken, unswept>>

Idle == [at |-> "idle", c |-> CHOOSE c \in Collections : TRUE, keys |-> {}]
Asleep == [at |-> "wait", c |-> CHOOSE c \in Collections : TRUE, now |-> 0]

(* collection_is_expired *)
Expired(c) == ttl_expiry[c] # NoExpiry /\ now >= ttl_expiry[c]

(* broadcast::Sender::send: a full channel forgets its oldest event. *)
Send(queue, e) ==
    IF Len(queue) = Capacity THEN Append(Tail(queue), e) ELSE Append(queue, e)

Change(c) == <<"change", c>>
TtlEvent(c, at) == <<"ttl_expiry", c, at>>
-----------------------------------------------------------------------------
(***************************************************************************)
(* operations::delete_collection: the documents, the DROP entry and the    *)
(* event.  Db::delete_collection then forgets the TTL (two map removals,   *)
(* taken as one step).                                                     *)
(***************************************************************************)
DropDocs(c) ==
    /\ docs' = [docs EXCEPT ![c] = NoDocs]
    /\ log' = Append(log, DropEntry(c))
    /\ events' = Send(events, Change(c))

(* It fails at an entry of the log: before the memory is cleared, or after. *)
DropFails(c) ==
    /\ docs' \in {docs, [docs EXCEPT ![c] = NoDocs]}
    /\ UNCHANGED <<log, events>>

Forget(c) ==
    /\ ttl_expiry' = [ttl_expiry EXCEPT ![c] = NoExpiry]
    /\ ttl_defaults' = [ttl_defaults EXCEPT ![c] = 0]

Arrive ==
    /\ client.at = "idle"
    /\ spent.requests < MaxRequests
    /\ spent' = [spent EXCEPT !.requests = @ + 1]

(* set_ttl_default *)
SetTtlDefault(c, secs) ==
    /\ Arrive
    /\ ttl_defaults' = [ttl_defaults EXCEPT ![c] = secs]
    /\ ttl_expiry' = IF secs = 0 THEN [ttl_expiry EXCEPT ![c] = NoExpiry]
                                 ELSE ttl_expiry
    /\ UNCHANGED <<now, docs, log, events, heap, sweep, client, history>>

DropCollection(c) ==
    /\ Arrive
    /\ \/ DropDocs(c) /\ client' = [at |-> "forget", c |-> c, keys |-> {}]
       \/ DropFails(c) /\ UNCHANGED client
    /\ UNCHANGED <<now, ttl_defaults, ttl_expiry, heap, sweep, history>>

DropForget ==
    /\ client.at = "forget"
    /\ Forget(client.c)
    /\ client' = Idle
    /\ UNCHANGED <<now, docs, log, events, heap, sweep, history, spent>>

(***************************************************************************)
(* Db::insert: an expired collection is dropped first and its expiry       *)
(* removed (its default TTL stays), even if the drop fails; the batch is   *)
(* stored; then the expiry is set anew from the default, logged and        *)
(* announced.                                                              *)
(***************************************************************************)
Insert(c, keys) ==
    /\ Arrive
    /\ IF Expired(c)
       THEN (DropDocs(c) \/ DropFails(c)) /\ client' = [at |-> "evicted", c |-> c, keys |-> keys]
       ELSE UNCHANGED <<docs, log, events>>
            /\ client' = [at |-> "store", c |-> c, keys |-> keys]
    /\ UNCHANGED <<now, ttl_defaults, ttl_expiry, heap, sweep, history>>

InsertUnset ==
    /\ client.at = "evicted"
    /\ ttl_expiry' = [ttl_expiry EXCEPT ![client.c] = NoExpiry]
    /\ client' = [client EXCEPT !.at = "store"]
    /\ UNCHANGED <<now, docs, ttl_defaults, log, events, heap, sweep, history, spent>>

InsertStore ==
    LET c == client.c
        keys == SetToSeq(client.keys)
    IN
    /\ client.at = "store"
    /\ docs' = [docs EXCEPT ![c] = [k \in Keys |-> IF k \in client.keys THEN life[c]
                                                                      ELSE @[k]]]
    /\ log' = log \o [i \in DOMAIN keys |-> InsertEntry(c, keys[i], life[c])]
    /\ events' = FoldLeft(LAMBDA q, k : Send(q, Change(c)), events, keys)
    /\ client' = [client EXCEPT !.at = "renew"]
    /\ UNCHANGED <<now, ttl_defaults, ttl_expiry, heap, sweep, history, spent>>

InsertRenew ==
    LET c == client.c IN
    /\ client.at = "renew"
    /\ IF ttl_defaults[c] = 0
       THEN client' = Idle /\ UNCHANGED ttl_expiry
       ELSE /\ ttl_expiry' = [ttl_expiry EXCEPT ![c] = now + ttl_defaults[c]]
            /\ client' = [client EXCEPT !.at = "persist",
                                        !.keys = {now + ttl_defaults[c]}]
    /\ UNCHANGED <<now, docs, ttl_defaults, log, events, heap, sweep, history, spent>>

InsertPersist ==
    LET at == CHOOSE t \in client.keys : TRUE IN
    /\ client.at = "persist"
    /\ log' = Append(log, TtlEntry(client.c, at))
    /\ events' = Send(events, TtlEvent(client.c, at))
    /\ client' = Idle
    /\ UNCHANGED <<now, docs, ttl_defaults, ttl_expiry, heap, sweep, history, spent>>

Client == DropForget \/ InsertUnset \/ InsertStore \/ InsertRenew \/ InsertPersist
-----------------------------------------------------------------------------
(***************************************************************************)
(* The sweep.  It receives events, sleeps until the earliest instant of    *)
(* its heap, and then drops every collection that is due, unless the       *)
(* engine says that its expiry was moved.                                  *)
(***************************************************************************)
Push(h, at, c) == h (+) SetToBag({<<at, c>>})

(* Fault: the announced expiry is not entered into the heap. *)
SweepReceiveIgnored ==
    /\ sweep.at = "wait" /\ events # <<>>
    /\ events' = Tail(events)
    /\ UNCHANGED <<now, engine, heap, sweep, client, history, spent>>

(* Fault: a collection that has an entry in the heap gets no second one. *)
SweepReceiveOnce ==
    /\ sweep.at = "wait" /\ events # <<>>
    /\ heap' = IF Head(events)[1] = "ttl_expiry"
                  /\ \A e \in BagToSet(heap) : e[2] # Head(events)[2]
               THEN Push(heap, Head(events)[3], Head(events)[2]) ELSE heap
    /\ events' = Tail(events)
    /\ UNCHANGED <<now, engine, sweep, client, history, spent>>

SweepReceive ==
    /\ sweep.at = "wait" /\ events # <<>>
    /\ heap' = IF Head(events)[1] = "ttl_expiry"
               THEN Push(heap, Head(events)[3], Head(events)[2]) ELSE heap
    /\ events' = Tail(events)
    /\ UNCHANGED <<now, engine, sweep, client, history, spent>>

Due(t) == {e \in BagToSet(heap) : e[1] <= t}

SweepWake ==
    /\ sweep.at = "wait" /\ Due(now) # {}
    /\ sweep' = [sweep EXCEPT !.at = "pass", !.now = now]
    /\ UNCHANGED <<now, engine, events, heap, client, history, spent>>

SweepPop(e) ==
    LET c == e[2] IN
    /\ sweep.at = "pass"
    /\ e \in Due(sweep.now) /\ \A f \in Due(sweep.now) : e[1] <= f[1]
    /\ IF ttl_expiry[c] # NoExpiry /\ ttl_expiry[c] > sweep.now
       THEN /\ heap' = Push(heap (-) SetToBag({e}), ttl_expiry[c], c)
            /\ UNCHANGED sweep
       ELSE /\ heap' = heap (-) SetToBag({e})
            /\ sweep' = [sweep EXCEPT !.at = "drop", !.c = c]
    /\ UNCHANGED <<now, engine, events, client, history, spent>>

SweepDrop ==
    /\ sweep.at = "drop"
    /\ DropDocs(sweep.c)
    /\ sweep' = [sweep EXCEPT !.at = "forget"]
    /\ UNCHANGED <<now, ttl_defaults, ttl_expiry, heap, client, history, spent>>

(* The error is a warning; the heap entry is gone. *)
SweepDropFails ==
    /\ sweep.at = "drop"
    /\ DropFails(sweep.c)
    /\ sweep' = [sweep EXCEPT !.at = "pass"]
    /\ unswept' = unswept \cup {sweep.c}
    /\ UNCHANGED <<now, ttl_defaults, ttl_expiry, heap, client, life, overtaken, spent>>

SweepForget ==
    /\ sweep.at = "forget"
    /\ Forget(sweep.c)
    /\ sweep' = [sweep EXCEPT !.at = "pass"]
    /\ UNCHANGED <<now, docs, log, events, heap, client, history, spent>>

SweepSleep ==
    /\ sweep.at = "pass" /\ Due(sweep.now) = {}
    /\ sweep' = Asleep
    /\ UNCHANGED <<now, engine, events, heap, client, history, spent>>

Sweep ==
    \/ SweepReceive \/ SweepWake \/ SweepDrop \/ SweepDropFails \/ SweepForget \/ SweepSleep
    \/ \E e \in BagToSet(heap) : SweepPop(e)
-----------------------------------------------------------------------------
(* A batch is stored and its collection's new expiry not logged yet. *)
Storing(c) == client.c = c /\ client.at \in {"renew", "persist"}

(* Time passes at any point of a request and of the sweep's pass. *)
Tick ==
    LET ending == {c \in Collections : ttl_expiry[c] = now + 1} IN
    /\ now < MaxTime
    /\ now' = now + 1
    /\ life' = [c \in Collections |-> IF c \in ending THEN life[c] + 1 ELSE life[c]]
    /\ overtaken' = (overtaken \ ending) \cup {c \in ending : Storing(c)}
    /\ UNCHANGED <<engine, events, heap, sweep, client, unswept, spent>>

(* What a start at instant t rebuilds from the log. *)
Replayed(t) == FoldLeft(LAMBDA acc, e : ApplyEntry(acc, e, t), EmptyDb, log)

(***************************************************************************)
(* The process stops at any point and starts again at instant t: the log   *)
(* is replayed at t, the default TTLs are gone, and the sweep fills its    *)
(* heap from the expiries that were recovered.                             *)
(***************************************************************************)
Restart(t) ==
    LET db == Replayed(t) IN
    /\ spent.restarts < MaxRestarts
    /\ spent' = [spent EXCEPT !.restarts = @ + 1]
    /\ now' = t
    /\ docs' = db.docs
    /\ ttl_expiry' = db.ttl
    /\ ttl_defaults' = [c \in Collections |-> 0]
    /\ heap' = SetToBag({<<db.ttl[c], c>> : c \in {d \in Collections : db.ttl[d] # NoExpiry}})
    /\ events' = <<>>
    /\ sweep' = Asleep
    /\ client' = Idle
    /\ unswept' = {}
    /\ UNCHANGED <<log, life, overtaken>>

Init ==
    /\ now = 0
    /\ docs = [c \in Collections |-> NoDocs]
    /\ ttl_defaults = [c \in Collections |-> 0]
    /\ ttl_expiry = [c \in Collections |-> NoExpiry]
    /\ log = <<>>
    /\ events = <<>>
    /\ heap = EmptyBag
    /\ sweep = Asleep
    /\ client = Idle
    /\ life = [c \in Collections |-> 0]
    /\ overtaken = {}
    /\ unswept = {}
    /\ spent = [requests |-> 0, restarts |-> 0]

Next ==
    \/ \E c \in Collections, secs \in Ttls : SetTtlDefault(c, secs)
    \/ \E c \in Collections : DropCollection(c)
    \/ \E c \in Collections, keys \in (SUBSET Keys) \ {{}} : Insert(c, keys)
    \/ Client \/ Sweep \/ Tick
    \/ \E t \in now .. MaxTime : Restart(t)

(* The request and the sweep are scheduled; time need not pass. *)
Spec == Init /\ [][Next]_vars /\ WF_vars(Client) /\ WF_vars(Sweep)
-----------------------------------------------------------------------------
(***************************************************************************)
(* A document that readers saw expire does not come back: whenever the     *)
(* process is restarted, the replay finds only documents of the            *)
(* collection's present life.  (The replay of TTL_EXPIRY in apply_entry    *)
(* and the DROP entries of the eviction and the sweep are there for this.) *)
(* A batch whose new expiry was not logged yet when the old one fell       *)
(* belongs to neither life: such a collection is `overtaken` until its     *)
(* next expiry.                                                            *)
(***************************************************************************)
OnlyThisLife ==
    \A t \in now .. MaxTime, c \in Collections \ overtaken, k \in Keys :
        Replayed(t).docs[c][k] \in {NoDoc, life[c]}

(* It holds for a process that was not restarted before.                   *)
ExpiredStaysGone == spent.restarts = 0 => OnlyThisLife

(***************************************************************************)
(* It holds across any restarts ("TTL eviction is now durable across       *)
(* restarts", CHANGELOG.md).  A restart forgets the default TTLs, though:  *)
(* a batch inserted into a collection whose expiry was recovered has no    *)
(* TTL_EXPIRY entry after it (Db::insert).                                 *)
(***************************************************************************)
ExpiredNeverBack == OnlyThisLife

(***************************************************************************)
(* A restart before a collection expires finds the documents readers see   *)
(* in it, however often its expiry was renewed (docs/api-reference.md: it  *)
(* "only drops after `ttl_secs` of complete write inactivity"), all of     *)
(* them logged.  The replay of TTL_EXPIRY in apply_entry looks at each     *)
(* entry by itself.                                                        *)
(***************************************************************************)
RestartKeepsUnexpired ==
    \A t \in now .. MaxTime, c \in Collections, k \in Keys :
        client.at = "idle" /\ ttl_expiry[c] > t /\ docs[c][k] # NoDoc => Replayed(t).docs[c][k] # NoDoc

(***************************************************************************)
(* The sweep drops no collection whose expiry is still to come, however an *)
(* insert renews it meanwhile (the same promise; the sweep checks the      *)
(* expiry "still current" and then drops the collection).                  *)
(***************************************************************************)
SweepSparesRenewed == [][SweepDrop => ttl_expiry[sweep.c] <= now]_vars

(***************************************************************************)
(* The sweep knows of every expiry in force: its heap or an event on its   *)
(* way names the collection for that instant or an earlier one, however    *)
(* TTLs were renewed, shortened, removed and set again.  (A channel that   *)
(* overflows can lose the event; the channel of the run does not.  A       *)
(* collection the sweep failed to drop has lost its entry.)                *)
(***************************************************************************)
HeapCovers ==
    \A c \in Collections \ unswept : ttl_expiry[c] # NoExpiry =>
        \/ \E e \in BagToSet(heap) : e[2] = c /\ e[1] <= ttl_expiry[c]
        \/ \E i \in DOMAIN events :
              events[i][1] = "ttl_expiry" /\ events[i][2] = c /\ events[i][3] <= ttl_expiry[c]
        \/ client.at # "idle" /\ client.c = c
        \/ sweep.at \in {"drop", "forget"} /\ sweep.c = c

(***************************************************************************)
(* An expired collection is dropped by the sweep, or by an insert that     *)
(* evicts it, unless the sweep's drop fails.                               *)
(***************************************************************************)
ExpiredSwept == \A c \in Collections : Expired(c) ~> (~Expired(c) \/ c \in unswept)

=============================================================================
