---------------------------- MODULE AccessProofs ----------------------------
(***************************************************************************)
(* Theorems about module Access, for any number of handlers, sockets,      *)
(* tokens and requests, and any limit, window and times to live.           *)
(***************************************************************************)
EXTENDS Access, FiniteSetTheorems, SequenceTheorems, TLAPS

KeepOp(cutoff, kept, t) == IF t > cutoff THEN Append(kept, t) ELSE kept

Keeping == INSTANCE FoldFacts WITH Op <- KeepOp

(* Vec::retain, by its two equations. *)
LEMMA RetainIsFold ==
    ASSUME NEW s, NEW cutoff
    PROVE  Retain(s, cutoff) = Keeping!Fold(cutoff, <<>>, s)
BY DEF Retain, Keeping!Fold, KeepOp, FoldLeft, MapThenFoldSet, Max,
       Keeping!FoldLeft, Keeping!MapThenFoldSet, Keeping!Max

LEMMA RetainSteps ==
    ASSUME NEW cutoff
    PROVE  /\ Retain(<<>>, cutoff) = <<>>
           /\ \A s \in Seq(Int), t \in Int :
                 Retain(Append(s, t), cutoff) =
                    IF t > cutoff THEN Append(Retain(s, cutoff), t) ELSE Retain(s, cutoff)
BY RetainIsFold, Keeping!FoldEmpty, Keeping!FoldAppend DEF KeepOp

LEMMA RetainType ==
    ASSUME NEW cutoff \in Int, NEW s \in Seq(Int)
    PROVE  Retain(s, cutoff) \in Seq(Int)
<1> DEFINE T == {u \in Seq(Int) : Retain(u, cutoff) \in Seq(Int)}
<1>1. <<>> \in T
  BY RetainSteps, EmptySeq
<1>2. ASSUME NEW u \in Seq(Int), NEW t \in Int, u \in T PROVE Append(u, t) \in T
  <2>1. Append(u, t) \in Seq(Int) /\ Retain(u, cutoff) \in Seq(Int)
    BY <1>2
  <2>2. Append(Retain(u, cutoff), t) \in Seq(Int)
    BY <2>1
  <2> QED
    BY <2>1, <2>2, RetainSteps
<1> HIDE DEF T
<1>3. \A u \in Seq(Int) : u \in T
  BY <1>1, <1>2, Keeping!SeqSetInduction
<1> QED
  BY <1>3 DEF T

(* Discarding the older timestamps first changes nothing. *)
LEMMA RetainTwice ==
    ASSUME NEW c \in Int, NEW d \in Int, c <= d, NEW s \in Seq(Int)
    PROVE  Retain(Retain(s, c), d) = Retain(s, d)
<1> DEFINE T == {u \in Seq(Int) : Retain(Retain(u, c), d) = Retain(u, d)}
<1>1. <<>> \in T
  BY RetainSteps
<1>2. ASSUME NEW u \in Seq(Int), NEW t \in Int, u \in T PROVE Append(u, t) \in T
  <2> DEFINE v == Retain(u, c)
  <2>1. v \in Seq(Int) /\ Retain(v, d) = Retain(u, d) /\ Append(u, t) \in Seq(Int)
    BY <1>2, RetainType
  <2>2. Retain(Append(u, t), c) = IF t > c THEN Append(v, t) ELSE v
    BY RetainSteps
  <2>3. Retain(Append(u, t), d) = IF t > d THEN Append(Retain(u, d), t) ELSE Retain(u, d)
    BY RetainSteps
  <2> HIDE DEF v
  <2>4. Retain(Append(v, t), d) = IF t > d THEN Append(Retain(v, d), t) ELSE Retain(v, d)
    BY <2>1, RetainSteps
  <2>5. Retain(Retain(Append(u, t), c), d) = Retain(Append(u, t), d)
    <3>1. CASE t > c
      BY <3>1, <2>1, <2>2, <2>3, <2>4
    <3>2. CASE ~ (t > c)
      BY <3>2, <2>1, <2>2, <2>3
    <3> QED
      BY <3>1, <3>2
  <2> QED
    BY <2>1, <2>5
<1> HIDE DEF T
<1>3. \A u \in Seq(Int) : u \in T
  BY <1>1, <1>2, Keeping!SeqSetInduction
<1> QED
  BY <1>3 DEF T
-----------------------------------------------------------------------------
(***************************************************************************)
(* The rate limiter.  Its table holds what it let pass in the window, and  *)
(* possibly older timestamps that neither check nor cleanup removed yet.   *)
(***************************************************************************)
Counts == [requests : Nat, restarts : Nat, prunes : Nat]

RateInv ==
    /\ now \in Nat /\ spent \in Counts
    /\ table \in Seq(Int) /\ passed \in Seq(Int)
    /\ Retain(table, now - Window) = passed

(* What check_rate_limit does with a request. *)
Checked ==
    /\ now' = now /\ spent' \in Counts
    /\ IF Len(Recent) >= Limit THEN table' = Recent /\ passed' = passed
                               ELSE table' = Append(Recent, now) /\ passed' = Append(passed, now)

NotChecked == now' = now /\ UNCHANGED <<table, passed>> /\ spent' \in Counts
                         /\ spent'.requests = spent.requests

LEMMA CountsUp ==
    ASSUME NEW n \in Counts
    PROVE  /\ n.requests \in Nat
           /\ [n EXCEPT !.requests = @ + 1] \in Counts
           /\ [n EXCEPT !.restarts = @ + 1] \in Counts
           /\ [n EXCEPT !.restarts = @ + 1].requests = n.requests
           /\ [n EXCEPT !.prunes = @ + 1] \in Counts
           /\ [n EXCEPT !.prunes = @ + 1].requests = n.requests
BY DEF Counts

(* The steps of a socket and its client. *)
SocketStep(s) == RevocationCheck(s) \/ Event(s) \/ Sent(s) \/ Leave(s)
SocketOnly == UNCHANGED <<now, up, tokens, revoked, file, task, table, passed, ghost, spent>>

LEMMA SocketSteps ==
    ASSUME NEW s \in Sockets, SocketStep(s)
    PROVE  /\ SocketOnly
           /\ UNCHANGED sock \/ sock' = [sock EXCEPT ![s] = 0]
<1>1. ASSUME NEW what, SendTask(s, what) PROVE SocketOnly /\ UNCHANGED sock
  BY <1>1 DEF SendTask, SocketOnly
<1>2. ASSUME Close(s) PROVE SocketOnly /\ sock' = [sock EXCEPT ![s] = 0]
  BY <1>2 DEF Close, SocketOnly
<1> QED
  BY <1>1, <1>2 DEF SocketStep, RevocationCheck, Event, Sent, Leave

LEMMA RateEffect ==
    ASSUME RateInv, [Next]_vars
    PROVE  Checked \/ NotChecked \/ Cleanup \/ Tick \/ Crash
<1>1. [spent EXCEPT !.requests = @ + 1] \in Counts
      /\ [spent EXCEPT !.prunes = @ + 1] \in Counts
      /\ [spent EXCEPT !.prunes = @ + 1].requests = spent.requests
  BY CountsUp DEF RateInv
<1>2. ASSUME NEW r \in Menu, Delegate(r) PROVE Checked
  BY <1>1, <1>2 DEF Delegate, CheckRateLimit, Checked
<1>3. ASSUME NEW r \in Menu, NEW h \in Handlers, Refresh(h, r) PROVE Checked
  BY <1>1, <1>3 DEF Refresh, CheckRateLimit, Checked
<1>4. ASSUME NEW r \in Menu, NEW h \in Handlers, HandleRevoke(h, r) PROVE Checked
  BY <1>1, <1>4 DEF HandleRevoke, CheckRateLimit, Checked
<1>5. ASSUME NEW r \in Menu, NEW s \in Sockets, Connect(s, r) PROVE Checked
  BY <1>1, <1>5 DEF Connect, CheckRateLimit, Checked
<1>6. ASSUME NEW h \in Handlers, RefreshMint(h) PROVE NotChecked
  BY <1>6 DEF RefreshMint, NotChecked, RateInv
<1>7. ASSUME NEW x \in Actors, OpenFile(x) \/ WriteFile(x) \/ SaveFails(x) PROVE NotChecked
  BY <1>7 DEF OpenFile, WriteFile, SaveFails, NotChecked, RateInv
<1>8. ASSUME NEW s \in Sockets, SocketStep(s) PROVE NotChecked
  BY <1>8, SocketSteps DEF RateInv, SocketOnly, NotChecked
<1>9. CASE Prune
  BY <1>1, <1>9 DEF Prune, NotChecked
<1>10. CASE Start
  BY <1>10 DEF Start, NotChecked, RateInv
<1>11. CASE UNCHANGED vars
  BY <1>11 DEF vars, NotChecked, RateInv
<1> QED
  BY <1>2, <1>3, <1>4, <1>5, <1>6, <1>7, <1>8, <1>9, <1>10, <1>11 DEF Next, SocketStep

LEMMA RateStep ==
    ASSUME Window > 0, RateInv, [Next]_vars
    PROVE  RateInv'
<1>0. Window \in Nat /\ Grace \in Nat /\ Limit \in Nat /\ now \in Nat
  BY AccessAssumption DEF RateInv
<1> DEFINE w == now - Window
<1>1. w \in Int /\ table \in Seq(Int) /\ passed \in Seq(Int) /\ Retain(table, w) = passed
  BY <1>0 DEF RateInv
<1>2. Recent = passed
  BY <1>1 DEF Recent
<1>3. Retain(passed, w) = passed
  <2> HIDE DEF w
  <2> QED
    BY <1>1, RetainTwice
<1>4. CASE Checked
  <2>1. now' - Window = w /\ now' \in Nat /\ spent' \in Counts
    BY <1>0, <1>4 DEF Checked
  <2>2. CASE table' = Recent /\ passed' = passed
    BY <1>1, <1>2, <1>3, <2>1, <2>2 DEF RateInv
  <2>3. CASE table' = Append(Recent, now) /\ passed' = Append(passed, now)
    <3>1. Retain(Append(passed, now), w) = IF now > w THEN Append(passed, now) ELSE passed
      <4> HIDE DEF w
      <4>1. now \in Int
        BY <1>0
      <4> QED
        BY <4>1, <1>1, <1>3, RetainSteps
    <3>2. now > w
      BY <1>0
    <3>3. Append(passed, now) \in Seq(Int)
      BY <1>0, <1>1
    <3> QED
      BY <1>2, <2>1, <2>3, <3>1, <3>2, <3>3 DEF RateInv
  <2> QED
    BY <1>4, <2>2, <2>3 DEF Checked
<1>5. CASE NotChecked
  BY <1>1, <1>5 DEF NotChecked, RateInv
<1>6. CASE Cleanup
  <2> DEFINE g == w - Grace
  <2>1. g \in Int /\ g <= w /\ table' = Retain(table, g)
    BY <1>0, <1>6 DEF Cleanup
  <2>2. Retain(table, g) \in Seq(Int) /\ Retain(Retain(table, g), w) = passed
    <3> HIDE DEF w, g
    <3> QED
      BY <1>1, <2>1, RetainType, RetainTwice
  <2> QED
    BY <1>0, <1>1, <1>6, <2>1, <2>2 DEF Cleanup, RateInv
<1>7. CASE Tick
  <2> DEFINE v == now' - Window
  <2>1. now' \in Nat /\ v \in Int /\ w <= v /\ passed' = Retain(passed, v) /\ table' = table
        /\ spent' = spent
    BY <1>0, <1>7 DEF Tick
  <2>2. Retain(passed, v) \in Seq(Int) /\ Retain(passed, v) = Retain(table, v)
    <3> HIDE DEF v, w
    <3> QED
      BY <1>1, <2>1, RetainType, RetainTwice
  <2> QED
    BY <1>1, <2>1, <2>2 DEF RateInv
<1>8. CASE Crash
  <2>1. Retain(<<>>, now' - Window) = <<>>
    BY RetainSteps
  <2>2. now' \in Nat /\ table' = <<>> /\ passed' = <<>> /\ spent' \in Counts
    BY <1>0, <1>8, CountsUp DEF Crash, RateInv
  <2> QED
    BY <2>1, <2>2 DEF RateInv
<1> QED
  BY <1>4, <1>5, <1>6, <1>7, <1>8, RateEffect

(***************************************************************************)
(* A sliding window of any positive length admits a request exactly if     *)
(* fewer than the limit were admitted in it, whatever cleanup discards and *)
(* whenever it runs (check_rate_limit, cleanup).                           *)
(***************************************************************************)
THEOREM AccessRateExact ==
    ASSUME Window > 0
    PROVE  Spec => RateExact
<1>1. Init => RateInv
  <2>1. Retain(<<>>, 0 - Window) = <<>>
    BY RetainSteps
  <2> QED
    BY <2>1 DEF Init, RateInv, Counts
<1>2. ASSUME RateInv, [Next]_vars, spent'.requests # spent.requests
      PROVE  (Len(passed') > Len(passed)) = (Len(passed) < Limit)
  <2>1. Checked
    BY <1>2, RateEffect DEF NotChecked, Cleanup, Tick, Crash, RateInv, Counts
  <2>2. Recent = passed /\ Len(passed) \in Nat /\ Limit \in Nat
    BY <1>2, AccessAssumption DEF RateInv, Recent
  <2>3. CASE Len(passed) >= Limit
    <3>1. passed' = passed
      BY <2>1, <2>2, <2>3 DEF Checked
    <3> QED
      BY <2>2, <2>3, <3>1
  <2>4. CASE ~ (Len(passed) >= Limit)
    <3>1. passed' = Append(passed, now)
      BY <2>1, <2>2, <2>4 DEF Checked
    <3>2. Len(passed') = Len(passed) + 1
      BY <1>2, <3>1 DEF RateInv
    <3> QED
      BY <2>2, <2>4, <3>2
  <2> QED
    BY <2>3, <2>4
<1>3. RateInv /\ [Next]_vars => [spent'.requests # spent.requests =>
          (Len(passed') > Len(passed)) = (Len(passed) < Limit)]_vars
  BY <1>2
<1>4. RateInv /\ [Next]_vars => RateInv'
  BY RateStep
<1> QED
  BY <1>1, <1>3, <1>4, PTL DEF Spec, RateExact
-----------------------------------------------------------------------------
(***************************************************************************)
(* The shape of the state, as far as the next two theorems need it.        *)
(***************************************************************************)
Fields(r, S) == r = [f \in S |-> r[f]]
TaskFields == {"at", "id", "ttl", "new", "snap"}
GhostFields == {"told", "acked", "given", "kids", "alone", "stale"}
Instants(f) == \A i \in DOMAIN f : f[i] \in Int

SaveOf(x) == task[x].at \in {"open", "write"}

TaskOK(x) ==
    /\ Fields(task[x], TaskFields)
    /\ task[x].at \in {"idle", "mint", "open", "write"}
    /\ task[x].ttl \in Nat
    /\ SaveOf(x) => Instants(task[x].snap)
    /\ ~up => task[x] = Idle

ShapeInv ==
    /\ now \in Nat /\ up \in BOOLEAN
    /\ Minted \subseteq Ids /\ \A i \in Minted : tokens[i].exp \in Int
    /\ Instants(revoked) /\ Instants(file.entries) /\ Instants(ghost.given)
    /\ Fields(file, {"ok", "entries"})
    /\ Fields(task, Actors) /\ \A x \in Actors : TaskOK(x)
    /\ Fields(ghost, GhostFields) /\ ghost.kids \in [Ids -> Nat]
    /\ Fields(sock, Sockets)

(* What cutting down to a whole second takes away. *)
LEMMA FloorBounds ==
    ASSUME NEW t \in Int
    PROVE  /\ Floor(t) \in Int /\ Floor(t) <= t /\ t - Floor(t) <= Sec - 1
           /\ Slack \in Nat /\ Slack = (Sec - 1) + (Sec - 1)
<1>1. Sec \in Nat /\ Sec > 0
  BY AccessAssumption
<1>2. t % Sec \in Int /\ 0 <= t % Sec /\ t % Sec < Sec
  BY <1>1
<1>3. Floor(t) = t - (t % Sec)
  BY DEF Floor
<1>4. Slack = (Sec - 1) + (Sec - 1)
  BY <1>1 DEF Slack
<1> QED
  BY <1>1, <1>2, <1>3, <1>4

LEMMA IdleShape ==
    /\ Fields(Idle, TaskFields) /\ Idle.at = "idle" /\ Idle.id = 0 /\ Idle.ttl = 0
    /\ Idle.new = 0
BY DEF Fields, TaskFields, Idle

(* Only the task of x changed. *)
TaskSet(x, r) == task'[x] = r /\ \A y \in Actors : y # x => task'[y] = task[y]

LEMMA TaskPut ==
    ASSUME ShapeInv, NEW x \in Actors, NEW r, task' = [task EXCEPT ![x] = r]
    PROVE  Fields(task', Actors) /\ TaskSet(x, r)
<1>1. Fields(task, Actors)
  BY DEF ShapeInv
<1> QED
  BY <1>1 DEF Fields, TaskSet

(* What StartSave does, field by field. *)
SaveStarted(x, entries, id, new, given) ==
    /\ revoked' = entries
    /\ Fields(task', Actors)
    /\ \A y \in Actors : y # x => task'[y] = task[y]
    /\ Fields(task'[x], TaskFields)
    /\ task'[x].at = "open" /\ task'[x].id = id /\ task'[x].new = new /\ task'[x].ttl = 0
    /\ task'[x].snap = Clamped(entries)
    /\ Fields(ghost', GhostFields)
    /\ ghost'.acked = ghost.acked /\ ghost'.kids = ghost.kids /\ ghost'.given = given
    /\ ghost'.alone = IF Saving = {} THEN {x} ELSE {}
    /\ ghost'.stale <=> ghost.stale \/ Saving # {}

LEMMA StartSaveFacts ==
    ASSUME ShapeInv, NEW x \in Actors, NEW entries, NEW id, NEW new, NEW given,
           StartSave(x, entries, id, new, given)
    PROVE  SaveStarted(x, entries, id, new, given)
<1> DEFINE snap == Clamped(entries)
           r == [Idle EXCEPT !.at = "open", !.id = id, !.new = new, !.snap = snap]
<1>1. revoked' = entries /\ task' = [task EXCEPT ![x] = r]
  BY DEF StartSave
<1>2. /\ Fields(r, TaskFields) /\ r.at = "open" /\ r.id = id /\ r.ttl = 0
      /\ r.new = new /\ r.snap = snap
  <2> HIDE DEF snap
  <2> QED
    BY DEF Fields, TaskFields, Idle
<1>3. Fields(task', Actors) /\ TaskSet(x, r)
  <2> HIDE DEF r
  <2> QED
    BY <1>1, TaskPut
<1>4. /\ Fields(ghost', GhostFields)
      /\ ghost'.acked = ghost.acked /\ ghost'.kids = ghost.kids /\ ghost'.given = given
      /\ ghost'.alone = IF Saving = {} THEN {x} ELSE {}
  BY DEF StartSave, ShapeInv, Fields, GhostFields
<1>5. ghost'.stale <=> ghost.stale \/ Saving # {}
  BY DEF StartSave, ShapeInv, Fields, GhostFields
<1> HIDE DEF r
<1> QED
  BY <1>1, <1>2, <1>3, <1>4, <1>5 DEF SaveStarted, TaskSet

(* What Answer does, field by field. *)
Answered(x, stale) ==
    /\ Fields(task', Actors) /\ TaskSet(x, Idle)
    /\ Fields(ghost', GhostFields)
    /\ ghost'.given = ghost.given /\ ghost'.alone = ghost.alone \ {x}
    /\ ghost'.acked = IF x = Pruner THEN ghost.acked ELSE ghost.acked \cup {task[x].id}
    /\ ghost'.kids = [i \in Ids |-> IF task[x].new # 0 /\ i = task[x].id
                                     THEN ghost.kids[i] + 1 ELSE ghost.kids[i]]
    /\ ghost'.stale <=> stale

LEMMA AnswerFacts ==
    ASSUME ShapeInv, NEW x \in Actors, NEW stale \in BOOLEAN, Answer(x, stale)
    PROVE  Answered(x, stale)
<1>1. Fields(task', Actors) /\ TaskSet(x, Idle)
  BY TaskPut DEF Answer
<1> DEFINE a == IF x = Pruner THEN ghost.acked ELSE ghost.acked \cup {task[x].id}
           k == [i \in Ids |-> IF task[x].new # 0 /\ i = task[x].id THEN ghost.kids[i] + 1
                                ELSE ghost.kids[i]]
           l == ghost.alone \ {x}
           t == IF x = Pruner THEN ghost.told ELSE ghost.told \cup {task[x].id}
<1>2. ghost' = [ghost EXCEPT !.acked = a, !.told = t, !.kids = k, !.alone = l, !.stale = stale]
  BY DEF Answer
<1>3. /\ Fields(ghost', GhostFields)
      /\ ghost'.given = ghost.given /\ ghost'.alone = l /\ ghost'.acked = a
      /\ ghost'.kids = k /\ ghost'.stale = stale
  <2>1. Fields(ghost, GhostFields)
    BY DEF ShapeInv
  <2> HIDE DEF a, k, l, t
  <2> QED
    BY <1>2, <2>1 DEF Fields, GhostFields
<1> QED
  BY <1>1, <1>3 DEF Answered
-----------------------------------------------------------------------------
(***************************************************************************)
(* The steps of Next by what they do to tasks, revocations and their file. *)
(***************************************************************************)
Steady == UNCHANGED <<now, up, revoked, file, task, ghost>>

(* A refresh was let in with the token id. *)
AsksMint(h, id) ==
    /\ up /\ id \notin DOMAIN revoked
    /\ task[h] = Idle /\ Fields(task', Actors)
    /\ \A y \in Actors : y # h => task'[y] = task[y]
    /\ Fields(task'[h], TaskFields)
    /\ task'[h].at = "mint" /\ task'[h].id = id /\ task'[h].new = 0 /\ task'[h].ttl \in Nat
    /\ UNCHANGED <<now, up, revoked, file, ghost>>

(***************************************************************************)
(* The store changed and x saves it: no entry that is not due was lost,    *)
(* and a handler's token has an entry at least up to its deadline.         *)
(***************************************************************************)
GoodSave(x, entries, id, given) ==
    /\ Instants(entries) /\ Instants(given)
    /\ \A j \in DOMAIN ghost.given : j \in DOMAIN given /\ given[j] <= ghost.given[j]
    /\ \A j \in DOMAIN revoked :
          revoked[j] > now /\ (x = Pruner \/ j # id) => j \in DOMAIN entries
                                                        /\ entries[j] = revoked[j]
    /\ x # Pruner => /\ id \in DOMAIN given /\ id \in DOMAIN entries
                     /\ given[id] <= entries[id]

Saves(x, entries, id, new, given) ==
    /\ up
    /\ \/ task[x] = Idle /\ new = 0
       \/ x # Pruner /\ task[x].at = "mint" /\ id = task[x].id /\ new \in Ids
    /\ SaveStarted(x, entries, id, new, given)
    /\ GoodSave(x, entries, id, given)
    /\ UNCHANGED <<now, up, file>>

Effect ==
    \/ Steady \/ Tick \/ Crash \/ Start
    \/ \E x \in Actors : OpenFile(x) \/ WriteFile(x) \/ SaveFails(x)
    \/ \E h \in Handlers : \E id : AsksMint(h, id)
    \/ \E x \in Actors : \E entries, id, new, given : Saves(x, entries, id, new, given)

LEMMA Constants ==
    /\ Limit \in Nat /\ Window \in Nat /\ RevokeTtl \in Nat /\ MaxTime \in Nat
    /\ IsFiniteSet(Handlers) /\ IsFiniteSet(Ids) /\ Pruner \notin Handlers
    /\ Ids \subseteq Nat \ {0} /\ {1, 2} \subseteq Ids
    /\ \A h \in Handlers : h \in Actors /\ h # Pruner
    /\ Pruner \in Actors
<1>1. Cardinality(Ids) \in Nat
  BY AccessAssumption, FS_CardinalityType
<1>2. Ids = 1..Cardinality(Ids) /\ 2 \in Ids
  BY AccessAssumption
<1> DEFINE n == Cardinality(Ids)
<1>3. Ids \subseteq Nat \ {0} /\ {1, 2} \subseteq Ids
  <2>1. n \in Nat /\ Ids = 1..n /\ 2 \in Ids
    BY <1>1, <1>2
  <2> HIDE DEF n
  <2> QED
    BY <2>1
<1> QED
  BY <1>3, AccessAssumption DEF Actors

LEMMA MintedTokens ==
    ASSUME ShapeInv, NewId \in Ids, NEW ttl \in Nat, Mint(ttl)
    PROVE  Minted' \subseteq Ids /\ \A i \in Minted' : tokens'[i].exp \in Int
<1> DEFINE n == NewId
           t == [exp |-> Floor(now) + ttl, admin |-> FALSE]
<1>2. tokens' = Put(tokens, n, t)
  BY DEF Mint
<1>3. t.exp \in Int /\ n \in Ids
  BY FloorBounds DEF ShapeInv
<1> HIDE DEF n, t
<1> QED
  BY <1>2, <1>3 DEF ShapeInv, Minted, Put

(* RevocationStore::revoke with a deadline. *)
LEMMA RevokeSaves ==
    ASSUME ShapeInv, NEW h \in Handlers, NEW i, NEW until \in Int, NEW new, up,
           \/ task[h] = Idle /\ new = 0
           \/ task[h].at = "mint" /\ i = task[h].id /\ new \in Ids,
           Revoke(h, i, until, new), UNCHANGED <<now, up, file>>
    PROVE  \E x \in Actors : \E entries, id, n, given : Saves(x, entries, id, n, given)
<1> DEFINE sooner == i \in DOMAIN ghost.given /\ ghost.given[i] < until
           entries == Put(revoked, i, until)
           given == IF sooner THEN ghost.given ELSE Put(ghost.given, i, until)
<1>1. StartSave(h, entries, i, new, given)
  BY DEF Revoke
<1>2. h \in Actors /\ h # Pruner
  BY Constants
<1>3. SaveStarted(h, entries, i, new, given)
  <2> HIDE DEF entries, given
  <2> QED
    BY <1>1, <1>2, StartSaveFacts
<1>4. Instants(revoked) /\ Instants(ghost.given)
  BY DEF ShapeInv
<1>5. /\ Instants(entries) /\ i \in DOMAIN entries /\ entries[i] = until
      /\ \A j \in DOMAIN revoked : j # i => j \in DOMAIN entries /\ entries[j] = revoked[j]
  BY <1>4 DEF Put, Instants
<1>6. /\ Instants(given) /\ i \in DOMAIN given /\ given[i] <= until
      /\ \A j \in DOMAIN ghost.given : j \in DOMAIN given /\ given[j] <= ghost.given[j]
  <2>1. CASE sooner
    BY <1>4, <2>1 DEF Instants
  <2>2. CASE ~ sooner
    BY <1>4, <2>2 DEF Put, Instants
  <2> QED
    BY <2>1, <2>2
<1> HIDE DEF entries, given
<1>7. GoodSave(h, entries, i, given)
  BY <1>2, <1>5, <1>6 DEF GoodSave
<1>8. Saves(h, entries, i, new, given)
  BY <1>2, <1>3, <1>7 DEF Saves
<1> QED
  BY <1>2, <1>8

LEMMA PruneSaves ==
    ASSUME ShapeInv, Prune
    PROVE  \E x \in Actors : \E entries, id, n, given : Saves(x, entries, id, n, given)
<1> DEFINE entries == Without(revoked, {i \in DOMAIN revoked : revoked[i] <= now})
           given == ghost.given
<1>1. StartSave(Pruner, entries, 0, 0, given) /\ Pruner \in Actors
  BY Constants DEF Prune
<1>2. SaveStarted(Pruner, entries, 0, 0, given)
  <2> HIDE DEF entries, given
  <2> QED
    BY <1>1, StartSaveFacts
<1>3. Instants(revoked) /\ Instants(given) /\ now \in Nat
  BY DEF ShapeInv
<1>4. GoodSave(Pruner, entries, 0, given)
  BY <1>3 DEF GoodSave, Without, Instants
<1>5. Saves(Pruner, entries, 0, 0, given)
  BY <1>2, <1>4 DEF Saves, Prune
<1> QED
  BY <1>1, <1>5

LEMMA EffectOfNext ==
    ASSUME ShapeInv, [Next]_vars
    PROVE  Effect
<1>1. ASSUME NEW r \in Menu, Delegate(r) PROVE Steady
  BY <1>1 DEF Delegate, CheckRateLimit, Steady
<1>2. ASSUME NEW r \in Menu, NEW h \in Handlers, Refresh(h, r)
      PROVE  Steady \/ AsksMint(h, r.id)
  <2> DEFINE rec == [Idle EXCEPT !.at = "mint", !.id = r.id, !.ttl = r.ttl]
  <2>1. CASE task' = task
    BY <1>2, <2>1 DEF Refresh, CheckRateLimit, Steady
  <2>2. CASE task' # task
    <3>1. /\ up /\ task[h] = Idle /\ Admitted(r.id) /\ task' = [task EXCEPT ![h] = rec]
          /\ UNCHANGED <<now, up, revoked, file, ghost>>
      BY <1>2, <2>2 DEF Refresh, Takes, CheckRateLimit
    <3>2. r.ttl \in Nat
      BY <1>2, AccessAssumption DEF Refresh
    <3>3. /\ Fields(rec, TaskFields) /\ rec.at = "mint" /\ rec.id = r.id
          /\ rec.ttl = r.ttl /\ rec.new = 0
      BY DEF Fields, TaskFields, Idle
    <3> HIDE DEF rec
    <3>4. Fields(task', Actors) /\ TaskSet(h, rec)
      BY <3>1, Constants, TaskPut
    <3> QED
      BY <3>1, <3>2, <3>3, <3>4 DEF AsksMint, TaskSet, Admitted, IsRevoked
  <2> QED
    BY <2>1, <2>2
<1>3. ASSUME NEW r \in Menu, NEW h \in Handlers, HandleRevoke(h, r) PROVE Effect
  <2> DEFINE exp == tokens[r.target].exp
             until == IF ~r.exp THEN now + RevokeTtl
                      ELSE IF exp > Floor(now) THEN now + (exp - Floor(now)) ELSE now
  <2>1. until \in Int
    <3>1. r.target \in Minted
      BY <1>3 DEF HandleRevoke
    <3>2. tokens[r.target].exp \in Int /\ now \in Nat /\ RevokeTtl \in Nat
      BY <3>1, Constants DEF ShapeInv
    <3>3. Floor(now) \in Int
      BY <3>2, FloorBounds
    <3> QED
      BY <3>2, <3>3
  <2>2. CASE Revoke(h, r.target, until, 0)
    <3>1. up /\ task[h] = Idle /\ UNCHANGED <<now, up, file>>
      BY <1>3 DEF HandleRevoke, Takes, CheckRateLimit
    <3> HIDE DEF until
    <3> QED
      BY <2>1, <2>2, <3>1, RevokeSaves DEF Effect
  <2>3. CASE ~ Revoke(h, r.target, until, 0)
    BY <1>3, <2>3 DEF HandleRevoke, CheckRateLimit, Steady, Effect
  <2> QED
    BY <2>2, <2>3
<1>4. ASSUME NEW r \in Menu, NEW s \in Sockets, Connect(s, r) PROVE Steady
  BY <1>4 DEF Connect, CheckRateLimit, Steady
<1>5. ASSUME NEW h \in Handlers, RefreshMint(h) PROVE Effect
  <2>1. h \in Actors /\ TaskOK(h) /\ now \in Nat /\ up \in BOOLEAN
    BY Constants DEF ShapeInv
  <2> DEFINE until == now + task[h].ttl
             id == task[h].id
             new == NewId
  <2>2. until \in Int
    BY <2>1 DEF TaskOK
  <2>3. task[h].at = "mint" /\ new \in Ids /\ Revoke(h, id, until, new)
        /\ UNCHANGED <<now, up, file>>
    BY <1>5 DEF RefreshMint
  <2>4. up
    BY <2>1, <2>3, IdleShape DEF TaskOK
  <2> HIDE DEF until, new
  <2> QED
    BY <2>2, <2>3, <2>4, RevokeSaves DEF Effect
<1>6. ASSUME NEW s \in Sockets, SocketStep(s) PROVE Steady
  BY <1>6, SocketSteps DEF SocketOnly, Steady
<1>7. CASE Cleanup
  BY <1>7 DEF Cleanup, Steady, Effect
<1>8. CASE Prune
  BY <1>8, PruneSaves DEF Effect
<1>9. CASE UNCHANGED vars
  BY <1>9 DEF vars, Steady, Effect
<1> QED
  BY <1>1, <1>2, <1>3, <1>4, <1>5, <1>6, <1>7, <1>8, <1>9 DEF Next, Effect, SocketStep

LEMMA TokensStep ==
    ASSUME ShapeInv, [Next]_vars
    PROVE  Minted' \subseteq Ids /\ \A i \in Minted' : tokens'[i].exp \in Int
<1>0. ASSUME UNCHANGED tokens
      PROVE  Minted' \subseteq Ids /\ \A i \in Minted' : tokens'[i].exp \in Int
  BY <1>0 DEF ShapeInv, Minted
<1>1. ASSUME NEW r \in Menu, Delegate(r), ~ UNCHANGED tokens
      PROVE  Minted' \subseteq Ids /\ \A i \in Minted' : tokens'[i].exp \in Int
  <2>1. NewId \in Ids /\ Mint(r.ttl)
    BY <1>1 DEF Delegate, CheckRateLimit
  <2>2. r.ttl \in Nat
    BY <1>1, AccessAssumption DEF Delegate
  <2> QED
    BY <2>1, <2>2, MintedTokens
<1>2. ASSUME NEW h \in Handlers, RefreshMint(h)
      PROVE  Minted' \subseteq Ids /\ \A i \in Minted' : tokens'[i].exp \in Int
  <2>1. NewId \in Ids /\ Mint(task[h].ttl)
    BY <1>2 DEF RefreshMint
  <2>2. task[h].ttl \in Nat
    BY Constants DEF ShapeInv, TaskOK
  <2> QED
    BY <2>1, <2>2, MintedTokens
<1>3. ASSUME NEW r \in Menu, NEW h \in Handlers, Refresh(h, r) \/ HandleRevoke(h, r)
      PROVE  UNCHANGED tokens
  BY <1>3 DEF Refresh, HandleRevoke, CheckRateLimit
<1>4. ASSUME NEW r \in Menu, NEW s \in Sockets, Connect(s, r) PROVE UNCHANGED tokens
  BY <1>4 DEF Connect, CheckRateLimit
<1>5. ASSUME NEW x \in Actors, OpenFile(x) \/ WriteFile(x) \/ SaveFails(x)
      PROVE  UNCHANGED tokens
  BY <1>5 DEF OpenFile, WriteFile, SaveFails
<1>6. ASSUME NEW s \in Sockets, SocketStep(s) PROVE UNCHANGED tokens
  BY <1>6, SocketSteps DEF SocketOnly
<1>7. CASE Cleanup \/ Prune \/ Tick \/ Crash \/ Start
  BY <1>7, <1>0 DEF Cleanup, Prune, Tick, Crash, Start
<1>8. CASE UNCHANGED vars
  BY <1>8, <1>0 DEF vars
<1> QED
  BY <1>0, <1>1, <1>2, <1>3, <1>4, <1>5, <1>6, <1>7, <1>8 DEF Next, SocketStep

(* A socket is opened only with a token that is not in the store. *)
LEMMA SocketsStep ==
    ASSUME ShapeInv, [Next]_vars
    PROVE  /\ Fields(sock', Sockets)
           /\ \A s \in Sockets : \/ sock'[s] = sock[s] \/ sock'[s] = 0
                                 \/ up /\ sock'[s] \notin DOMAIN revoked
<1> DEFINE Goal == /\ Fields(sock', Sockets)
                   /\ \A s \in Sockets : \/ sock'[s] = sock[s] \/ sock'[s] = 0
                                         \/ up /\ sock'[s] \notin DOMAIN revoked
<1>0. Fields(sock, Sockets)
  BY DEF ShapeInv
<1>1. ASSUME UNCHANGED sock PROVE Goal
  BY <1>0, <1>1
<1>2. ASSUME NEW r \in Menu, Delegate(r) PROVE UNCHANGED sock
  BY <1>2 DEF Delegate, CheckRateLimit, socket
<1>3. ASSUME NEW r \in Menu, NEW h \in Handlers, Refresh(h, r) \/ HandleRevoke(h, r)
      PROVE  UNCHANGED sock
  BY <1>3 DEF Refresh, HandleRevoke, CheckRateLimit, socket
<1>4. ASSUME NEW r \in Menu, NEW s \in Sockets, Connect(s, r) PROVE Goal
  <2>1. CASE UNCHANGED sock
    BY <1>1, <2>1
  <2>2. CASE ~ UNCHANGED sock
    <3>1. up /\ r.id \notin DOMAIN revoked /\ sock' = [sock EXCEPT ![s] = r.id]
      BY <1>4, <2>2 DEF Connect, CheckRateLimit, Admitted, IsRevoked, socket
    <3> QED
      BY <1>0, <3>1 DEF Fields
  <2> QED
    BY <2>1, <2>2
<1>5. ASSUME NEW x \in Actors, OpenFile(x) \/ WriteFile(x) \/ SaveFails(x)
      PROVE  UNCHANGED sock
  BY <1>5 DEF OpenFile, WriteFile, SaveFails, socket
<1>6. ASSUME NEW s \in Sockets, SocketStep(s) PROVE Goal
  BY <1>0, <1>1, <1>6, SocketSteps DEF Fields
<1>7. CASE Cleanup \/ Prune \/ Tick \/ Start
  BY <1>7, <1>1 DEF Cleanup, Prune, Tick, Start, socket
<1>8. CASE Crash
  BY <1>8 DEF Crash, Fields
<1>9. ASSUME NEW h \in Handlers, RefreshMint(h) PROVE UNCHANGED sock
  BY <1>9 DEF RefreshMint, socket
<1>10. CASE UNCHANGED vars
  BY <1>10, <1>1 DEF vars, socket
<1> QED
  BY <1>1, <1>2, <1>3, <1>4, <1>5, <1>6, <1>7, <1>8, <1>9, <1>10 DEF Next, SocketStep

(* TaskOK of an actor whose task and server did not change, and of an idle one. *)
LEMMA TaskKept ==
    ASSUME NEW x, TaskOK(x), task'[x] = task[x], up' = up
    PROVE  TaskOK(x)'
BY DEF TaskOK, SaveOf

LEMMA TaskIdle ==
    ASSUME NEW x, task'[x] = Idle
    PROVE  TaskOK(x)'
<1>1. Idle' = Idle
  BY DEF Idle
<1> QED
  BY <1>1, IdleShape DEF TaskOK, SaveOf

LEMMA ShapeInit == Init => ShapeInv
<1> SUFFICES ASSUME Init PROVE ShapeInv
  OBVIOUS
<1>1. Minted \subseteq Ids /\ \A i \in Minted : tokens[i].exp \in Int
  <2>1. PICK ttl \in Ttls : tokens = <<[exp |-> Floor(MaxTime), admin |-> TRUE],
                                       [exp |-> ttl, admin |-> FALSE]>>
    BY DEF Init
  <2>2. ttl \in Nat /\ Floor(MaxTime) \in Int /\ {1, 2} \subseteq Ids
    BY AccessAssumption, Constants, FloorBounds
  <2>3. DOMAIN tokens = {1, 2} /\ tokens[1].exp = Floor(MaxTime) /\ tokens[2].exp = ttl
    BY <2>1
  <2> QED
    BY <2>2, <2>3 DEF Minted
<1>2. Instants(<<>>)
  BY DEF Instants
<1>3. Fields(task, Actors) /\ \A x \in Actors : TaskOK(x)
  <2>1. task = [x \in Actors |-> Idle]
    BY DEF Init
  <2>2. \A x \in Actors : task[x] = Idle
    BY <2>1
  <2> QED
    BY <2>1, <2>2, IdleShape DEF Fields, TaskOK, SaveOf
<1>4. /\ Fields(ghost, GhostFields) /\ ghost.kids \in [Ids -> Nat] /\ ghost.given = <<>>
      /\ Fields(file, {"ok", "entries"}) /\ file.entries = <<>>
  BY DEF Init, Fields, GhostFields
<1> QED
  BY <1>1, <1>2, <1>3, <1>4 DEF Init, ShapeInv, Fields

(* All of ShapeInv but the tokens and the sockets. *)
Core ==
    /\ now \in Nat /\ up \in BOOLEAN
    /\ Instants(revoked) /\ Instants(file.entries) /\ Instants(ghost.given)
    /\ Fields(file, {"ok", "entries"})
    /\ Fields(task, Actors) /\ \A x \in Actors : TaskOK(x)
    /\ Fields(ghost, GhostFields) /\ ghost.kids \in [Ids -> Nat]

LEMMA ClampedInstants ==
    ASSUME NEW entries, Instants(entries), now \in Nat
    PROVE  /\ DOMAIN Clamped(entries) = DOMAIN entries
           /\ Instants(Clamped(entries))
           /\ \A i \in DOMAIN entries : entries[i] - Slack <= Clamped(entries)[i]
<1> SUFFICES ASSUME NEW i \in DOMAIN entries
             PROVE  Clamped(entries)[i] \in Int /\ entries[i] - Slack <= Clamped(entries)[i]
  BY DEF Clamped, Instants
<1>1. entries[i] \in Int /\ Sec \in Nat /\ Sec > 0
  BY AccessAssumption DEF Instants
<1>2. /\ Floor(now) \in Int /\ now - Floor(now) <= Sec - 1
      /\ Slack \in Nat /\ Slack = (Sec - 1) + (Sec - 1)
  BY FloorBounds
<1>3. CASE entries[i] > now
  <2>1. Clamped(entries)[i] = Floor(now) + Floor(entries[i] - now)
    BY <1>3 DEF Clamped
  <2>2. entries[i] - now \in Int
    BY <1>1
  <2>3. /\ Floor(entries[i] - now) \in Int
        /\ (entries[i] - now) - Floor(entries[i] - now) <= Sec - 1
    BY <2>2, FloorBounds
  <2> QED
    BY <1>1, <1>2, <2>1, <2>3
<1>4. CASE ~ (entries[i] > now)
  <2>1. Clamped(entries)[i] = Floor(now) + 0
    BY <1>4 DEF Clamped
  <2> QED
    BY <1>1, <1>2, <1>4, <2>1
<1> QED
  BY <1>3, <1>4

(* What Crash does to the ghost. *)
LEMMA CrashGhost ==
    ASSUME Fields(ghost, GhostFields), Crash
    PROVE  /\ Fields(ghost', GhostFields) /\ ghost'.alone = {} /\ ghost'.stale = FALSE
           /\ ghost'.given = [i \in DOMAIN ghost.given |-> ghost.given[i] - Slack]
           /\ ghost'.acked = IF ghost.stale THEN {} ELSE ghost.acked
           /\ ghost'.kids = IF ghost.stale THEN [i \in Ids |-> 0] ELSE ghost.kids
<1> DEFINE a == IF ghost.stale THEN {} ELSE ghost.acked
           k == IF ghost.stale THEN [i \in Ids |-> 0] ELSE ghost.kids
           g == [i \in DOMAIN ghost.given |-> ghost.given[i] - Slack]
<1>1. ghost' = [ghost EXCEPT !.alone = {}, !.stale = FALSE, !.given = g, !.acked = a, !.kids = k]
  BY DEF Crash
<1> HIDE DEF a, k, g
<1>2. /\ Fields(ghost', GhostFields) /\ ghost'.alone = {} /\ ghost'.stale = FALSE
      /\ ghost'.given = g /\ ghost'.acked = a /\ ghost'.kids = k
  BY <1>1 DEF Fields, GhostFields
<1> QED
  BY <1>2 DEF a, k, g

(* What a start takes from the file. *)
LEMMA Loaded ==
    ASSUME ShapeInv, Start
    PROVE  /\ DOMAIN revoked' = {i \in DOMAIN file.entries : file.entries[i] > Floor(now)}
           /\ \A i \in DOMAIN revoked' : /\ revoked'[i] \in Int
                                         /\ revoked'[i] >= file.entries[i]
<1>1. revoked' = [i \in {e \in DOMAIN file.entries : file.entries[e] > Floor(now)} |->
                     now + (file.entries[i] - Floor(now))]
  BY DEF Start
<1>2. now \in Int /\ Floor(now) \in Int /\ Floor(now) <= now
  BY FloorBounds DEF ShapeInv
<1>3. \A i \in DOMAIN file.entries : file.entries[i] \in Int
  BY DEF ShapeInv, Instants
<1> QED
  BY <1>1, <1>2, <1>3

LEMMA CoreAnswer ==
    ASSUME ShapeInv, NEW x \in Actors, NEW stale, Answered(x, stale),
           UNCHANGED <<now, up, revoked>>,
           Fields(file', {"ok", "entries"}), Instants(file'.entries)
    PROVE  Core'
<1>1. \A y \in Actors : TaskOK(y)'
  <2> SUFFICES ASSUME NEW y \in Actors PROVE TaskOK(y)'
    OBVIOUS
  <2>1. CASE y = x
    BY <2>1, TaskIdle DEF Answered, TaskSet
  <2>2. CASE y # x
    <3>1. task'[y] = task[y] /\ TaskOK(y) /\ up' = up
      BY <2>2 DEF Answered, TaskSet, ShapeInv
    <3> QED
      BY <3>1, TaskKept
  <2> QED
    BY <2>1, <2>2
<1>2. ghost'.kids \in [Ids -> Nat]
  BY DEF Answered, ShapeInv
<1>3. Instants(ghost'.given) /\ Fields(ghost', GhostFields) /\ Fields(task', Actors)
  BY DEF Answered, ShapeInv
<1> QED
  BY <1>1, <1>2, <1>3 DEF Core, ShapeInv

LEMMA CoreStep ==
    ASSUME ShapeInv, Effect
    PROVE  Core'
<1>1. CASE Steady
  <2>1. \A x \in Actors : TaskOK(x)'
    BY <1>1, TaskKept DEF Steady, ShapeInv
  <2> QED
    BY <1>1, <2>1 DEF Steady, Core, ShapeInv
<1>2. CASE Tick
  <2>1. \A x \in Actors : TaskOK(x)'
    BY <1>2, TaskKept DEF Tick, ShapeInv
  <2> QED
    BY <1>2, <2>1 DEF Tick, Core, ShapeInv
<1>3. CASE Crash
  <2>1. task' = [x \in Actors |-> Idle] /\ \A x \in Actors : task'[x] = Idle
    BY <1>3 DEF Crash
  <2>2. Fields(task', Actors) /\ \A x \in Actors : TaskOK(x)'
    BY <2>1, TaskIdle DEF Fields
  <2>3. Instants(revoked') /\ up' \in BOOLEAN
    <3>1. revoked' = <<>> /\ up' = FALSE
      BY <1>3 DEF Crash
    <3>2. Instants(<<>>)
      BY DEF Instants
    <3> QED
      BY <3>1, <3>2
  <2>4. /\ Fields(ghost', GhostFields) /\ Instants(ghost'.given)
        /\ ghost'.kids \in [Ids -> Nat]
    <3>1. /\ Fields(ghost', GhostFields) /\ ghost'.kids \in [Ids -> Nat]
          /\ ghost'.given = [i \in DOMAIN ghost.given |-> ghost.given[i] - Slack]
      BY <1>3, CrashGhost DEF ShapeInv
    <3>2. Slack \in Nat
      BY FloorBounds
    <3> QED
      BY <3>1, <3>2 DEF ShapeInv, Instants
  <2> QED
    BY <1>3, <2>2, <2>3, <2>4 DEF Crash, Core, ShapeInv
<1>4. CASE Start
  <2>1. \A x \in Actors : TaskOK(x)'
    BY <1>4, TaskIdle DEF Start, ShapeInv, TaskOK
  <2>2. Instants(revoked') /\ up' \in BOOLEAN
    BY <1>4, Loaded DEF Start, Instants
  <2> QED
    BY <1>4, <2>1, <2>2 DEF Start, Core, ShapeInv
<1>5. ASSUME NEW x \in Actors, OpenFile(x) PROVE Core'
  <2> DEFINE r == [task[x] EXCEPT !.at = "write"]
  <2>1. task' = [task EXCEPT ![x] = r]
    BY <1>5 DEF OpenFile
  <2>2. Fields(task[x], TaskFields) /\ task[x].ttl \in Nat /\ task[x].at = "open"
        /\ Instants(task[x].snap) /\ up
    BY <1>5, IdleShape DEF OpenFile, ShapeInv, TaskOK, SaveOf
  <2>3. /\ Fields(r, TaskFields) /\ r.at = "write" /\ r.ttl = task[x].ttl
        /\ r.snap = task[x].snap
    BY <2>2 DEF Fields, TaskFields
  <2> HIDE DEF r
  <2>4. Fields(task', Actors) /\ TaskSet(x, r)
    BY <2>1, TaskPut
  <2>5. ASSUME NEW y \in Actors PROVE TaskOK(y)'
    <3>1. CASE y = x
      BY <1>5, <2>2, <2>3, <2>4, <3>1 DEF TaskOK, SaveOf, TaskSet, OpenFile
    <3>2. CASE y # x
      BY <1>5, <2>4, <3>2, TaskKept DEF TaskSet, ShapeInv, OpenFile
    <3> QED
      BY <3>1, <3>2
  <2>6. Fields(file', {"ok", "entries"}) /\ Instants(file'.entries)
    BY <1>5 DEF OpenFile, Fields, Instants
  <2> QED
    BY <1>5, <2>4, <2>5, <2>6 DEF OpenFile, Core, ShapeInv
<1>6. ASSUME NEW x \in Actors, WriteFile(x) PROVE Core'
  <2> DEFINE stale == ghost.stale /\ x \notin ghost.alone
  <2>1. Answer(x, stale) /\ stale \in BOOLEAN /\ UNCHANGED <<now, up, revoked>>
    BY <1>6 DEF WriteFile
  <2>2. Instants(task[x].snap)
    BY <1>6 DEF WriteFile, ShapeInv, TaskOK, SaveOf
  <2>3. Fields(file', {"ok", "entries"}) /\ Instants(file'.entries)
    <3>1. CASE file' = [file EXCEPT !.ok = FALSE]
      BY <3>1 DEF ShapeInv, Fields
    <3>2. CASE file' \in [ok : Verifies(task[x].snap), entries : {task[x].snap}]
      BY <2>2, <3>2 DEF Fields
    <3> QED
      BY <1>6, <3>1, <3>2 DEF WriteFile
  <2>4. Answered(x, stale)
    <3> HIDE DEF stale
    <3> QED
      BY <2>1, AnswerFacts
  <2> HIDE DEF stale
  <2> QED
    BY <2>1, <2>3, <2>4, CoreAnswer
<1>7. ASSUME NEW x \in Actors, SaveFails(x) PROVE Core'
  <2>1. Answer(x, TRUE) /\ UNCHANGED <<now, up, revoked>>
    BY <1>7 DEF SaveFails
  <2>2. Answered(x, TRUE)
    BY <2>1, AnswerFacts
  <2>3. Fields(file', {"ok", "entries"}) /\ Instants(file'.entries)
    <3>1. CASE UNCHANGED file
      BY <3>1 DEF ShapeInv
    <3>2. CASE /\ task[x].at = "write"
               /\ file' \in [ok : {FALSE}, entries : {file.entries, task[x].snap}]
      <4>1. Instants(file.entries) /\ Instants(task[x].snap)
        BY <3>2 DEF ShapeInv, TaskOK, SaveOf
      <4> QED
        BY <3>2, <4>1 DEF Fields
    <3> QED
      BY <1>7, <3>1, <3>2 DEF SaveFails
  <2> QED
    BY <2>1, <2>2, <2>3, CoreAnswer
<1>8. ASSUME NEW h \in Handlers, NEW id, AsksMint(h, id) PROVE Core'
  <2>1. ASSUME NEW y \in Actors PROVE TaskOK(y)'
    <3>1. CASE y = h
      BY <1>8, <3>1 DEF AsksMint, TaskOK, SaveOf
    <3>2. CASE y # h
      BY <1>8, <3>2, TaskKept DEF AsksMint, ShapeInv
    <3> QED
      BY <3>1, <3>2
  <2> QED
    BY <1>8, <2>1 DEF AsksMint, Core, ShapeInv
<1>9. ASSUME NEW x \in Actors, NEW entries, NEW id, NEW new, NEW given,
             Saves(x, entries, id, new, given)
      PROVE  Core'
  <2>1. SaveStarted(x, entries, id, new, given) /\ Instants(entries) /\ Instants(given)
        /\ up /\ UNCHANGED <<now, up, file>>
    BY <1>9 DEF Saves, GoodSave
  <2>2. Instants(Clamped(entries))
    BY <2>1, ClampedInstants DEF ShapeInv
  <2>3. ASSUME NEW y \in Actors PROVE TaskOK(y)'
    <3>1. CASE y = x
      BY <2>1, <2>2, <3>1 DEF SaveStarted, TaskOK, SaveOf
    <3>2. CASE y # x
      <4>1. task'[y] = task[y] /\ TaskOK(y) /\ up' = up
        BY <2>1, <3>2 DEF SaveStarted, ShapeInv
      <4> QED
        BY <4>1, TaskKept
    <3> QED
      BY <3>1, <3>2
  <2> QED
    BY <2>1, <2>3 DEF SaveStarted, Core, ShapeInv
<1> QED
  BY <1>1, <1>2, <1>3, <1>4, <1>5, <1>6, <1>7, <1>8, <1>9 DEF Effect

LEMMA ShapeStep ==
    ASSUME ShapeInv, [Next]_vars
    PROVE  ShapeInv' /\ Effect
<1>1. Effect
  BY EffectOfNext
<1>2. Core'
  BY <1>1, CoreStep
<1>3. Minted' \subseteq Ids /\ \A i \in Minted' : tokens'[i].exp \in Int
  BY TokensStep
<1>4. Fields(sock', Sockets)
  BY SocketsStep
<1> QED
  BY <1>1, <1>2, <1>3, <1>4 DEF Core, ShapeInv
-----------------------------------------------------------------------------
(***************************************************************************)
(* Revocations.  A revocation is promised once it is answered, and also    *)
(* while the save that its handler waits for is under way.  While its      *)
(* deadline lies ahead, a promised one is in the store; but for Slack in   *)
(* the file, if the file is current, and in what a save writes that met no *)
(* other save; and in full in the file after a crash, which takes Slack    *)
(* from every deadline.                                                    *)
(***************************************************************************)
Promised(i) ==
    \/ i \in ghost.acked
    \/ \E h \in Handlers : SaveOf(h) /\ task[h].id = i

Live(i) == i \in DOMAIN ghost.given /\ now < ghost.given[i]
Keeps(f, i) == i \in DOMAIN f /\ ghost.given[i] <= f[i]
Nearly(f, i) == i \in DOMAIN f /\ ghost.given[i] - Slack <= f[i]

PromisesGiven == \A i : Promised(i) => i \in DOMAIN ghost.given
StoreKeeps == up => \A i : Promised(i) /\ Live(i) => Keeps(revoked, i)
FileKeeps ==
    ~ghost.stale /\ file.ok =>
        \A i \in ghost.acked : Live(i) => /\ Nearly(file.entries, i)
                                          /\ ~up => Keeps(file.entries, i)
SaveKeeps ==
    \A x \in ghost.alone : \A i : Promised(i) /\ Live(i) => Nearly(task[x].snap, i)

(* A save that is alone is the only one; a current file has only such ones above it. *)
AloneOnly ==
    /\ \A x \in ghost.alone : x \in Actors /\ \A y \in Actors : SaveOf(y) <=> y = x
    /\ ~ghost.stale => \A y \in Actors : SaveOf(y) => y \in ghost.alone
    /\ ~up => ~ghost.stale

RefusedInv == PromisesGiven /\ StoreKeeps /\ FileKeeps /\ SaveKeeps /\ AloneOnly

(* Steps that leave promises, store and saves alone, and the file unless it is emptied. *)
LEMMA RefusedSame ==
    ASSUME ShapeInv, ShapeInv', RefusedInv, now' >= now,
           UNCHANGED <<up, revoked, ghost>>, file' = file \/ ~file'.ok,
           \A y \in Actors : /\ SaveOf(y)' <=> SaveOf(y)
                             /\ SaveOf(y) => task'[y].id = task[y].id
                                             /\ task'[y].snap = task[y].snap
    PROVE  RefusedInv'
<1>0. UNCHANGED Slack
  BY DEF Slack
<1>1. \A i : Promised(i)' <=> Promised(i)
  BY Constants DEF Promised
<1>2. \A i \in DOMAIN ghost.given : Live(i)' => Live(i)
  <2>1. \A i \in DOMAIN ghost.given : ghost.given[i] \in Int
    BY DEF ShapeInv, Instants
  <2> QED
    BY <2>1 DEF Live, ShapeInv
<1>3. PromisesGiven'
  BY <1>1 DEF RefusedInv, PromisesGiven
<1>4. StoreKeeps'
  BY <1>1, <1>2 DEF RefusedInv, StoreKeeps, Keeps, PromisesGiven
<1>5. FileKeeps'
  BY <1>0, <1>2 DEF RefusedInv, FileKeeps, Keeps, Nearly, PromisesGiven, Promised
<1>6. AloneOnly'
  BY DEF RefusedInv, AloneOnly
<1>7. SaveKeeps'
  <2> SUFFICES ASSUME NEW x \in ghost.alone, NEW i, Promised(i), Live(i)'
               PROVE  Nearly(task[x].snap, i)'
    BY <1>1 DEF SaveKeeps
  <2>1. task'[x].snap = task[x].snap
    BY DEF RefusedInv, AloneOnly
  <2>2. i \in DOMAIN ghost.given /\ Live(i)
    BY <1>2 DEF RefusedInv, PromisesGiven
  <2>3. Nearly(task[x].snap, i)
    BY <2>2 DEF RefusedInv, SaveKeeps
  <2> QED
    BY <1>0, <2>1, <2>3 DEF Nearly
<1> QED
  BY <1>3, <1>4, <1>5, <1>6, <1>7 DEF RefusedInv

LEMMA RefusedSaves ==
    ASSUME ShapeInv, ShapeInv', RefusedInv,
           NEW x \in Actors, NEW entries, NEW id, NEW new, NEW given,
           Saves(x, entries, id, new, given)
    PROVE  RefusedInv'
<1>1. /\ up /\ up' = up /\ now' = now /\ file' = file /\ now \in Nat
      /\ \/ task[x] = Idle \/ task[x].at = "mint"
  BY DEF Saves, ShapeInv
<1>2. SaveStarted(x, entries, id, new, given) /\ GoodSave(x, entries, id, given)
  BY DEF Saves
<1>3. ghost'.given = given /\ ghost'.acked = ghost.acked /\ revoked' = entries
  BY <1>2 DEF SaveStarted
<1>4. ~ SaveOf(x) /\ SaveOf(x)' /\ task'[x].id = id /\ task'[x].snap = Clamped(entries)
  BY <1>1, <1>2, IdleShape DEF SaveStarted, SaveOf
<1>5. \A y \in Actors : y # x => (SaveOf(y)' <=> SaveOf(y)) /\ task'[y] = task[y]
  BY <1>2 DEF SaveStarted, SaveOf
<1>6. \A i : Promised(i)' => Promised(i) \/ (x # Pruner /\ i = id)
  BY <1>3, <1>4, <1>5, Constants DEF Promised
<1>7. \A i \in DOMAIN ghost.given : /\ i \in DOMAIN given /\ given[i] <= ghost.given[i]
                                    /\ given[i] \in Int /\ ghost.given[i] \in Int
                                    /\ Live(i)' => Live(i)
  <2> SUFFICES ASSUME NEW i \in DOMAIN ghost.given
               PROVE  /\ i \in DOMAIN given /\ given[i] <= ghost.given[i]
                      /\ given[i] \in Int /\ ghost.given[i] \in Int
                      /\ Live(i)' => Live(i)
    OBVIOUS
  <2>1. i \in DOMAIN given /\ given[i] <= ghost.given[i] /\ given[i] \in Int
        /\ ghost.given[i] \in Int
    BY <1>2 DEF GoodSave, ShapeInv, Instants
  <2> QED
    BY <1>1, <1>3, <2>1 DEF Live
<1>8. PromisesGiven'
  BY <1>2, <1>3, <1>6, <1>7 DEF RefusedInv, PromisesGiven, GoodSave
<1>9. ASSUME NEW i, Promised(i)', Live(i)' PROVE Keeps(entries, i)'
  <2>1. CASE x # Pruner /\ i = id
    BY <1>2, <1>3, <2>1 DEF GoodSave, Keeps
  <2>2. CASE ~ (x # Pruner /\ i = id)
    <3>1. Promised(i)
      BY <1>6, <1>9, <2>2
    <3>2. i \in DOMAIN ghost.given
      BY <3>1 DEF RefusedInv, PromisesGiven
    <3>3. Live(i)
      BY <1>7, <1>9, <3>2
    <3>4. i \in DOMAIN revoked /\ ghost.given[i] <= revoked[i]
      BY <1>1, <3>1, <3>3 DEF RefusedInv, StoreKeeps, Keeps
    <3>5. revoked[i] \in Int /\ ghost.given[i] \in Int /\ now < ghost.given[i]
      BY <3>2, <3>3, <3>4 DEF ShapeInv, Instants, Live
    <3>6. revoked[i] > now
      BY <1>1, <3>4, <3>5
    <3>7. i \in DOMAIN entries /\ entries[i] = revoked[i]
      BY <1>2, <2>2, <3>4, <3>6 DEF GoodSave
    <3> QED
      BY <1>3, <1>7, <3>2, <3>4, <3>5, <3>7 DEF Keeps
  <2> QED
    BY <2>1, <2>2
<1>10. StoreKeeps'
  BY <1>3, <1>9 DEF StoreKeeps, Keeps
<1>11. FileKeeps'
  <2> SUFFICES ASSUME ~ghost'.stale, file.ok, NEW i \in ghost.acked, Live(i)'
               PROVE  Nearly(file.entries, i)'
    BY <1>1, <1>3 DEF FileKeeps
  <2>1. ~ghost.stale
    BY <1>2 DEF SaveStarted
  <2>2. i \in DOMAIN ghost.given
    BY DEF RefusedInv, PromisesGiven, Promised
  <2>3. i \in DOMAIN file.entries /\ ghost.given[i] - Slack <= file.entries[i]
    BY <1>7, <2>1, <2>2 DEF RefusedInv, FileKeeps, Nearly
  <2>4. file.entries[i] \in Int
    BY <2>3 DEF ShapeInv, Instants
  <2>5. Slack \in Nat /\ UNCHANGED Slack
    BY FloorBounds DEF Slack
  <2> QED
    BY <1>1, <1>3, <1>7, <2>2, <2>3, <2>4, <2>5 DEF Nearly
<1>12. SaveKeeps'
  <2> SUFFICES ASSUME NEW y \in ghost'.alone, NEW i, Promised(i)', Live(i)'
               PROVE  Nearly(task[y].snap, i)'
    BY DEF SaveKeeps
  <2>1. y = x
    BY <1>2 DEF SaveStarted
  <2>2. i \in DOMAIN entries /\ given[i] <= entries[i]
    BY <1>3, <1>9 DEF Keeps
  <2>3. i \in DOMAIN given
    BY <1>3, <1>8 DEF PromisesGiven
  <2>4. given[i] \in Int /\ entries[i] \in Int
    BY <1>2, <2>2, <2>3 DEF GoodSave, Instants
  <2>5. /\ DOMAIN Clamped(entries) = DOMAIN entries
        /\ entries[i] - Slack <= Clamped(entries)[i] /\ Clamped(entries)[i] \in Int
    BY <1>1, <1>2, <2>2, ClampedInstants DEF GoodSave, Instants
  <2>6. Slack \in Nat /\ UNCHANGED Slack
    BY FloorBounds DEF Slack
  <2> QED
    BY <1>3, <1>4, <2>1, <2>2, <2>4, <2>5, <2>6 DEF Nearly
<1>13. AloneOnly'
  <2>1. Saving = {} <=> \A y \in Actors : ~ SaveOf(y)
    BY DEF Saving, SaveOf
  <2>2. /\ ghost'.alone = IF Saving = {} THEN {x} ELSE {}
        /\ ghost'.stale <=> ghost.stale \/ Saving # {}
    BY <1>2 DEF SaveStarted
  <2>3. \A z \in ghost'.alone : z \in Actors /\ \A y \in Actors : SaveOf(y)' <=> y = z
    BY <1>4, <1>5, <2>1, <2>2
  <2>4. ~ghost'.stale => \A y \in Actors : SaveOf(y)' => y \in ghost'.alone
    BY <1>5, <2>1, <2>2
  <2> QED
    BY <1>1, <2>3, <2>4 DEF AloneOnly
<1> QED
  BY <1>8, <1>10, <1>11, <1>12, <1>13 DEF RefusedInv

(* The end of a save: either the file is not current, or it holds what x wrote. *)
LEMMA RefusedAnswer ==
    ASSUME ShapeInv, ShapeInv', RefusedInv, NEW x \in Actors, SaveOf(x),
           NEW stale \in BOOLEAN, Answered(x, stale), UNCHANGED <<now, up, revoked>>,
           stale \/ (x \in ghost.alone /\ (file'.ok => file'.entries = task[x].snap))
    PROVE  RefusedInv'
<1>0. up /\ up' /\ UNCHANGED Slack
  BY IdleShape DEF ShapeInv, TaskOK, SaveOf, Slack
<1>1. /\ ghost'.given = ghost.given /\ ghost'.alone = ghost.alone \ {x}
      /\ ghost'.acked = IF x = Pruner THEN ghost.acked ELSE ghost.acked \cup {task[x].id}
      /\ ghost'.stale <=> stale
      /\ task'[x] = Idle /\ \A y \in Actors : y # x => task'[y] = task[y]
  BY DEF Answered, TaskSet
<1>2. ~ SaveOf(x)' /\ \A y \in Actors : y # x => (SaveOf(y)' <=> SaveOf(y))
  BY <1>1, IdleShape DEF SaveOf
<1>3. \A i : Promised(i)' => Promised(i)
  <2> SUFFICES ASSUME NEW i, Promised(i)' PROVE Promised(i)
    OBVIOUS
  <2>1. CASE i \in ghost'.acked
    <3>1. x # Pruner => x \in Handlers
      BY DEF Actors
    <3> QED
      BY <1>1, <2>1, <3>1 DEF Promised
  <2>2. ASSUME NEW h \in Handlers, SaveOf(h)', task'[h].id = i PROVE Promised(i)
    BY <1>1, <1>2, <2>2, Constants DEF Promised
  <2> QED
    BY <2>1, <2>2 DEF Promised
<1>4. \A i : Live(i)' <=> Live(i)
  BY <1>1 DEF Live
<1>5. PromisesGiven'
  BY <1>1, <1>3 DEF RefusedInv, PromisesGiven
<1>6. StoreKeeps'
  BY <1>1, <1>3, <1>4 DEF RefusedInv, StoreKeeps, Keeps
<1>7. FileKeeps'
  <2> SUFFICES ASSUME ~stale, file'.ok, NEW i \in ghost'.acked, Live(i)'
               PROVE  Nearly(file.entries, i)'
    BY <1>1, <1>0 DEF FileKeeps
  <2>1. Promised(i)
    BY <1>3 DEF Promised
  <2>2. Nearly(task[x].snap, i)
    BY <1>4, <2>1 DEF RefusedInv, SaveKeeps
  <2> QED
    BY <1>0, <1>1, <2>2 DEF Nearly
<1>8. SaveKeeps'
  <2> SUFFICES ASSUME NEW y \in ghost'.alone, NEW i, Promised(i)', Live(i)'
               PROVE  Nearly(task[y].snap, i)'
    BY DEF SaveKeeps
  <2> QED
    BY <1>1 DEF RefusedInv, AloneOnly
<1>9. AloneOnly'
  <2>1. \A z \in ghost'.alone : FALSE
    BY <1>1 DEF RefusedInv, AloneOnly
  <2>2. ~ghost'.stale => \A y \in Actors : ~ SaveOf(y)'
    BY <1>1, <1>2 DEF RefusedInv, AloneOnly
  <2>3. up
    BY IdleShape DEF ShapeInv, TaskOK, SaveOf
  <2> QED
    BY <2>1, <2>2, <2>3 DEF AloneOnly
<1> QED
  BY <1>5, <1>6, <1>7, <1>8, <1>9 DEF RefusedInv

LEMMA RefusedCrash ==
    ASSUME ShapeInv, ShapeInv', RefusedInv, Crash
    PROVE  RefusedInv'
<1>1. /\ ghost'.given = [i \in DOMAIN ghost.given |-> ghost.given[i] - Slack]
      /\ ghost'.alone = {} /\ ghost'.stale = FALSE
      /\ ghost'.acked = IF ghost.stale THEN {} ELSE ghost.acked
  BY CrashGhost DEF ShapeInv
<1>2. ~ghost'.stale
  BY <1>1
<1>3. ~up' /\ now' = now /\ file' = file /\ \A y \in Actors : task'[y] = Idle
  BY DEF Crash
<1>4. \A y \in Actors : ~ SaveOf(y)'
  BY <1>3, IdleShape DEF SaveOf
<1>5. \A i : Promised(i)' => i \in ghost.acked /\ ~ghost.stale
  BY <1>1, <1>4, Constants DEF Promised
<1>6. PromisesGiven'
  BY <1>1, <1>5 DEF RefusedInv, PromisesGiven, Promised
<1>7. StoreKeeps'
  BY <1>3 DEF StoreKeeps
<1>8. FileKeeps'
  <2> SUFFICES ASSUME file.ok, ~ghost.stale, NEW i \in ghost.acked, Live(i)'
               PROVE  Nearly(file.entries, i)' /\ Keeps(file.entries, i)'
    BY <1>1, <1>3 DEF FileKeeps
  <2>1. /\ i \in DOMAIN ghost.given /\ ghost'.given[i] = ghost.given[i] - Slack
        /\ now < ghost'.given[i]
    BY <1>1, <1>3 DEF Live
  <2>2. ghost.given[i] \in Int /\ now \in Int /\ Slack \in Nat /\ UNCHANGED Slack
    BY <2>1, FloorBounds DEF ShapeInv, Instants, Slack
  <2>3. Live(i)
    BY <2>1, <2>2 DEF Live
  <2>4. i \in DOMAIN file.entries /\ ghost.given[i] - Slack <= file.entries[i]
    BY <2>3 DEF RefusedInv, FileKeeps, Nearly
  <2>5. file.entries[i] \in Int
    BY <2>4 DEF ShapeInv, Instants
  <2> QED
    BY <1>3, <2>1, <2>2, <2>4, <2>5 DEF Nearly, Keeps
<1>9. SaveKeeps' /\ AloneOnly'
  BY <1>1, <1>2, <1>4 DEF SaveKeeps, AloneOnly
<1> QED
  BY <1>6, <1>7, <1>8, <1>9 DEF RefusedInv

LEMMA RefusedStart ==
    ASSUME ShapeInv, ShapeInv', RefusedInv, Start
    PROVE  RefusedInv'
<1>1. ~up /\ up' /\ file.ok /\ UNCHANGED <<now, file, task, ghost>> /\ UNCHANGED Slack
  BY DEF Start, Slack
<1>2. ~ghost.stale /\ \A y \in Actors : ~ SaveOf(y)
  BY <1>1, IdleShape DEF RefusedInv, AloneOnly, ShapeInv, TaskOK, SaveOf
<1>3. \A i : Promised(i)' <=> i \in ghost.acked
  BY <1>1, <1>2, Constants DEF Promised, SaveOf
<1>4. StoreKeeps'
  <2> SUFFICES ASSUME NEW i \in ghost.acked, Live(i)' PROVE Keeps(revoked, i)'
    BY <1>3 DEF StoreKeeps
  <2>1. Live(i)
    BY <1>1 DEF Live
  <2>2. i \in DOMAIN file.entries /\ ghost.given[i] <= file.entries[i]
    BY <1>1, <1>2, <2>1 DEF RefusedInv, FileKeeps, Keeps
  <2>3. file.entries[i] \in Int /\ ghost.given[i] \in Int /\ now \in Int
        /\ now < ghost.given[i] /\ Floor(now) \in Int /\ Floor(now) <= now
    BY <2>1, <2>2, FloorBounds DEF ShapeInv, Instants, Live
  <2>4. file.entries[i] > Floor(now)
    BY <2>2, <2>3
  <2>5. i \in DOMAIN revoked' /\ revoked'[i] \in Int /\ revoked'[i] >= file.entries[i]
    BY <2>2, <2>4, Loaded
  <2> QED
    BY <1>1, <2>2, <2>3, <2>5 DEF Keeps
<1>5. PromisesGiven'
  BY <1>1, <1>3 DEF RefusedInv, PromisesGiven, Promised
<1>6. FileKeeps'
  BY <1>1 DEF RefusedInv, FileKeeps, Live, Nearly
<1>7. SaveKeeps' /\ AloneOnly'
  <2>1. \A x \in ghost.alone : FALSE
    BY <1>2 DEF RefusedInv, AloneOnly
  <2>2. ghost' = ghost /\ \A y \in Actors : ~ SaveOf(y)'
    BY <1>1, <1>2 DEF SaveOf
  <2> QED
    BY <1>2, <2>1, <2>2 DEF SaveKeeps, AloneOnly
<1> QED
  BY <1>4, <1>5, <1>6, <1>7 DEF RefusedInv

LEMMA RefusedStep ==
    ASSUME ShapeInv, ShapeInv', RefusedInv, Effect
    PROVE  RefusedInv'
<1>0. now \in Nat
  BY DEF ShapeInv
<1>1. CASE Steady
  <2>1. now' >= now /\ UNCHANGED <<up, revoked, file, ghost, task>>
    BY <1>0, <1>1 DEF Steady
  <2>2. \A y \in Actors : SaveOf(y)' <=> SaveOf(y)
    BY <2>1 DEF SaveOf
  <2> QED
    BY <2>1, <2>2, RefusedSame
<1>2. CASE Tick
  <2>1. now' >= now /\ UNCHANGED <<up, revoked, file, ghost, task>>
    BY <1>0, <1>2 DEF Tick
  <2>2. \A y \in Actors : SaveOf(y)' <=> SaveOf(y)
    BY <2>1 DEF SaveOf
  <2> QED
    BY <2>1, <2>2, RefusedSame
<1>3. ASSUME NEW x \in Actors, OpenFile(x) PROVE RefusedInv'
  <2>1. now' >= now /\ UNCHANGED <<up, revoked, ghost>> /\ ~file'.ok
    BY <1>0, <1>3 DEF OpenFile
  <2>2. \A y \in Actors : /\ SaveOf(y)' <=> SaveOf(y)
                          /\ SaveOf(y) => task'[y].id = task[y].id
                                          /\ task'[y].snap = task[y].snap
    <3> DEFINE r == [task[x] EXCEPT !.at = "write"]
    <3>1. task' = [task EXCEPT ![x] = r] /\ task[x].at = "open"
      BY <1>3 DEF OpenFile
    <3>2. Fields(task[x], TaskFields)
      BY DEF ShapeInv, TaskOK
    <3>3. r.at = "write" /\ r.id = task[x].id /\ r.snap = task[x].snap
      BY <3>2 DEF Fields, TaskFields
    <3> HIDE DEF r
    <3>4. TaskSet(x, r)
      BY <3>1, TaskPut
    <3> QED
      BY <3>1, <3>3, <3>4 DEF TaskSet, SaveOf
  <2> QED
    BY <2>1, <2>2, RefusedSame
<1>4. ASSUME NEW x \in Actors, WriteFile(x) PROVE RefusedInv'
  <2> DEFINE stale == ghost.stale /\ x \notin ghost.alone
  <2>1. Answer(x, stale) /\ stale \in BOOLEAN /\ UNCHANGED <<now, up, revoked>>
    BY <1>4 DEF WriteFile
  <2>2. SaveOf(x)
    BY <1>4 DEF WriteFile, SaveOf
  <2>3. ~stale => x \in ghost.alone
    BY <2>2 DEF RefusedInv, AloneOnly
  <2>4. file'.ok => file'.entries = task[x].snap
    <3>1. CASE file' = [file EXCEPT !.ok = FALSE]
      BY <3>1 DEF ShapeInv, Fields
    <3>2. CASE file' \in [ok : Verifies(task[x].snap), entries : {task[x].snap}]
      BY <3>2
    <3> QED
      BY <1>4, <3>1, <3>2 DEF WriteFile
  <2> HIDE DEF stale
  <2>5. Answered(x, stale)
    BY <2>1, AnswerFacts
  <2> QED
    BY <2>1, <2>2, <2>3, <2>4, <2>5, RefusedAnswer
<1>5. ASSUME NEW x \in Actors, SaveFails(x) PROVE RefusedInv'
  <2>1. Answer(x, TRUE) /\ UNCHANGED <<now, up, revoked>> /\ SaveOf(x)
    BY <1>5 DEF SaveFails, SaveOf
  <2>2. Answered(x, TRUE)
    BY <2>1, AnswerFacts
  <2> QED
    BY <2>1, <2>2, RefusedAnswer
<1>6. ASSUME NEW h \in Handlers, NEW id, AsksMint(h, id) PROVE RefusedInv'
  <2>1. now' >= now /\ UNCHANGED <<up, revoked, file, ghost>>
    BY <1>0, <1>6 DEF AsksMint
  <2>2. \A y \in Actors : /\ SaveOf(y)' <=> SaveOf(y)
                          /\ SaveOf(y) => task'[y].id = task[y].id
                                          /\ task'[y].snap = task[y].snap
    BY <1>6, IdleShape DEF AsksMint, SaveOf
  <2> QED
    BY <2>1, <2>2, RefusedSame
<1> QED
  BY <1>1, <1>2, <1>3, <1>4, <1>5, <1>6, RefusedCrash, RefusedStart, RefusedSaves DEF Effect

LEMMA RefusedInit == Init => RefusedInv
<1> SUFFICES ASSUME Init PROVE RefusedInv
  OBVIOUS
<1>1. ghost.acked = {} /\ ghost.alone = {} /\ up
  BY DEF Init
<1>2. ~ghost.stale
  <2>1. ghost.stale = FALSE
    BY DEF Init
  <2> QED
    BY <2>1
<1>3. \A y \in Actors : ~ SaveOf(y)
  BY IdleShape DEF Init, SaveOf
<1>4. \A i : ~ Promised(i)
  BY <1>1, <1>3, Constants DEF Promised
<1> QED
  BY <1>1, <1>2, <1>3, <1>4
     DEF RefusedInv, PromisesGiven, StoreKeeps, FileKeeps, SaveKeeps, AloneOnly

(* While an answered revocation is not due, its token is in the store. *)
LEMMA BindingRefused ==
    ASSUME ShapeInv, RefusedInv, up, NEW i, Binding(i)
    PROVE  i \in DOMAIN revoked
<1>1. i \in ghost.acked /\ ~ Due(i) /\ Promised(i)
  BY DEF Binding, Promised
<1>2. i \in DOMAIN ghost.given
  BY <1>1 DEF RefusedInv, PromisesGiven
<1>3. ghost.given[i] \in Int /\ now \in Int
  BY <1>2 DEF ShapeInv, Instants
<1>4. Live(i)
  BY <1>1, <1>2, <1>3 DEF Live, Due
<1> QED
  BY <1>1, <1>4 DEF RefusedInv, StoreKeeps, Keeps

(* A handler begins a refresh only with a token that is not in the store. *)
LEMMA MintAsked ==
    ASSUME ShapeInv, Effect, NEW h \in Handlers, task[h] = Idle, task'[h].at = "mint"
    PROVE  up /\ task'[h].id \notin DOMAIN revoked
<1>0. h \in Actors /\ task'[h] # task[h] /\ Idle.at = "idle"
  BY Constants, IdleShape
<1>1. CASE Steady \/ Tick \/ Start
  BY <1>0, <1>1 DEF Steady, Tick, Start
<1>2. CASE Crash
  BY <1>0, <1>2 DEF Crash
<1>3. ASSUME NEW x \in Actors, OpenFile(x) \/ WriteFile(x) \/ SaveFails(x) PROVE FALSE
  <2>1. \E r : task' = [task EXCEPT ![x] = r] /\ task[x].at # "idle"
    BY <1>3 DEF OpenFile, WriteFile, SaveFails, Answer
  <2>2. PICK r : task' = [task EXCEPT ![x] = r] /\ task[x].at # "idle"
    BY <2>1
  <2>3. x # h
    BY <1>0, <2>2
  <2> QED
    BY <1>0, <2>2, <2>3, TaskPut DEF TaskSet
<1>4. ASSUME NEW g \in Handlers, NEW id, AsksMint(g, id)
      PROVE  up /\ task'[h].id \notin DOMAIN revoked
  BY <1>0, <1>4 DEF AsksMint
<1>5. ASSUME NEW x \in Actors, NEW entries, NEW id, NEW new, NEW given,
             Saves(x, entries, id, new, given)
      PROVE  FALSE
  BY <1>0, <1>5 DEF Saves, SaveStarted
<1> QED
  BY <1>1, <1>2, <1>3, <1>4, <1>5 DEF Effect

AccessInv == ShapeInv /\ RefusedInv

LEMMA AccessStep == AccessInv /\ [Next]_vars => AccessInv' /\ Effect
BY ShapeStep, RefusedStep DEF AccessInv

(***************************************************************************)
(* Whatever handlers, sockets, prunes and saves do at once, and across any *)
(* number of crashes, a token whose revocation or refresh was answered is  *)
(* not admitted before its deadline, less two fractions of a second for    *)
(* each crash, as long as the file was current when the server went down.  *)
(***************************************************************************)
THEOREM AccessRefused == Spec => RefusedUntilDeadline
<1>1. Init => AccessInv
  BY ShapeInit, RefusedInit DEF AccessInv
<1>2. ASSUME AccessInv, [Next]_vars, NEW i \in Minted, Binding(i)
      PROVE  ~ Admits(i)
  <2>1. up => i \in DOMAIN revoked
    BY <1>2, BindingRefused DEF AccessInv
  <2>2. Effect
    BY <1>2, AccessStep
  <2>3. \A h \in Handlers : ~(task[h] = Idle /\ task'[h].at = "mint" /\ task'[h].id = i)
    BY <1>2, <2>1, <2>2, MintAsked DEF AccessInv
  <2>4. i # 0
    BY <1>2, Constants DEF AccessInv, ShapeInv
  <2>5. \A s \in Sockets : ~(sock[s] # i /\ sock'[s] = i)
    BY <1>2, <2>1, <2>4, SocketsStep DEF AccessInv
  <2> QED
    BY <2>3, <2>5 DEF Admits
<1>3. AccessInv /\ [Next]_vars => [\A i \in Minted : Binding(i) => ~Admits(i)]_vars
  BY <1>2
<1> QED
  BY <1>1, <1>3, AccessStep, PTL DEF Spec, RefusedUntilDeadline
-----------------------------------------------------------------------------
(***************************************************************************)
(* Successors of a token.  Once its refresh is answered no handler begins  *)
(* another, so its successors are those handed out and those that handlers *)
(* are still busy with, and there was one for each handler at most.        *)
(***************************************************************************)
Busy(h, i) ==
    task[h].id = i /\ (task[h].at = "mint" \/ (SaveOf(h) /\ task[h].new # 0))
Involved(i) == {h \in Handlers : Busy(h, i)}

KidsInv ==
    /\ \A i \in Ids : i \notin ghost.acked => ghost.kids[i] = 0
    /\ \A i \in Ids : Binding(i) =>
          ghost.kids[i] + Cardinality(Involved(i)) <= Cardinality(Handlers)
    /\ task[Pruner].new = 0

LEMMA InvolvedSize ==
    ASSUME NEW i
    PROVE  /\ IsFiniteSet(Involved(i)) /\ Cardinality(Involved(i)) \in Nat
           /\ Cardinality(Handlers) \in Nat
           /\ Cardinality(Involved(i)) <= Cardinality(Handlers)
<1>1. Involved(i) \subseteq Handlers /\ IsFiniteSet(Handlers)
  BY Constants DEF Involved
<1> QED
  BY <1>1, FS_Subset, FS_CardinalityType

LEMMA KidsSame ==
    ASSUME KidsInv, ghost'.acked = ghost.acked, ghost'.kids = ghost.kids,
           task'[Pruner].new = 0,
           \A i \in Ids : Binding(i)' => Binding(i) /\ \A h \in Handlers : Busy(h, i)' <=> Busy(h, i)
    PROVE  KidsInv'
<1> SUFFICES ASSUME NEW i \in Ids, Binding(i)'
             PROVE  ghost.kids[i] + Cardinality(Involved(i)') <= Cardinality(Handlers)
  BY DEF KidsInv
<1>1. Involved(i)' = Involved(i)
  BY DEF Involved
<1> QED
  BY <1>1 DEF KidsInv

(* The answer to a request of handler x about token k. *)
LEMMA KidsAnswer ==
    ASSUME ShapeInv, ShapeInv', KidsInv, NEW x \in Actors, SaveOf(x), NEW stale, Answered(x, stale),
           now' = now
    PROVE  KidsInv'
<1> DEFINE k == task[x].id
<1>1. /\ ghost'.given = ghost.given
      /\ ghost'.acked = IF x = Pruner THEN ghost.acked ELSE ghost.acked \cup {k}
      /\ ghost'.kids = [i \in Ids |-> IF task[x].new # 0 /\ i = k
                                      THEN ghost.kids[i] + 1 ELSE ghost.kids[i]]
      /\ task'[x] = Idle /\ \A y \in Actors : y # x => task'[y] = task[y]
  BY DEF Answered, TaskSet
<1>2. x = Pruner => task[x].new = 0
  BY DEF KidsInv
<1>3. task'[Pruner].new = 0
  BY <1>1, Constants, IdleShape DEF KidsInv
<1>4. \A i : Due(i)' <=> Due(i)
  BY <1>1 DEF Due
<1>5. \A i : Involved(i)' = Involved(i) \ {x}
  <2>1. \A i : ~ Busy(x, i)'
    BY <1>1, IdleShape DEF Busy, SaveOf
  <2>2. \A i : \A h \in Handlers : h # x => (Busy(h, i)' <=> Busy(h, i))
    BY <1>1, Constants DEF Busy, SaveOf
  <2> QED
    BY <2>1, <2>2 DEF Involved
<1>6. \A i \in Ids : ghost.kids[i] \in Nat
  BY DEF ShapeInv
<1>7. ASSUME NEW i \in Ids, Binding(i)'
      PROVE  ghost'.kids[i] + Cardinality(Involved(i)') <= Cardinality(Handlers)
  <2>1. i \in ghost'.acked /\ ~ Due(i)
    BY <1>4, <1>7 DEF Binding
  <2>2. ghost.kids[i] + Cardinality(Involved(i)) <= Cardinality(Handlers)
    <3>1. CASE i \in ghost.acked
      BY <2>1, <3>1 DEF KidsInv, Binding
    <3>2. CASE i \notin ghost.acked
      BY <3>2, InvolvedSize DEF KidsInv
    <3> QED
      BY <3>1, <3>2
  <2>3. CASE i = k /\ task[x].new # 0
    <3>1. x \in Involved(i)
      BY <1>2, <2>3 DEF Involved, Busy, Actors
    <3>2. Cardinality(Involved(i) \ {x}) = Cardinality(Involved(i)) - 1
      BY <3>1, InvolvedSize, FS_RemoveElement
    <3>3. ghost'.kids[i] = ghost.kids[i] + 1
      BY <1>1, <2>3
    <3>4. Cardinality(Involved(i)') = Cardinality(Involved(i)) - 1
      BY <1>5, <3>2
    <3>5. /\ Cardinality(Involved(i)) \in Nat /\ Cardinality(Handlers) \in Nat
          /\ ghost.kids[i] \in Nat
      BY <1>6, InvolvedSize
    <3> QED
      BY <2>2, <3>3, <3>4, <3>5
  <2>4. CASE ~ (i = k /\ task[x].new # 0)
    <3>1. x \notin Involved(i)
      BY <2>4 DEF Involved, Busy, SaveOf
    <3>2. ghost'.kids[i] = ghost.kids[i]
      BY <1>1, <2>4
    <3> QED
      BY <1>5, <2>2, <3>1, <3>2
  <2> QED
    BY <2>3, <2>4
<1>8. ASSUME NEW i \in Ids, i \notin ghost'.acked PROVE ghost'.kids[i] = 0
  BY <1>1, <1>2, <1>8 DEF KidsInv
<1> QED
  BY <1>3, <1>7, <1>8 DEF KidsInv

LEMMA KidsCrash ==
    ASSUME ShapeInv, KidsInv, Crash
    PROVE  KidsInv'
<1>1. /\ ghost'.given = [i \in DOMAIN ghost.given |-> ghost.given[i] - Slack]
      /\ ghost'.acked = IF ghost.stale THEN {} ELSE ghost.acked
      /\ ghost'.kids = IF ghost.stale THEN [i \in Ids |-> 0] ELSE ghost.kids
  BY CrashGhost DEF ShapeInv
<1>2. now' = now /\ \A y \in Actors : task'[y] = Idle
  BY DEF Crash
<1>3. task'[Pruner].new = 0
  BY <1>2, Constants, IdleShape
<1>4. \A i : Involved(i)' = {}
  BY <1>2, Constants, IdleShape DEF Involved, Busy, SaveOf
<1>5. ASSUME NEW i \in Ids, Binding(i)'
      PROVE  ghost'.kids[i] + Cardinality(Involved(i)') <= Cardinality(Handlers)
  <2>1. ~ ghost.stale /\ Binding(i)
    <3>1. i \in ghost.acked /\ ~ ghost.stale /\ ~ Due(i)'
      BY <1>1, <1>5 DEF Binding
    <3>2. CASE i \in DOMAIN ghost.given
      <4>1. now \in Int /\ ghost.given[i] \in Int /\ Slack \in Nat
        BY <3>2, FloorBounds DEF ShapeInv, Instants
      <4>2. ~ (now >= ghost.given[i] - Slack)
        BY <1>1, <1>2, <3>1, <3>2 DEF Due
      <4> QED
        BY <3>1, <4>1, <4>2 DEF Binding, Due
    <3>3. CASE i \notin DOMAIN ghost.given
      BY <3>1, <3>3 DEF Binding, Due
    <3> QED
      BY <3>1, <3>2, <3>3
  <2>2. ghost.kids[i] + Cardinality(Involved(i)) <= Cardinality(Handlers)
    BY <2>1 DEF KidsInv
  <2>3. ghost.kids[i] \in Nat /\ ghost'.kids = ghost.kids
    BY <1>1, <2>1 DEF ShapeInv
  <2>4. Cardinality(Involved(i)') = 0
    BY <1>4, FS_EmptySet
  <2> QED
    BY <2>2, <2>3, <2>4, InvolvedSize
<1>6. ASSUME NEW i \in Ids, i \notin ghost'.acked PROVE ghost'.kids[i] = 0
  BY <1>1, <1>6 DEF KidsInv
<1> QED
  BY <1>3, <1>5, <1>6 DEF KidsInv

LEMMA KidsStep ==
    ASSUME AccessInv, AccessInv', KidsInv, Effect
    PROVE  KidsInv'
<1>0. ShapeInv /\ ShapeInv' /\ RefusedInv /\ now \in Nat /\ now' \in Nat /\ Pruner \in Actors
      /\ task[Pruner].new = 0
  BY Constants DEF AccessInv, ShapeInv, KidsInv
<1>1. ASSUME ghost' = ghost, now' >= now, NEW i, Binding(i)' PROVE Binding(i)
  <2>1. i \in ghost.acked /\ i \in DOMAIN ghost.given
    BY <1>0, <1>1 DEF Binding, RefusedInv, PromisesGiven, Promised
  <2>2. ghost.given[i] \in Int
    BY <1>0, <2>1 DEF ShapeInv, Instants
  <2> QED
    BY <1>0, <1>1, <2>1, <2>2 DEF Binding, Due
<1>2. CASE Steady \/ Tick \/ Start
  <2>1. now' >= now /\ task' = task /\ ghost' = ghost
    BY <1>0, <1>2 DEF Steady, Tick, Start
  <2>2. \A i : \A h \in Handlers : Busy(h, i)' <=> Busy(h, i)
    BY <2>1 DEF Busy, SaveOf
  <2> QED
    BY <1>0, <1>1, <2>1, <2>2, KidsSame
<1>3. ASSUME NEW x \in Actors, OpenFile(x) PROVE KidsInv'
  <2>1. now' >= now /\ ghost' = ghost
    BY <1>0, <1>3 DEF OpenFile
  <2> DEFINE r == [task[x] EXCEPT !.at = "write"]
  <2>2. task' = [task EXCEPT ![x] = r] /\ task[x].at = "open"
    BY <1>3 DEF OpenFile
  <2>3. Fields(task[x], TaskFields)
    BY <1>0 DEF ShapeInv, TaskOK
  <2>4. r.at = "write" /\ r.id = task[x].id /\ r.new = task[x].new
    BY <2>3 DEF Fields, TaskFields
  <2> HIDE DEF r
  <2>5. TaskSet(x, r)
    BY <1>0, <2>2, TaskPut
  <2>6. \A i : \A h \in Handlers : Busy(h, i)' <=> Busy(h, i)
    BY <2>2, <2>4, <2>5, Constants DEF TaskSet, Busy, SaveOf
  <2>7. task'[Pruner].new = 0
    BY <1>0, <2>4, <2>5 DEF TaskSet
  <2> QED
    BY <1>1, <2>1, <2>6, <2>7, KidsSame
<1>4. ASSUME NEW x \in Actors, WriteFile(x) \/ SaveFails(x) PROVE KidsInv'
  <2>1. now' = now /\ SaveOf(x)
    BY <1>4 DEF WriteFile, SaveFails, SaveOf
  <2>2. \E stale \in BOOLEAN : Answer(x, stale)
    BY <1>4 DEF WriteFile, SaveFails
  <2>3. PICK stale \in BOOLEAN : Answer(x, stale)
    BY <2>2
  <2>4. Answered(x, stale)
    BY <1>0, <2>3, AnswerFacts
  <2> QED
    BY <1>0, <2>1, <2>4, KidsAnswer
<1>5. ASSUME NEW g \in Handlers, NEW id, AsksMint(g, id) PROVE KidsInv'
  <2>1. /\ now' >= now /\ ghost' = ghost /\ up /\ id \notin DOMAIN revoked
        /\ task[g] = Idle /\ task'[g].id = id
        /\ \A y \in Actors : y # g => task'[y] = task[y]
    BY <1>0, <1>5 DEF AsksMint
  <2>2. \A i : Binding(i) => i # id
    BY <1>0, <2>1, BindingRefused
  <2>3. ASSUME NEW i, i # id, NEW h \in Handlers PROVE Busy(h, i)' <=> Busy(h, i)
    BY <2>1, <2>3, IdleShape, Constants DEF Busy, SaveOf
  <2>4. task'[Pruner].new = 0
    BY <1>0, <2>1, Constants
  <2> QED
    BY <1>1, <2>1, <2>2, <2>3, <2>4, KidsSame
<1>6. ASSUME NEW x \in Actors, NEW entries, NEW id, NEW new, NEW given,
             Saves(x, entries, id, new, given)
      PROVE  KidsInv'
  <2>1. /\ now' = now /\ ghost'.acked = ghost.acked /\ ghost'.kids = ghost.kids
        /\ ghost'.given = given
        /\ task'[x].at = "open" /\ task'[x].id = id /\ task'[x].new = new
        /\ \A y \in Actors : y # x => task'[y] = task[y]
        /\ \/ task[x] = Idle /\ new = 0
           \/ x # Pruner /\ task[x].at = "mint" /\ id = task[x].id /\ new \in Ids
    BY <1>6 DEF Saves, SaveStarted
  <2>2. ASSUME NEW i, NEW h \in Handlers PROVE Busy(h, i)' <=> Busy(h, i)
    BY <2>1, IdleShape, Constants DEF Busy, SaveOf
  <2>3. task'[Pruner].new = 0
    BY <1>0, <2>1
  <2>4. ASSUME NEW i, Binding(i)' PROVE Binding(i)
    <3>1. i \in ghost.acked /\ i \in DOMAIN ghost.given
      BY <1>0, <2>1, <2>4 DEF Binding, RefusedInv, PromisesGiven, Promised
    <3>2. i \in DOMAIN given /\ given[i] <= ghost.given[i] /\ Instants(given)
      BY <1>6, <3>1 DEF Saves, GoodSave
    <3>3. ghost.given[i] \in Int /\ given[i] \in Int
      BY <1>0, <3>1, <3>2 DEF ShapeInv, Instants
    <3> QED
      BY <1>0, <2>1, <2>4, <3>1, <3>2, <3>3 DEF Binding, Due
  <2> QED
    BY <2>1, <2>2, <2>3, <2>4, KidsSame
<1> QED
  BY <1>0, <1>2, <1>3, <1>4, <1>5, <1>6, KidsCrash DEF Effect

(***************************************************************************)
(* Refreshes of one token that overlap may each mint a successor, but for  *)
(* any number of handlers no more than there are handlers, and none after  *)
(* the first was answered and while the revocation holds.                  *)
(***************************************************************************)
THEOREM AccessSuccessors == Spec => []SuccessorsBounded
<1>1. Init => AccessInv /\ KidsInv
  <2>1. Init => AccessInv
    BY ShapeInit, RefusedInit DEF AccessInv
  <2>2. Init => KidsInv
    BY IdleShape, Constants DEF Init, KidsInv, Binding
  <2> QED
    BY <2>1, <2>2
<1>2. AccessInv /\ KidsInv /\ [Next]_vars => (AccessInv /\ KidsInv)'
  BY AccessStep, KidsStep
<1>3. AccessInv /\ KidsInv => SuccessorsBounded
  <2> SUFFICES ASSUME AccessInv, KidsInv, NEW i \in Minted, Binding(i) \/ i \notin ghost.acked
               PROVE  ghost.kids[i] <= Cardinality(Handlers)
    BY DEF SuccessorsBounded
  <2>1. i \in Ids /\ ghost.kids[i] \in Nat
    BY DEF AccessInv, ShapeInv
  <2>2. Cardinality(Involved(i)) \in Nat /\ Cardinality(Handlers) \in Nat
    BY InvolvedSize
  <2>3. CASE Binding(i)
    <3>1. ghost.kids[i] + Cardinality(Involved(i)) <= Cardinality(Handlers)
      BY <2>1, <2>3 DEF KidsInv
    <3> QED
      BY <2>1, <2>2, <3>1
  <2>4. CASE i \notin ghost.acked
    BY <2>1, <2>2, <2>4 DEF KidsInv
  <2> QED
    BY <2>3, <2>4
<1> QED
  BY <1>1, <1>2, <1>3, PTL DEF Spec
=============================================================================
