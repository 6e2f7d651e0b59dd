------------------------------- MODULE Access -------------------------------
(***************************************************************************)
(* Admission of requests: the rate limiter (moltendb-server/src/           *)
(* rate_limit.rs), the tokens and the revocation store (moltendb-auth) and *)
(* the handlers that change them (route_handlers.rs: delegate, refresh,    *)
(* revoke; ws.rs), with the store's file, the background tasks of main.rs, *)
(* crashes and restarts.                                                   *)
(*                                                                         *)
(* Time counts ticks, Sec of them to a second: an Instant is a tick, what  *)
(* the code keeps in unix seconds is cut down to a whole one.  Configured  *)
(* times are whole seconds.  All requests come from one address (the       *)
(* limiter keeps addresses apart).  Token 1 is an admin's, from a login    *)
(* before the start, and token 2 a client's; tokens are minted with the    *)
(* next id.                                                                *)
(* A step of a handler ends where another task can come in between: before *)
(* the mint of a refresh and at the two system calls of a save.            *)
(***************************************************************************)
EXTENDS Integers, SequencesExt

CONSTANTS
    Handlers, Sockets, Pruner,
    Ids,             \* jtis: 1..n
    Sec,             \* ticks to a second
    Ttls,            \* times to live of the client's first token
    Menu,            \* what clients ask for: [kind, id, ttl] or [kind, id, target, exp]
    RevokeTtl,       \* DEFAULT_REVOKE_TTL_SECS
    Leeway,          \* jsonwebtoken's default tolerance for exp
    Limit, Window,   \* the limiter's max_requests and window
    Grace,           \* how much longer cleanup keeps timestamps
    MaxTime, MaxRequests, MaxPrunes, MaxRestarts   \* bounds

ASSUME AccessAssumption ==
    /\ Ttls \subseteq Nat
    /\ {RevokeTtl, Leeway, Limit, Window, Grace} \subseteq Nat
    /\ Limit > 0    \* check_rate_limit panics on a limit of 0
    /\ Sec \in Nat /\ Sec > 0
    /\ {MaxTime, MaxRequests, MaxPrunes, MaxRestarts} \subseteq Nat
    /\ IsFiniteSet(Handlers) /\ Pruner \notin Handlers
    /\ IsFiniteSet(Ids) /\ Ids = 1..Cardinality(Ids) /\ 2 \in Ids
    /\ \A r \in Menu : r.kind \in {"delegate", "refresh"} => r.ttl \in Nat

VARIABLES
    now, up,
    tokens,     \* minted id -> [exp, admin]
    revoked,    \* RevocationStore: id -> when it may be pruned
    file,       \* [ok, entries] of the revocations file; ok when its signature verifies
    task,       \* handler or pruner -> [at, id, ttl, new, snap]
    table,      \* the limiter's timestamps of the address
    sock,       \* socket -> id of its token, 0 when closed
    send,       \* what a socket's task is sending: "none", "event" or "bye"
    passed,     \* ghost: when the limiter let requests pass, in the last Window
    ghost,      \* ghost: acked, given, kids, alone, stale, see below
    spent       \* requests, prunes and restarts so far

socket == <<sock, send>>
vars == <<now, up, tokens, revoked, file, task, table, socket, passed, ghost, spent>>

(***************************************************************************)
(* told: ids whose revocation was answered; acked: those of them that the  *)
(* file held at the last crash, or answered since; given: id -> earliest   *)
(* deadline a revocation gave, less Slack for each crash; kids: id ->      *)
(* successors handed out; alone: tasks whose save has met no other; stale: *)
(* the file may lack entries, since saves overlapped or failed.            *)
(***************************************************************************)
Actors == Handlers \cup {Pruner}
Idle == [at |-> "idle", id |-> 0, ttl |-> 0, new |-> 0, snap |-> <<>>]
Minted == DOMAIN tokens
Saving == {x \in Actors : task[x].at \in {"open", "write"}}
Without(f, dom) == [x \in DOMAIN f \ dom |-> f[x]]
Put(f, i, v) == [x \in DOMAIN f \cup {i} |-> IF x = i THEN v ELSE f[x]]

(* as_secs() of an instant or a duration. *)
Floor(t) == t - (t % Sec)
-----------------------------------------------------------------------------
(* verify_token, after jsonwebtoken's validation, and is_revoked. *)
VerifyToken(i) == tokens[i].exp + Leeway >= Floor(now)
IsRevoked(i) == i \in DOMAIN revoked

(* auth_middleware *)
Admitted(i) == VerifyToken(i) /\ ~IsRevoked(i)

(* Vec::retain of the timestamps after cutoff. *)
Retain(s, cutoff) ==
    FoldLeft(LAMBDA kept, t : IF t > cutoff THEN Append(kept, t) ELSE kept, <<>>, s)

(* check_rate_limit; ok is what the request does when it is let in, else it is answered 429. *)
Recent == Retain(table, now - Window)
CheckRateLimit(ok) ==
    /\ up /\ spent.requests < MaxRequests
    /\ spent' = [spent EXCEPT !.requests = @ + 1]
    /\ IF Len(Recent) >= Limit
       THEN table' = Recent /\ UNCHANGED <<tokens, revoked, task, socket, passed, ghost>>
       ELSE table' = Append(Recent, now) /\ passed' = Append(passed, now) /\ ok
    /\ UNCHANGED <<now, up, file>>

(* Fault: cleanup forgets requests that are still in the window. *)
CleanupAll ==
    /\ up /\ table # <<>>
    /\ table' = <<>>
    /\ UNCHANGED <<now, up, tokens, revoked, file, task, socket, passed, ghost, spent>>

(* RateLimiter::cleanup *)
Cleanup ==
    /\ up /\ table # <<>>
    /\ table' = Retain(table, now - Window - Grace)
    /\ UNCHANGED <<now, up, tokens, revoked, file, task, socket, passed, ghost, spent>>
-----------------------------------------------------------------------------
(* create_scoped_token: exp in unix seconds. *)
NewId == Cardinality(Minted) + 1
Mint(ttl) == tokens' = Put(tokens, NewId, [exp |-> Floor(now) + ttl, admin |-> FALSE])

(* handle_delegate, for admins. *)
Delegate(r) ==
    /\ r.kind = "delegate" /\ NewId \in Ids
    /\ CheckRateLimit(/\ IF Admitted(r.id) /\ tokens[r.id].admin THEN Mint(r.ttl)
                         ELSE UNCHANGED tokens
                      /\ UNCHANGED <<revoked, task, socket, ghost>>)

(* RevocationStore::revoke, which replaces an entry already there, and the snapshot *)
(* save_to_file takes: the unix second of now plus the whole seconds that remain.   *)
Clamped(entries) ==
    [i \in DOMAIN entries |->
        Floor(now) + IF entries[i] > now THEN Floor(entries[i] - now) ELSE 0]
StartSave(x, entries, id, new, given) ==
    /\ revoked' = entries
    /\ task' = [task EXCEPT ![x] = [Idle EXCEPT !.at = "open", !.id = id, !.new = new,
                                                !.snap = Clamped(entries)]]
    /\ ghost' = [ghost EXCEPT !.given = given,
                              !.alone = IF Saving = {} THEN {x} ELSE {},
                              !.stale = @ \/ Saving # {}]
Revoke(x, i, until, new) ==
    LET sooner == i \in DOMAIN ghost.given /\ ghost.given[i] < until IN
    StartSave(x, Put(revoked, i, until), i, new,
              IF sooner THEN ghost.given ELSE Put(ghost.given, i, until))

(* The next request takes a free handler; which of them makes no difference. *)
Takes(h) == task[h] = Idle /\ h = CHOOSE x \in Handlers : task[x] = Idle

(* handle_refresh: auth_middleware, then refresh_scoped_token up to its check of the store. *)
Refresh(h, r) ==
    /\ r.kind = "refresh" /\ Takes(h) /\ NewId \in Ids
    /\ CheckRateLimit(/\ task' = IF Admitted(r.id) /\ ~tokens[r.id].admin
                                 THEN [task EXCEPT ![h] = [Idle EXCEPT !.at = "mint", !.id = r.id,
                                                                       !.ttl = r.ttl]]
                                 ELSE task
                      /\ UNCHANGED <<tokens, revoked, socket, ghost>>)

(* Fault: the new id is revoked and the old token stays in use. *)
RefreshMintWrong(h) ==
    /\ task[h].at = "mint" /\ NewId \in Ids
    /\ Mint(task[h].ttl)
    /\ StartSave(h, Put(revoked, NewId, now + task[h].ttl), task[h].id, NewId, ghost.given)
    /\ UNCHANGED <<now, up, file, table, socket, passed, spent>>

(* ... then mint the new token and revoke the old one for the new token's time. *)
RefreshMint(h) ==
    /\ task[h].at = "mint" /\ NewId \in Ids
    /\ Mint(task[h].ttl)
    /\ Revoke(h, task[h].id, now + task[h].ttl, NewId)
    /\ UNCHANGED <<now, up, file, table, socket, passed, spent>>

(* handle_revoke: until the exp of the payload, or RevokeTtl from now when there is none. *)
HandleRevoke(h, r) ==
    /\ r.kind = "revoke" /\ Takes(h) /\ r.target \in Minted
    /\ LET exp == tokens[r.target].exp
           until == IF ~r.exp THEN now + RevokeTtl
                    ELSE IF exp > Floor(now) THEN now + (exp - Floor(now)) ELSE now
       IN  CheckRateLimit(/\ IF Admitted(r.id) /\ tokens[r.id].admin
                             THEN Revoke(h, r.target, until, 0)
                             ELSE UNCHANGED <<revoked, task, ghost>>
                          /\ UNCHANGED <<tokens, socket>>)

(* Fault: prune keeps the entries whose time has come and drops the others. *)
PruneLive ==
    /\ up /\ task[Pruner] = Idle /\ spent.prunes < MaxPrunes
    /\ StartSave(Pruner, Without(revoked, {i \in DOMAIN revoked : revoked[i] > now}), 0, 0, ghost.given)
    /\ spent' = [spent EXCEPT !.prunes = @ + 1]
    /\ UNCHANGED <<now, up, tokens, file, table, socket, passed>>

(* The background task: prune, then save. *)
Prune ==
    /\ up /\ task[Pruner] = Idle /\ spent.prunes < MaxPrunes
    /\ StartSave(Pruner, Without(revoked, {i \in DOMAIN revoked : revoked[i] <= now}), 0, 0, ghost.given)
    /\ spent' = [spent EXCEPT !.prunes = @ + 1]
    /\ UNCHANGED <<now, up, tokens, file, table, socket, passed>>
-----------------------------------------------------------------------------
(* tokio::fs::write empties the file ... *)
OpenFile(x) ==
    /\ task[x].at = "open"
    /\ file' = [ok |-> FALSE, entries |-> <<>>]
    /\ task' = [task EXCEPT ![x].at = "write"]
    /\ UNCHANGED <<now, up, tokens, revoked, table, socket, passed, ghost, spent>>

(* The response of x: the revocation and the new token are known to the client. *)
Answer(x, stale) ==
    /\ task' = [task EXCEPT ![x] = Idle]
    /\ ghost' = [ghost EXCEPT
           !.acked = IF x = Pruner THEN @ ELSE @ \cup {task[x].id},
           !.told = IF x = Pruner THEN @ ELSE @ \cup {task[x].id},
           !.kids = [i \in Ids |-> IF task[x].new # 0 /\ i = task[x].id THEN @[i] + 1 ELSE @[i]],
           !.alone = @ \ {x},
           !.stale = stale]

(* Whether the signature will verify: save_to_file signs the entries in the order of a *)
(* HashMap, and load_from_file verifies them in the order of their keys.               *)
Verifies(entries) == IF Cardinality(DOMAIN entries) <= 1 THEN {TRUE} ELSE BOOLEAN

(* ... and writes it; over a longer text another save left in between, the end stays. *)
WriteFile(x) ==
    /\ task[x].at = "write"
    /\ IF Cardinality(DOMAIN file.entries) > Cardinality(DOMAIN task[x].snap)
       THEN file' = [file EXCEPT !.ok = FALSE]
       ELSE file' \in [ok : Verifies(task[x].snap), entries : {task[x].snap}]
    /\ Answer(x, ghost.stale /\ x \notin ghost.alone)
    /\ UNCHANGED <<now, up, tokens, revoked, table, socket, passed, spent>>

(* A save that fails, before the file is emptied or with some of the text written, is *)
(* reported on stderr only.                                                           *)
SaveFails(x) ==
    /\ \/ task[x].at = "open" /\ UNCHANGED file
       \/ task[x].at = "write" /\ file' \in [ok : {FALSE}, entries : {file.entries, task[x].snap}]
    /\ Answer(x, TRUE)
    /\ UNCHANGED <<now, up, tokens, revoked, table, socket, passed, spent>>
-----------------------------------------------------------------------------
(* ws_handler and the AUTH frame of handle_socket. *)
Connect(s, r) ==
    /\ r.kind = "connect" /\ sock[s] = 0
    /\ CheckRateLimit(/\ sock' = IF Admitted(r.id) THEN [sock EXCEPT ![s] = r.id] ELSE sock
                      /\ UNCHANGED <<tokens, revoked, task, send, ghost>>)

SendTask(s, what) ==
    /\ send' = [send EXCEPT ![s] = what]
    /\ UNCHANGED <<now, up, tokens, revoked, file, task, table, sock, passed, ghost, spent>>

Close(s) ==
    /\ sock' = [sock EXCEPT ![s] = 0]
    /\ send' = [send EXCEPT ![s] = "none"]
    /\ UNCHANGED <<now, up, tokens, revoked, file, task, table, passed, ghost, spent>>

(* The send task takes a change event for the client and awaits its sending ... *)
Event(s) == sock[s] # 0 /\ send[s] = "none" /\ SendTask(s, "event")

(* Fault: the socket looks at the expiry in place of the store. *)
RevocationCheckExpiry(s) ==
    sock[s] # 0 /\ send[s] = "none" /\ ~VerifyToken(sock[s]) /\ SendTask(s, "bye")

(* ... or its timer goes off and the token is revoked: the client is told. *)
RevocationCheck(s) ==
    sock[s] # 0 /\ send[s] = "none" /\ IsRevoked(sock[s]) /\ SendTask(s, "bye")

(* The client reads what is being sent. *)
Sent(s) ==
    \/ send[s] = "event" /\ SendTask(s, "none")
    \/ send[s] = "bye" /\ Close(s)

(* The client goes away. *)
Leave(s) == sock[s] # 0 /\ Close(s)

Tick ==
    /\ now < MaxTime
    /\ now' = now + 1
    /\ passed' = Retain(passed, now' - Window)
    /\ UNCHANGED <<up, tokens, revoked, file, task, table, socket, ghost, spent>>

(* What a reload may take from a deadline: the fraction of a second cut off when it was *)
(* saved, and that of the second in which it was.                                       *)
Slack == 2 * (Sec - 1)

(* What the file did not hold is excused: acked and kids start again when it was stale. *)
Crash ==
    /\ up /\ spent.restarts < MaxRestarts
    /\ up' = FALSE
    /\ revoked' = <<>> /\ table' = <<>> /\ passed' = <<>>
    /\ task' = [x \in Actors |-> Idle]
    /\ sock' = [s \in Sockets |-> 0] /\ send' = [s \in Sockets |-> "none"]
    /\ ghost' = [ghost EXCEPT !.alone = {}, !.stale = FALSE,
                              !.given = [i \in DOMAIN @ |-> @[i] - Slack],
                              !.acked = IF ghost.stale THEN {} ELSE @,
                              !.kids = IF ghost.stale THEN [i \in Ids |-> 0] ELSE @]
    /\ spent' = [spent EXCEPT !.restarts = @ + 1]
    /\ UNCHANGED <<now, tokens, file>>

(* load_from_file: a file that does not verify stops the start. *)
Start ==
    /\ ~up /\ file.ok
    /\ up' = TRUE
    /\ revoked' = [i \in {e \in DOMAIN file.entries : file.entries[e] > Floor(now)} |->
                     now + (file.entries[i] - Floor(now))]
    /\ UNCHANGED <<now, tokens, file, task, table, socket, passed, ghost, spent>>
-----------------------------------------------------------------------------
Init ==
    /\ now = 0 /\ up = TRUE
    /\ \E ttl \in Ttls : tokens = <<[exp |-> Floor(MaxTime), admin |-> TRUE], [exp |-> ttl, admin |-> FALSE]>>
    /\ revoked = <<>> /\ file = [ok |-> TRUE, entries |-> <<>>]
    /\ task = [x \in Actors |-> Idle]
    /\ table = <<>> /\ passed = <<>>
    /\ sock = [s \in Sockets |-> 0] /\ send = [s \in Sockets |-> "none"]
    /\ ghost = [told |-> {}, acked |-> {}, given |-> <<>>, kids |-> [i \in Ids |-> 0], alone |-> {},
                stale |-> FALSE]
    /\ spent = [requests |-> 0, restarts |-> 0, prunes |-> 0]

Next ==
    \/ Cleanup \/ Prune \/ Tick \/ Crash \/ Start
    \/ \E r \in Menu : \/ Delegate(r)
                       \/ \E h \in Handlers : Refresh(h, r) \/ HandleRevoke(h, r)
                       \/ \E s \in Sockets : Connect(s, r)
    \/ \E h \in Handlers : RefreshMint(h)
    \/ \E x \in Actors : OpenFile(x) \/ WriteFile(x) \/ SaveFails(x)
    \/ \E s \in Sockets : RevocationCheck(s) \/ Event(s) \/ Sent(s) \/ Leave(s)

(* The timer of every open socket goes off again and again; select! takes one of the *)
(* branches that are ready at random, so it does not always take the event.           *)
Spec == Init /\ [][Next]_vars /\ \A s \in Sockets : SF_vars(RevocationCheck(s))
-----------------------------------------------------------------------------
(* Whether the answered revocation of i still has to hold. *)
Due(i) == i \in DOMAIN ghost.given /\ now >= ghost.given[i]
Binding(i) == i \in ghost.acked /\ ~Due(i)

(* A request or a socket is admitted with token i. *)
Admits(i) ==
    \/ \E h \in Handlers : task[h] = Idle /\ task'[h].at = "mint" /\ task'[h].id = i
    \/ \E s \in Sockets : sock[s] # i /\ sock'[s] = i

(* After the response to a revocation or a refresh, no request and no      *)
(* socket is admitted with the old token before the deadline given to the  *)
(* store, less the fractions of seconds each restart takes from it,        *)
(* whatever is pruned, saved or restarted meanwhile, provided the last     *)
(* save met no other save and did not fail (auth_middleware, prune,        *)
(* save_to_file, load_from_file).                                          *)
RefusedUntilDeadline == [][\A i \in Minted : Binding(i) => ~Admits(i)]_vars

(* Whatever the deadline: "Once revoked, the token is rejected by          *)
(* auth_middleware on every subsequent request" (route_handlers.rs:553),   *)
(* "even after a crash or restart" (README.md:121).  It does not hold: the *)
(* deadline of a refresh is the new token's, and a failed save is answered *)
(* like any other.                                                         *)
RefusedForGood == [][\A i \in ghost.told : ~Admits(i)]_vars

(* Of a token at most as many successors are handed out as requests can be *)
(* in flight at once: refreshes that overlap may each mint one, a refresh  *)
(* after the response to another never does (refresh_scoped_token).        *)
SuccessorsBounded ==
    \A i \in Minted : Binding(i) \/ i \notin ghost.acked => ghost.kids[i] <= Cardinality(Handlers)

(* No successor is minted once a refresh was answered, "so the old token   *)
(* cannot be replayed after a successful refresh" (token.rs:115).  It does *)
(* not hold of refreshes that overlap: the check of the store and the mint *)
(* are apart.                                                              *)
NoSuccessorAfterAnswer ==
    [][\A h \in Handlers :
          task[h].at = "mint" /\ task'[h].at = "open" => ~Binding(task[h].id)]_vars

(* A request passes the limiter exactly if fewer than Limit requests       *)
(* passed in the window that ends now, whatever cleanup removed            *)
(* (check_rate_limit, cleanup).                                            *)
RateExact ==
    [][spent'.requests # spent.requests =>
          (Len(passed') > Len(passed)) = (Len(passed) < Limit)]_vars

(* The client of s reads all that is sent to it. *)
Reads(s) == []<>(send[s] = "none")

(* If its client goes on reading, a socket does not stay open with a token *)
(* whose revocation is in the store: it is told and closed, unless the     *)
(* entry leaves the store first, however many events compete with the      *)
(* timer (handle_socket).                                                  *)
RevokedSocketCloses ==
    \A s \in Sockets : Reads(s) => []<>(sock[s] = 0 \/ ~IsRevoked(sock[s]))

(* The same whatever happens to the entry: "the server will detect this    *)
(* within 30 seconds, send a token_revoked error, and close the            *)
(* connection" (docs/api-reference.md:1060).  It does not hold: the timer  *)
(* asks the store, from which an entry is pruned that has little time left.*)
RevokedSocketAlwaysCloses ==
    \A s \in Sockets : Reads(s) => ((sock[s] # 0 /\ IsRevoked(sock[s])) ~> (sock[s] = 0))

(* "a revoked JWT remains revoked even after a crash or restart": when the *)
(* last save met no other one and did not fail, the next start loads it.   *)
RevocationsReload == Saving = {} /\ ~ghost.stale => file.ok

=============================================================================
