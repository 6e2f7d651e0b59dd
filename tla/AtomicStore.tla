---------------------------- MODULE AtomicStore ----------------------------
(***************************************************************************)
(* What the engine promises of its durable content, whatever the log looks *)
(* like: each accepted write takes effect as a whole, at one instant, or   *)
(* not at all; a crash only loses writes that have not taken effect.       *)
(***************************************************************************)
EXTENDS Naturals

CONSTANTS Collections, Keys, Bodies, Clients, NoDoc, NoWrite

VARIABLES
    kv,      \* collection -> key -> the document a restart brings back
    write    \* client -> the write it waits for, or NoWrite

vars == <<kv, write>>

(***************************************************************************)
(* put: store these bodies under these keys.  patch: replace the body of a *)
(* document if it exists.  remove: delete these keys.  drop: delete the    *)
(* whole collection.                                                       *)
(***************************************************************************)
Write == [kind : {"put", "patch", "remove", "drop"},
          c    : Collections,
          keys : SUBSET Keys,
          body : UNION {[K -> Bodies] : K \in SUBSET Keys}]

Init ==
    /\ kv = [c \in Collections |-> [k \in Keys |-> NoDoc]]
    /\ write = [p \in Clients |-> NoWrite]

Accept(p) ==
    /\ write[p] = NoWrite
    /\ write'[p] \in Write
    /\ write' = [write EXCEPT ![p] = write'[p]]
    /\ UNCHANGED kv

(* A newer version of `old' with this body; an overwrite keeps its _seq. *)
Succeeds(new, old, body) ==
    /\ new # NoDoc
    /\ new.body = body
    /\ old # NoDoc => new.v > old.v /\ new.seq = old.seq

Effect(w, old, new) ==
    \A k \in Keys :
        CASE k \notin w.keys ->
                new[k] = IF w.kind = "drop" THEN NoDoc ELSE old[k]
          [] k \in w.keys ->
                CASE w.kind = "put"    -> Succeeds(new[k], old[k], w.body[k])
                  [] w.kind = "patch"  -> \/ Succeeds(new[k], old[k], w.body[k])
                                          \/ old[k] = NoDoc /\ new[k] = NoDoc
                  [] OTHER             -> new[k] = NoDoc

TakeEffect(p) ==
    /\ write[p] # NoWrite
    /\ Effect(write[p], kv[write[p].c], kv'[write[p].c])
    /\ \A c \in Collections \ {write[p].c} : kv'[c] = kv[c]
    /\ write' = [write EXCEPT ![p] = NoWrite]

Refuse(p) ==
    /\ write[p] # NoWrite
    /\ write' = [write EXCEPT ![p] = NoWrite]
    /\ UNCHANGED kv

Crash ==
    /\ write' = [p \in Clients |-> NoWrite]
    /\ UNCHANGED kv

Next ==
    \/ \E p \in Clients : Accept(p) \/ TakeEffect(p) \/ Refuse(p)
    \/ Crash

Spec == Init /\ [][Next]_vars

=============================================================================
