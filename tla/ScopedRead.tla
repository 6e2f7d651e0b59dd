----------------------------- MODULE ScopedRead -----------------------------
(***************************************************************************)
(* Reads under the scopes of a token: moltendb-auth/src/types.rs, hmac.rs, *)
(* and the read handlers of moltendb-server/src/route_handlers.rs in front *)
(* of module GetQuery.                                                     *)
(*                                                                         *)
(* A scope "action:collection:key" is [act, col, kind, n]: kind "any" for  *)
(* the key "*", "prefix" for one that ends in it, "key" for a plain key.   *)
(***************************************************************************)
EXTENDS GetQuery

CONSTANTS
    ThisCol,     \* the collection of module GetQuery
    ScopeLists   \* the scopes of the tokens in use: sets of scopes

Scope(act, c, kind, n) == [act |-> act, col |-> c, kind |-> kind, n |-> n]
AdminScope == Scope("*", "*", "any", 0)
AnyKey == 0   \* "*" in the place of a document key

(* key_matches *)
KeyMatches(s, k) ==
    CASE s.kind = "any" -> TRUE
      [] s.kind = "prefix" -> k # AnyKey /\ HasPrefix(k, {s.n})
      [] s.kind = "key" -> k = s.n

(* Claims::has_access, has_collection_access, is_admin *)
Covers(s, act) == s.act = act /\ s.col \in {"*", ThisCol}
HasAccess(scopes, act, k) == \E s \in scopes : s = AdminScope \/ (Covers(s, act) /\ KeyMatches(s, k))
HasCollectionAccess(scopes, act) == HasAccess(scopes, act, AnyKey)


(* Claims::allowed_keys *)
AllowedKeys(scopes, act) == {s.n : s \in {s \in scopes : Covers(s, act) /\ s.kind = "key"}}

(* Claims::extract_prefixes and has_prefix_wildcard *)
ExtractPrefixes(scopes, act) ==
    IF AdminScope \in scopes THEN {}
    ELSE {s.n : s \in {s \in scopes : Covers(s, act) /\ s.kind = "prefix"}}
HasPrefixWildcard(scopes, act) == \E s \in scopes : Covers(s, act) /\ s.kind = "prefix"
-----------------------------------------------------------------------------
Forbidden == {Status(403)}

(* handle_get: whether the token has no business here, or names a key it may not read; *)
(* else the payload as it is, limited to the token's prefixes, or to its keys.           *)
Refused(scopes, q) ==
    /\ ~HasCollectionAccess(scopes, "read")
    /\ \/ AllowedKeys(scopes, "read") = {}
       \/ q.keys # "all" /\ \E k \in q.ks : ~HasAccess(scopes, "read", k)
Narrowed(scopes, q) ==
    CASE HasCollectionAccess(scopes, "read") \/ q.keys # "all" -> q
      [] q.keys = "all" /\ ~HasCollectionAccess(scopes, "read") /\ HasPrefixWildcard(scopes, "read") ->
            [q EXCEPT !.prefixes = ExtractPrefixes(scopes, "read")]
      [] OTHER -> [q EXCEPT !.keys = "many", !.ks = AllowedKeys(scopes, "read")]
HandleGet(scopes, q) ==
    IF Refused(scopes, q) THEN Forbidden ELSE ProcessGet(Narrowed(scopes, q))

(* handle_rest_get and handle_rest_get_collection *)
HandleRestGet(scopes, k) ==
    IF ~HasAccess(scopes, "read", k) THEN Forbidden
    ELSE ProcessGet([Query(NoClause, {}, FALSE, <<>>, FALSE, <<0, 100>>) EXCEPT !.keys = "one", !.ks = {k}])
HandleRestGetCollection(scopes, page) ==
    IF ~HasCollectionAccess(scopes, "read") THEN Forbidden
    ELSE ProcessGet(Query(NoClause, {}, FALSE, <<>>, FALSE, page))
-----------------------------------------------------------------------------
Readable(scopes) == {k \in DocKeys : written[k] # Missing /\ HasAccess(scopes, "read", k)}
ScopedSorts == {<<>>} \cup {s \in Sorts : Len(s) = 1 /\ s[1].desc}
Granted(scopes) == \E s \in scopes : s = AdminScope \/ Covers(s, "read")
ByPrefix(scopes) == ~HasCollectionAccess(scopes, "read") /\ HasPrefixWildcard(scopes, "read")


(* A get without keys returns all the documents the token may read, also   *)
(* to a token that reads by prefix (handle_get's scope rules and the       *)
(* comment on its prefix gatekeeper; README.md, document-level access).    *)
ScopedReadComplete ==
    \A scopes \in {s \in ScopeLists : Readable(s) # {}} :
        \A answer \in HandleGet(scopes, Query(NoClause, {}, FALSE, <<>>, FALSE, <<0, Cardinality(DocKeys)>>)) :
            Range(KeysOf(answer)) = Readable(scopes)

=============================================================================
