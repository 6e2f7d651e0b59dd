--------------------------- MODULE DocumentCodec ---------------------------
(***************************************************************************)
(* Documents as JSON trees and as the MessagePack bytes the engine keeps   *)
(* in memory and in the log: moltendb-core/src/common/                     *)
(* system_field_tokens.rs, and the readers of query.rs that look into the  *)
(* bytes without decoding them.                                            *)
(*                                                                         *)
(* A value is a record [t, n, up, items].  In JSON, t is its type; in      *)
(* MessagePack it is the marker.  The word n is a letter written n times,  *)
(* in upper case when up, so n is its length and one word contains another *)
(* when it is at least as long.  items holds the elements of an array, or  *)
(* the <<key, value>> pairs of a map in the order they are written.        *)
(***************************************************************************)
EXTENDS Integers, SequencesExt

CONSTANT Names   \* every map key in use, in byte order (serde_json's BTreeMap order)

V(t, n, up, items) == [t |-> t, n |-> n, up |-> up, items |-> items]
Missing == V("missing", 0, FALSE, <<>>)   \* Rust's None
Null == V("null", 0, FALSE, <<>>)
Num(n) == V("num", n, FALSE, <<>>)
Bool(b) == V("bool", IF b THEN 1 ELSE 0, FALSE, <<>>)
Str(n, up) == V("str", n, up, <<>>)
Arr(s) == V("arr", 0, FALSE, s)
Obj(pairs) == V("obj", 0, FALSE, pairs)

(* SystemFields: public name -> IKEY string, which is also how a token byte is written here. *)
Token == ("_v" :> "-1") @@ ("_key" :> "-2") @@ ("_seq" :> "-3") @@ ("_createdAt" :> "-4")
         @@ ("_modifiedAt" :> "-5") @@ ("_expiresAt" :> "-6")
Tokens == Range(Token)
Public(k) == CHOOSE f \in DOMAIN Token : Token[f] = k
-----------------------------------------------------------------------------
(* serde_json's Map: value.get(k), and an object from its fields. *)
Keys0(obj) == {obj.items[i][1] : i \in DOMAIN obj.items}
Get(v, k) ==
    IF v.t = "obj" /\ k \in Keys0(v)
    THEN v.items[CHOOSE i \in DOMAIN v.items : v.items[i][1] = k][2]
    ELSE Missing
MkObj(f) ==
    LET present == SelectSeq(Names, LAMBDA k : k \in DOMAIN f)
    IN  Obj([i \in DOMAIN present |-> <<present[i], f[present[i]]>>])
With(obj, k, v) == MkObj([x \in Keys0(obj) \cup {k} |-> IF x = k THEN v ELSE Get(obj, x)])
Without(obj, k) == MkObj([x \in Keys0(obj) \ {k} |-> Get(obj, x)])

(* get_nested_value *)
GetNestedValue(doc, path) == FoldLeft(Get, doc, path)
-----------------------------------------------------------------------------
(* Encoding. *)
WriteMapKey(k) == IF k \in DOMAIN Token THEN Token[k] ELSE k

(* write_number: the marker by range and the payload at its width. *)
NumMarker(n) ==
    CASE n \in 0..127 -> "fixpos" [] n \in 128..255 -> "u8" [] n \in 256..65535 -> "u16"
      [] n > 65535 -> "u32"
      [] n \in -32..-1 -> "fixneg" [] n \in -128..-33 -> "i8" [] n \in -32768..-129 -> "i16"
      [] n < -32768 -> "i32"
Width(m) ==
    CASE m \in {"fixpos", "fixneg", "u8", "i8", "str8"} -> 256
      [] m \in {"u16", "i16", "str16"} -> 65536
      [] m = "fixstr" -> 32
WriteNumber(n) ==
    LET m == NumMarker(n)
    IN  V(m, IF m \in {"u32", "i32"} THEN n ELSE n % Width(m), FALSE, <<>>)

(* write_str: the header by length. *)
WriteStr(v) ==
    LET m == IF v.n < 32 THEN "fixstr" ELSE IF v.n < 256 THEN "str8" ELSE "str16"
    IN  V(m, v.n % Width(m), v.up, <<>>)

RECURSIVE WriteValue(_)
WriteValue(v) ==
    CASE v.t = "num" -> WriteNumber(v.n)
      [] v.t = "str" -> WriteStr(v)
      [] v.t = "arr" -> V("array", 0, FALSE, [i \in DOMAIN v.items |-> WriteValue(v.items[i])])
      [] v.t = "obj" -> V("map", 0, FALSE, [i \in DOMAIN v.items |->
                            <<WriteMapKey(v.items[i][1]), WriteValue(v.items[i][2])>>])
      [] OTHER -> v

(* Decoding. *)
Unsigned == {"fixpos", "u8", "u16", "u32"}
Signed == {"fixneg", "i8", "i16", "i32"}
IsNumber(b) == b.t \in Unsigned \cup Signed
IsStr(b) == b.t \in {"fixstr", "str8", "str16"}

(* read_msgpack_number: the payload, sign-extended. *)
ReadNumber(b) == IF b.t \in Signed \ {"i32"} THEN b.n - Width(b.t) ELSE b.n

(* Fault: a repeated key keeps its first value. *)
ReadMapFirst(pairs) ==
    MkObj([k \in {pairs[i][1] : i \in DOMAIN pairs} |->
              pairs[Min({i \in DOMAIN pairs : pairs[i][1] = k})][2]])

(* read_map: keys come back as IKEY strings, a repeated key keeps its last value. *)
ReadMap(pairs) ==
    MkObj([k \in {pairs[i][1] : i \in DOMAIN pairs} |->
              pairs[Max({i \in DOMAIN pairs : pairs[i][1] = k})][2]])

RECURSIVE ReadValue(_)
ReadValue(b) ==
    CASE IsNumber(b) -> Num(ReadNumber(b))
      [] IsStr(b) -> Str(b.n, b.up)
      [] b.t = "array" -> Arr([i \in DOMAIN b.items |-> ReadValue(b.items[i])])
      [] b.t = "map" -> ReadMap([i \in DOMAIN b.items |->
                            <<b.items[i][1], ReadValue(b.items[i][2])>>])
      [] OTHER -> b

(* expand_system_fields, at every depth *)
RECURSIVE ExpandSystemFields(_)
ExpandSystemFields(v) ==
    CASE v.t = "obj" ->
            MkObj([k \in {IF x \in Tokens THEN Public(x) ELSE x : x \in Keys0(v)} |->
                ExpandSystemFields(Get(v, IF k \in DOMAIN Token THEN Token[k] ELSE k))])
      [] v.t = "arr" -> Arr([i \in DOMAIN v.items |-> ExpandSystemFields(v.items[i])])
      [] OTHER -> v
-----------------------------------------------------------------------------
(* Readers of raw bytes. *)
(* The value of the first pair of a map whose key is k. *)
FirstPair(b, k) ==
    LET at == {i \in DOMAIN b.items : b.items[i][1] = k}
    IN  IF b.t # "map" \/ at = {} THEN Missing ELSE b.items[Min(at)][2]

(* find_msgpack_value: token keys never match a path segment. *)
FindMsgpackValue(b, path) ==
    FoldLeft(LAMBDA cur, seg : IF seg \in Tokens THEN Missing ELSE FirstPair(cur, seg), b, path)

(* read_token_u64: the first occurrence of the token, if an unsigned integer. *)
ReadTokenU64(b, token) ==
    LET v == FirstPair(b, token) IN IF v.t \in Unsigned THEN Num(ReadNumber(v)) ELSE Missing

(* Fault: system fields are looked up by their names. *)
SystemFieldNone(b, path) == Missing

(* read_msgpack_system_field_u64 *)
SystemFieldU64(b, path) ==
    IF Len(path) = 1 /\ path[1] \in DOMAIN Token \ {"_key"}
    THEN ReadTokenU64(b, Token[path[1]])
    ELSE Missing
-----------------------------------------------------------------------------
(* Projection and exclusion on decoded documents. *)
RECURSIVE InsertNestedValue(_, _, _)
InsertNestedValue(target, path, v) ==
    LET child == Get(target, path[1])
        next == IF child = Missing THEN Obj(<<>>) ELSE child
    IN  IF Len(path) = 1 THEN With(target, path[1], v)
        ELSE With(target, path[1],
                  IF next.t = "obj" THEN InsertNestedValue(next, Tail(path), v) ELSE next)

RECURSIVE RemoveNestedValue(_, _)
RemoveNestedValue(target, path) ==
    LET child == Get(target, path[1])
        left == IF child.t = "obj" THEN RemoveNestedValue(child, Tail(path)) ELSE child
    IN  CASE Len(path) = 1 -> Without(target, path[1])
          [] child = Missing -> target
          [] left.t = "obj" /\ left.items = <<>> -> Without(target, path[1])
          [] OTHER -> With(target, path[1], left)

(* project *)
Project(doc, paths) ==
    FoldLeft(LAMBDA out, p : IF GetNestedValue(doc, p) = Missing THEN out
                             ELSE InsertNestedValue(out, p, GetNestedValue(doc, p)),
             Obj(<<>>), paths)

(* exclude *)
Exclude(doc, paths) == FoldLeft(RemoveNestedValue, doc, paths)

(* The scalars of a document with their paths: what projection is about. *)
RECURSIVE Leaves(_)
Leaves(v) ==
    IF v.t = "obj"
    THEN UNION {{<<<<k>> \o l[1], l[2]>> : l \in Leaves(Get(v, k))} : k \in Keys0(v)}
    ELSE {<<<<>>, v>>}

=============================================================================
