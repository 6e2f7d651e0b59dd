---------------------------- MODULE WhereClause ----------------------------
(***************************************************************************)
(* The two evaluators of a WHERE clause: on MessagePack bytes              *)
(* (evaluate_predicate_msgpack, evaluate_where_msgpack) and on the decoded *)
(* document (evaluate_where), moltendb-core/src/query.rs, with the flat    *)
(* list of fast predicates of handlers/get/fetch.rs.                       *)
(*                                                                         *)
(* A clause is a tree: [k |-> "is", path, val] for {field: value},         *)
(* [k |-> "op", path, op, val] for {field: {op: value}}, and [k, subs] for *)
(* "list" (an array of clauses, or the entries of one object), "and"       *)
(* ($and) and "or" ($or).  The result on a document is "yes", "no", or     *)
(* "none" on bytes and "error" on values for what cannot be evaluated.     *)
(***************************************************************************)
EXTENDS DocumentCodec

Is(path, val) == [k |-> "is", path |-> path, val |-> val]
Op(path, op, val) == [k |-> "op", path |-> path, op |-> op, val |-> val]
List(subs) == [k |-> "list", subs |-> subs]
And(subs) == [k |-> "and", subs |-> subs]
Or(subs) == [k |-> "or", subs |-> subs]

Ranges == {"gt", "gte", "lt", "lte"}
Operators == Ranges \cup {"eq", "ne", "in", "nin", "ct"}   \* WhereOperator, aliases folded

Yes(b) == IF b THEN "yes" ELSE "no"
Compare(op, a, b) ==
    CASE op = "gt" -> a > b [] op = "gte" -> a >= b [] op = "lt" -> a < b
      [] op = "lte" -> a <= b [] op = "eq" -> a = b [] op = "ne" -> a # b

(* Case-insensitive equality of two strings, by length: to_lowercase on both sides. *)
SameWord(a, b) == a.n = b.n
HasWord(a, b) == a.n >= b.n
-----------------------------------------------------------------------------
(* evaluate_predicate_msgpack on a system field: the operand as a u64. *)
AsU64(v) == IF v.n < 0 THEN 0 ELSE v.n
SystemPredicate(sys, op, val) ==
    IF val.t # "num" \/ op \notin Ranges \cup {"eq", "ne"} THEN "none"
    ELSE Yes(Compare(op, sys.n, AsU64(val)))

(* $eq and $ne on bytes compare only values of the operand's type. *)
EqualOnBytes(b, op, val) ==
    CASE val.t = "str" /\ IsStr(b) -> Yes(SameWord(b, val) = (op = "eq"))
      [] val.t = "num" /\ IsNumber(b) -> Yes(Compare(op, ReadNumber(b), val.n))
      [] val.t = "bool" /\ b.t = "bool" -> Yes((b = val) = (op = "eq"))
      [] OTHER -> "none"

(* $in and $nin on bytes look at strings only. *)
InOnBytes(b, val) ==
    IsStr(b) /\ \E i \in DOMAIN val.items : val.items[i].t = "str" /\ SameWord(b, val.items[i])

CtOnBytes(b, val) ==
    CASE val.t = "str" /\ IsStr(b) -> Yes(HasWord(b, val))
      [] val.t = "str" /\ b.t = "array" ->
            Yes(\E i \in DOMAIN b.items : IsStr(b.items[i]) /\ HasWord(b.items[i], val))
      [] OTHER -> "none"

EvaluatePredicateMsgpack(doc, path, op, val) ==
    LET sys == SystemFieldU64(doc, path)
        b == FindMsgpackValue(doc, path)
    IN  IF sys # Missing THEN SystemPredicate(sys, op, val)
        ELSE IF b = Missing THEN "none"
        ELSE CASE op \in {"eq", "ne"} -> EqualOnBytes(b, op, val)
               [] op \in {"in", "nin"} /\ val.t = "arr" -> Yes(InOnBytes(b, val) = (op = "in"))
               [] op = "ct" -> CtOnBytes(b, val)
               [] op \in Ranges /\ val.t = "num" /\ IsNumber(b) ->
                     Yes(Compare(op, ReadNumber(b), val.n))
               [] OTHER -> "none"

(* evaluate_where_msgpack: a predicate that cannot be evaluated excludes the document. *)
RECURSIVE EvaluateWhereMsgpack(_, _)
EvaluateWhereMsgpack(doc, c) ==
    CASE c.k = "is" -> EvaluatePredicateMsgpack(doc, c.path, "eq", c.val) = "yes"
      [] c.k = "op" -> EvaluatePredicateMsgpack(doc, c.path, c.op, c.val) = "yes"
      [] c.k = "or" -> \E i \in DOMAIN c.subs : EvaluateWhereMsgpack(doc, c.subs[i])
      [] OTHER -> \A i \in DOMAIN c.subs : EvaluateWhereMsgpack(doc, c.subs[i])

(* extract_fast_predicates: the leaves when there is no logical operator, else none. *)
RECURSIVE ExtractFastPredicates(_)
ExtractFastPredicates(c) ==
    CASE c.k = "is" /\ c.val.t \in {"str", "num", "bool"} -> <<Op(c.path, "eq", c.val)>>
      [] c.k = "op" /\ c.op \in Operators -> <<c>>
      [] c.k = "list" ->
            LET parts == [i \in DOMAIN c.subs |-> ExtractFastPredicates(c.subs[i])]
            IN  IF \E i \in DOMAIN parts : parts[i] = <<>> THEN <<>> ELSE FlattenSeq(parts)
      [] OTHER -> <<>>

(* The predicate closure fetch_documents hands to a scan. *)
ScanPredicate(doc, c) ==
    LET fast == ExtractFastPredicates(c)
    IN  IF fast # <<>>
        THEN \A i \in DOMAIN fast :
                 EvaluatePredicateMsgpack(doc, fast[i].path, fast[i].op, fast[i].val) = "yes"
        ELSE EvaluateWhereMsgpack(doc, c)
-----------------------------------------------------------------------------
(* Equality of decoded values: strings without case, the rest as serde_json compares. *)
EqualValues(a, b) == IF a.t = "str" /\ b.t = "str" THEN SameWord(a, b) ELSE a = b
InValues(d, val) == \E i \in DOMAIN val.items : EqualValues(d, val.items[i])

(* One {op: value} of evaluate_where; d is null when the field is missing. *)
EvaluateOp(d, op, val) ==
    CASE op = "eq" -> Yes(EqualValues(d, val))
      [] op = "ne" -> Yes(~EqualValues(d, val))
      [] op \in Ranges -> Yes(d.t = "num" /\ val.t = "num" /\ Compare(op, d.n, val.n))
      [] op = "ct" -> Yes(\/ d.t = "str" /\ val.t = "str" /\ HasWord(d, val)
                          \/ d.t = "arr" /\ \E i \in DOMAIN d.items : d.items[i] = val)
      [] op \in {"in", "nin"} /\ val.t = "arr" -> Yes(InValues(d, val) = (op = "in"))
      [] OTHER -> "error"

(* The first sub-clause, in order, that settles the matter. *)
FirstOf(results, settling) ==
    LET at == {i \in DOMAIN results : results[i] \in settling}
    IN  IF at = {} THEN "none" ELSE results[Min(at)]

RECURSIVE EvaluateWhere(_, _)
EvaluateWhere(doc, c) ==
    LET d == GetNestedValue(doc, c.path)
        results == [i \in DOMAIN c.subs |-> EvaluateWhere(doc, c.subs[i])]
    IN  CASE c.k = "is" -> Yes(d # Missing /\ EqualValues(d, c.val))
          [] c.k = "op" -> EvaluateOp(IF d = Missing THEN Null ELSE d, c.op, c.val)
          [] c.k = "or" -> LET r == FirstOf(results, {"yes", "error"})
                           IN  IF r = "none" THEN "no" ELSE r
          [] OTHER -> LET r == FirstOf(results, {"no", "error"})
                      IN  IF r = "none" THEN "yes" ELSE r

=============================================================================
